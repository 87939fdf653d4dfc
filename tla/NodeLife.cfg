\* Two peers, one of them a bootstrap node; slots of 4 ticks.
CONSTANTS
  BaseDelta = 4
  Epsilon = 1
  ProposeWindow = 1
  FinalizeWindow = 2
  Peers = {p1, p2}
  Bootstrap = {p1}
  Expected = 2
  MaxWait = 5
  PollInterval = 2
  Settle = 3
  PollLag = 1
  StartOffsets <- MCOffsets
  MaxLag = 1
SPECIFICATION LifeSpec
INVARIANTS
  LifeTypeOK
  StartIsTimely
PROPERTIES
  StartsAtLast
  PhasesGoRound
  BackOnSchedule
