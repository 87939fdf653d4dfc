\* Launched around the genesis, timers up to one tick late, five slots or more.
CONSTANTS
  BaseDelta = 8
  Epsilon = 2
  ProposeWindow = 1
  FinalizeWindow = 2
  Genesis = 0
  StartTimes <- MCStartTimes
  LastStart = 12
  ResumeSlot = 0
  MaxLag = 1
  MaxNow = 90
SPECIFICATION Spec
INVARIANTS
  TypeOK
  ArrivalsLandInOpenSlot
  BacklogBounded
  NeverEarly
PROPERTY
  ImplementsCycle
