\* Three nodes, timely messages; one node crashes around SYNC and comes back.
CONSTANTS
  BaseDelta = 8
  Epsilon = 2
  ProposeWindow = 2
  FinalizeWindow = 2
  Nodes = {1, 2, 3}
  Txs = {1}
  Keyed = {1, 2, 3}
  SortKey <- MCSortKey
  VrfOutput <- MCVrfOutput
  ZeroRoot = ZeroRoot
  SKIP = SKIP
  Genesis = 0
  LastStart = 0
  SubmitTimes = {6}
  MaxLag = 0
  MaxDelay = 1
  MaxNow = 26
  MaxCrashes = 1
  CrashTimes = {6, 8, 9, 10}
  RelaunchTimes = {9, 10}
  RestartWait = 8
SPECIFICATION FaultSpec
INVARIANTS
  SurvivorsAgree
  SurvivorsInclude
  AdoptedFromSurvivors
  RefusedNeverSequenced
PROPERTIES
  SurvivorDigestsInTime
  SurvivorProposalsInTime
  SurvivorsVoteInTime
