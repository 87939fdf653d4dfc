\* Three nodes, messages delivered within a tick: three slots.
CONSTANTS
  BaseDelta = 8
  Epsilon = 2
  ProposeWindow = 2
  FinalizeWindow = 2
  Nodes = {1, 2, 3}
  Txs = {1, 2, 3}
  Keyed = {1, 2, 3}
  SortKey <- MCSortKey
  VrfOutput <- MCVrfOutput
  ZeroRoot = ZeroRoot
  SKIP = SKIP
  Genesis = 0
  LastStart = 0
  SubmitTimes = {6}
  MaxLag = 0
  MaxDelay = 1
  MaxNow = 26
SPECIFICATION TimelySpec
INVARIANTS
  CommonSubsetAgreement
  Agreement
  InclusionBounded
  NothingKeptOfPastSlots
PROPERTIES
  DigestsInTime
  ProposalsInTime
  ImplementsLedger
