\* No node signs with its registered key: every slot is skipped, up to the fourth.
CONSTANTS
  BaseDelta = 8
  Epsilon = 2
  ProposeWindow = 2
  FinalizeWindow = 2
  Nodes = {1, 2}
  Txs = {1, 2}
  Keyed = {}
  SortKey <- MCSortKey
  VrfOutput <- MCVrfOutput
  ZeroRoot = ZeroRoot
  SKIP = SKIP
  Genesis = 0
  LastStart = 0
  SubmitTimes = {6, 47}
  MaxLag = 0
  MaxDelay = 1
  MaxNow = 58
SPECIFICATION Spec
INVARIANTS
  TypeOK
  NothingKeptOfPastSlots
PROPERTY
  TxLeavesOnlyByInclusion
