\* Two nodes over a network that may delay a message for ever: two slots.
CONSTANTS
  BaseDelta = 8
  Epsilon = 2
  ProposeWindow = 2
  FinalizeWindow = 2
  Nodes = {1, 2}
  Txs = {1}
  Keyed = {1, 2}
  SortKey <- MCSortKey
  VrfOutput <- MCVrfOutput
  ZeroRoot = ZeroRoot
  SKIP = SKIP
  Genesis = 0
  LastStart = 0
  SubmitTimes = {6}
  MaxLag = 0
  MaxDelay = 99
  MaxNow = 18
SPECIFICATION Spec
INVARIANTS
  AdoptedBatchSharesHistory
  NoStrandedTx
PROPERTY
  TxLeavesOnlyByInclusion
