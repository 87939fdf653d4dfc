\* A transaction arrives while the nodes wait for their peers.
CONSTANTS
  BaseDelta = 8
  Epsilon = 2
  ProposeWindow = 2
  FinalizeWindow = 2
  Nodes = {1, 2}
  Txs = {1}
  Keyed = {1, 2}
  SortKey <- MCSortKey
  VrfOutput <- MCVrfOutput
  ZeroRoot = ZeroRoot
  SKIP = SKIP
  Genesis = 0
  LastStart = 9
  SubmitTimes = {0}
  MaxLag = 0
  MaxDelay = 1
  MaxNow = 20
SPECIFICATION Spec
INVARIANT
  NoStrandedTx
