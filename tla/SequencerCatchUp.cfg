\* Only node 1 has its key; the slot after a skipped one catches up in no time.
CONSTANTS
  BaseDelta = 8
  Epsilon = 2
  ProposeWindow = 2
  FinalizeWindow = 2
  Nodes = {1, 2, 3}
  Txs = {1, 2}
  Keyed = {1}
  SortKey <- MCSortKey
  VrfOutput <- MCVrfOutput
  ZeroRoot = ZeroRoot
  SKIP = SKIP
  Genesis = 0
  LastStart = 0
  SubmitTimes = {6, 16}
  MaxLag = 0
  MaxDelay = 1
  MaxNow = 27
SPECIFICATION Spec
INVARIANT
  StateRootAgreement
