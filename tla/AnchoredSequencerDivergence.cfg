\* Both nodes submit a root for the slot they have finalised differently.
CONSTANTS
  BaseDelta = 8
  Epsilon = 2
  ProposeWindow = 2
  FinalizeWindow = 2
  Nodes = {1, 2}
  Txs = {1}
  Keyed = {2}
  SortKey <- MCSortKey
  VrfOutput <- MCVrfOutput
  ZeroRoot = ZeroRoot
  SKIP = SKIP
  Genesis = 0
  LastStart = 0
  SubmitTimes = {6}
  MaxLag = 0
  MaxDelay = 3
  MaxNow = 26
  Anchoring = {1, 2}
  Owners = {1, 2}
SPECIFICATION AnchoredSpec
INVARIANT
  DivergenceIsVisible
