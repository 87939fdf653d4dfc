\* Only node 2 can win, its proposals may come too late for node 1, and both anchor.
CONSTANTS
  BaseDelta = 8
  Epsilon = 2
  ProposeWindow = 2
  FinalizeWindow = 2
  Nodes = {1, 2}
  Txs = {1}
  Keyed = {2}
  SortKey <- MCSortKey
  VrfOutput <- MCVrfOutput
  ZeroRoot = ZeroRoot
  SKIP = SKIP
  Genesis = 0
  LastStart = 0
  SubmitTimes = {6}
  MaxLag = 0
  MaxDelay = 3
  MaxNow = 26
  Anchoring = {1, 2}
  Owners = {1, 2}
SPECIFICATION AnchoredSpec
INVARIANTS
  StateRootCommitsToHistory
  SkipsCountTrailingNulls
  AnchoredRootsAreFinalized
PROPERTY
  AnchorNeverRewritten
