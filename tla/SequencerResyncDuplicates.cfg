\* A transaction that has been sequenced comes back with an emergency resync.
CONSTANTS
  BaseDelta = 8
  Epsilon = 2
  ProposeWindow = 2
  FinalizeWindow = 2
  Nodes = {1, 2, 3}
  Txs = {1, 2}
  Keyed = {1}
  SortKey <- MCSortKey
  VrfOutput <- MCVrfOutput
  ZeroRoot = ZeroRoot
  SKIP = SKIP
  Genesis = 0
  LastStart = 0
  SubmitTimes = {6}
  MaxLag = 0
  MaxDelay = 99
  MaxNow = 66
SPECIFICATION StorySpec
INVARIANT
  SequencedOnce
CHECK_DEADLOCK FALSE
