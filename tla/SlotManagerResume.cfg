\* RESUME_SLOT set: the slot counter starts ahead of the mempool's slots.
CONSTANTS
  BaseDelta = 8
  Epsilon = 2
  ProposeWindow = 1
  FinalizeWindow = 2
  Genesis = 0
  StartTimes <- MCAtGenesis
  LastStart = 0
  ResumeSlot = 2
  MaxLag = 0
  MaxNow = 20
SPECIFICATION Spec
INVARIANT NoRetroactiveInclusion
