----------------------------- MODULE MCSlotManager -----------------------------
(* Small instances of SlotManager.  One tick stands for 500 to 750 ms: slots of *)
(* 8 ticks with a cutoff of 2, PROPOSE and FINALIZE of 1 and 2.                  *)
EXTENDS SlotManager, TLC

MCStartTimes == {-3, 0, 5, 9}
MCAtGenesis  == {0}
===============================================================================
