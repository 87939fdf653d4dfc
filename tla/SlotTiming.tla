------------------------------ MODULE SlotTiming ------------------------------
(* The arithmetic of slot time: where the phases of a slot begin and end      *)
(* (SlotManager.getSlotBoundaries), which phase follows which and when        *)
(* (SlotManager.scheduleNextTransition), how far a slot is stretched after    *)
(* skipped slots (SkipHandler) and which slot a transaction that arrives at a *)
(* given time belongs to (Mempool.assignTransactionToSlot).  Times are        *)
(* integers, one unit being the resolution of Date.now() (scaled in the       *)
(* runs).  The genesis is a parameter of every operator because the source    *)
(* keeps two copies of it, one in SlotManager and one in Mempool.             *)
EXTENDS Integers

CONSTANTS
  BaseDelta,       \* SLOT_DURATION: the unstretched length of a slot
  Epsilon,         \* CUTOFF_BUFFER: the slot is frozen this long before its end
  ProposeWindow,   \* 500 ms in the source: length of the PROPOSE phase
  FinalizeWindow   \* 1000 ms in the source: length of the FINALIZE phase

ASSUME TimingAssumption ==
  /\ BaseDelta \in Nat \ {0}
  /\ Epsilon \in 0 .. BaseDelta
  /\ ProposeWindow \in Nat
  /\ FinalizeWindow \in Nat

-------------------------------------------------------------------------------
\* Slot boundaries.  The start of a slot never moves; eff (effectiveDelta) only
\* moves what comes after it.

Start(g, s)            == g + s * BaseDelta
Freeze(g, s, eff)      == Start(g, s) + eff - Epsilon
SyncEnd(g, s, eff)     == Start(g, s) + eff
ProposeEnd(g, s, eff)  == SyncEnd(g, s, eff) + ProposeWindow
FinalizeEnd(g, s, eff) == ProposeEnd(g, s, eff) + FinalizeWindow

\* The slot the wall clock is in; 0 before the genesis.
WallSlot(g, t) == IF t < g THEN 0 ELSE (t - g) \div BaseDelta

\* The slot whose bucket takes a transaction that arrives at time t: the slot of
\* the wall clock up to the cutoff, the cutoff included, and the next one after.
AssignTransactionToSlot(g, t) ==
  IF t <= Start(g, WallSlot(g, t)) + BaseDelta - Epsilon
  THEN WallSlot(g, t)
  ELSE WallSlot(g, t) + 1

-------------------------------------------------------------------------------
\* Phases of a slot and the schedule that leads from one to the next.

Phases == {"COLLECT", "FREEZE", "SYNC", "PROPOSE", "FINALIZE"}

NextPhase == [COLLECT  |-> "FREEZE",  FREEZE  |-> "SYNC", SYNC |-> "PROPOSE",
              PROPOSE  |-> "FINALIZE", FINALIZE |-> "COLLECT"]

\* Mutants of LeaveTime: SYNC does not wait for digests; PROPOSE not for proposals.
LeaveTimeNoSync(p, g, s, eff) ==
  [COLLECT  |-> Freeze(g, s, eff),
   FREEZE   |-> Freeze(g, s, eff),
   SYNC     |-> Freeze(g, s, eff),
   PROPOSE  |-> ProposeEnd(g, s, eff),
   FINALIZE |-> FinalizeEnd(g, s, eff)][p]
LeaveTimeNoPropose(p, g, s, eff) ==
  [COLLECT  |-> Freeze(g, s, eff),
   FREEZE   |-> Freeze(g, s, eff),
   SYNC     |-> SyncEnd(g, s, eff),
   PROPOSE  |-> SyncEnd(g, s, eff),
   FINALIZE |-> FinalizeEnd(g, s, eff)][p]

\* The time at which a node in phase p of slot s is to leave it.  FREEZE is left
\* at once: its target is the time it was entered, which is never before Freeze.
LeaveTime(p, g, s, eff) ==
  [COLLECT  |-> Freeze(g, s, eff),
   FREEZE   |-> Freeze(g, s, eff),
   SYNC     |-> SyncEnd(g, s, eff),
   PROPOSE  |-> ProposeEnd(g, s, eff),
   FINALIZE |-> FinalizeEnd(g, s, eff)][p]

-------------------------------------------------------------------------------
\* Skip recovery.

MaxConsecutiveSkips == 3

\* Mutant: without the cap.
EffectiveSlotDurationUncapped(skips) == BaseDelta * 2 ^ skips

\* min(2^skips, 4) slots.
EffectiveSlotDuration(skips) ==
  BaseDelta * (IF skips = 0 THEN 1 ELSE IF skips = 1 THEN 2 ELSE 4)

ShouldTriggerEmergencyResync(skips) == skips >= MaxConsecutiveSkips
===============================================================================
