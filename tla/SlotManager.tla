------------------------------ MODULE SlotManager ------------------------------
(* One node's clockwork: SlotManager's timers and phases driven by the wall   *)
(* clock, the skip counter that stretches a slot, and the start-up sequence   *)
(* (constructor, NodeDaemon.start with RESUME_SLOT, SlotManager.start).  What *)
(* FINALIZE decides is left open here, a winner or a skip; module Sequencer   *)
(* gives it its content.                                                      *)
EXTENDS SlotTiming

CONSTANTS
  Genesis,      \* GENESIS_TIMESTAMP, as given to SlotManager and to Mempool
  StartTimes,   \* when the process may be launched
  LastStart,    \* the wait for peers in index.ts ends at this time at the latest
  ResumeSlot,   \* RESUME_SLOT; 0 when unset
  MaxLag,       \* a due timer callback runs at most this late
  MaxNow        \* horizon: the clock stops here

ASSUME SlotManagerAssumption ==
  /\ Genesis \in Int
  /\ StartTimes \subseteq Int
  /\ LastStart \in Int
  /\ ResumeSlot \in Nat
  /\ MaxLag \in Nat
  /\ MaxNow \in Int

VARIABLES
  now,               \* Date.now()
  stage,             \* life of the process: "new", "booted", "running", "stopped"
  genesis,           \* SlotManager.genesisTimestamp; the mempool keeps Genesis
  currentSlot,
  currentPhase,
  effectiveDelta,
  consecutiveSkips,  \* SkipHandler.consecutiveSkips
  enteredAt          \* history: when currentPhase was entered

vars == <<now, stage, genesis, currentSlot, currentPhase, effectiveDelta,
          consecutiveSkips, enteredAt>>

-------------------------------------------------------------------------------
TypeOK ==
  /\ now \in Int
  /\ stage \in {"new", "booted", "running", "stopped"}
  /\ genesis \in Int
  /\ currentSlot \in Nat
  /\ currentPhase \in Phases
  /\ effectiveDelta \in {EffectiveSlotDuration(k) : k \in 0 .. 2}
  /\ consecutiveSkips \in Nat
  /\ enteredAt \in Int

\* The constructors run.
Init ==
  /\ now \in StartTimes
  /\ stage = "new"
  /\ genesis = Genesis
  /\ currentSlot = WallSlot(Genesis, now)
  /\ currentPhase = "COLLECT"
  /\ effectiveDelta = BaseDelta
  /\ consecutiveSkips = 0
  /\ enteredAt = now

\* When the current phase is to be left.
Due == LeaveTime(currentPhase, genesis, currentSlot, effectiveDelta)

\* NodeDaemon.start: with RESUME_SLOT set, setStartSlot moves SlotManager's
\* genesis so that the slot begins now.
Boot ==
  /\ stage = "new"
  /\ stage' = "booted"
  /\ IF ResumeSlot > 0
     THEN /\ currentSlot' = ResumeSlot
          /\ currentPhase' = "COLLECT"
          /\ genesis' = now - ResumeSlot * BaseDelta
          /\ enteredAt' = now
     ELSE UNCHANGED <<currentSlot, currentPhase, genesis, enteredAt>>
  /\ UNCHANGED <<now, effectiveDelta, consecutiveSkips>>

\* SlotManager.start, called by index.ts once the peers are connected.
StartTimer ==
  /\ stage = "booted"
  /\ stage' = "running"
  /\ currentSlot' = WallSlot(genesis, now)
  /\ currentPhase' = "COLLECT"
  /\ effectiveDelta' = BaseDelta
  /\ enteredAt' = now
  /\ UNCHANGED <<now, genesis, consecutiveSkips>>

Stop ==
  /\ stage = "running"
  /\ stage' = "stopped"
  /\ UNCHANGED <<now, genesis, currentSlot, currentPhase, effectiveDelta,
                 consecutiveSkips, enteredAt>>

\* The timer callback executeTransition(nextPhase), for a node in phase p.  A
\* timer never fires before its time; it may fire after it.
Fires(p) ==
  /\ stage = "running"
  /\ currentPhase = p
  /\ now >= Due
  /\ currentPhase' = NextPhase[p]
  /\ enteredAt' = now
  /\ UNCHANGED <<now, stage, genesis>>

ToFreeze  == Fires("COLLECT") /\ UNCHANGED <<currentSlot, effectiveDelta, consecutiveSkips>>
ToSync    == Fires("FREEZE")  /\ UNCHANGED <<currentSlot, effectiveDelta, consecutiveSkips>>
ToPropose == Fires("SYNC")    /\ UNCHANGED <<currentSlot, effectiveDelta, consecutiveSkips>>

\* The listener runs before the end of FINALIZE is scheduled, so that end is
\* computed with the duration the listener has just set.
FinalizeWon ==
  /\ Fires("PROPOSE")
  /\ consecutiveSkips' = 0
  /\ effectiveDelta' = BaseDelta
  /\ UNCHANGED currentSlot

FinalizeSkipped ==
  /\ Fires("PROPOSE")
  /\ consecutiveSkips' = consecutiveSkips + 1
  /\ effectiveDelta' = EffectiveSlotDuration(consecutiveSkips + 1)
  /\ UNCHANGED currentSlot

\* Mutant of ToCollect: a node that lags behind jumps to the slot of the clock.
ToCollectJumps ==
  /\ Fires("FINALIZE")
  /\ currentSlot' = IF WallSlot(genesis, now) > currentSlot + 1
                    THEN WallSlot(genesis, now) ELSE currentSlot + 1
  /\ UNCHANGED <<effectiveDelta, consecutiveSkips>>

ToCollect ==
  /\ Fires("FINALIZE")
  /\ currentSlot' = currentSlot + 1
  /\ UNCHANGED <<effectiveDelta, consecutiveSkips>>

\* Time passes unless a timer is overdue by MaxLag, or the start is.
Tick ==
  /\ now < MaxNow
  /\ stage \in {"new", "booted"} => now < LastStart
  /\ stage = "running" => now < Due + MaxLag
  /\ now' = now + 1
  /\ UNCHANGED <<stage, genesis, currentSlot, currentPhase, effectiveDelta,
                 consecutiveSkips, enteredAt>>

\* The horizon, where the model stops (not the program).
Horizon ==
  /\ now = MaxNow
  /\ UNCHANGED vars

Next ==
  \/ Boot \/ StartTimer \/ Stop
  \/ ToFreeze \/ ToSync \/ ToPropose
  \/ FinalizeWon \/ FinalizeSkipped
  \/ ToCollect
  \/ Tick \/ Horizon

Spec == Init /\ [][Next]_vars

-------------------------------------------------------------------------------
\* The abstract clockwork: before slotManager.start() the node waits; then what
\* counts is how far the clock is into the current slot.
Cycle == INSTANCE SlotCycle WITH
  stage        <- IF stage \in {"new", "booted"} THEN "waiting" ELSE stage,
  phase        <- currentPhase,
  elapsed      <- IF stage = "running" THEN now - Start(genesis, currentSlot) ELSE 0,
  stretch      <- effectiveDelta,
  StartOffsets <- {e \in Int : e < BaseDelta}

-------------------------------------------------------------------------------
\* PROPERTIES

\* A transaction that arrives while the node is running is filed under a slot
\* whose common subset this node has not computed yet: never under a slot that
\* is being proposed, is finalised or is gone, where it would be dropped or
\* never looked at again.  Mempool and SlotManager count time separately; this
\* is what their agreement is needed for ("No Retroactive Inclusion", PROT-001).
ArrivalsLandInOpenSlot ==
  stage = "running" =>
    LET s == AssignTransactionToSlot(Genesis, now)
    IN \/ s > currentSlot
       \/ s = currentSlot /\ currentPhase \in {"COLLECT", "FREEZE", "SYNC"}

\* Slots start at absolute times, so a slot stretched by skips delays those
\* after it only until they have caught up: however many slots in a row are
\* skipped, the node trails the wall clock by at most the longest stretch.
BacklogBounded ==
  stage = "running" =>
    WallSlot(genesis, now) - currentSlot
      <= 4 + (ProposeWindow + FinalizeWindow + MaxLag) \div BaseDelta

\* No phase is entered before its time in an unstretched slot, whatever the
\* stretch was before and is now: peers can rely on the base schedule as a lower
\* bound when they decide that a proposal for a slot is late.
NeverEarly ==
  (stage = "running" /\ currentPhase # "COLLECT") =>
    enteredAt >= CASE currentPhase \in {"FREEZE", "SYNC"} -> Freeze(genesis, currentSlot, BaseDelta)
                   [] currentPhase = "PROPOSE"  -> SyncEnd(genesis, currentSlot, BaseDelta)
                   [] currentPhase = "FINALIZE" -> ProposeEnd(genesis, currentSlot, BaseDelta)

\* The clockwork does what SlotCycle promises: slots are worked on one after the
\* other, none is left out to catch up, each is started from no earlier than one
\* slot after the one before, and skips stretch a slot to 2 and 4 times its
\* length.  Timers with absolute targets keep that only because the genesis
\* stays put while the node runs.
ImplementsCycle == Cycle!Spec

\* "A transaction cannot be assigned to a past slot" (PROT-001 section 3,
\* invariant 2), the past being what is before the slot the node works on.
NoRetroactiveInclusion ==
  stage = "running" => AssignTransactionToSlot(Genesis, now) >= currentSlot

===============================================================================
