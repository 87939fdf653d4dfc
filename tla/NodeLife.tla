-------------------------------- MODULE NodeLife --------------------------------
(* One process from its launch on: Startup up to slotManager.start(), SlotCycle  *)
(* from there.  SlotCycle assumes that the node is started at last; the wait     *)
(* loop sees to it, unless the network cannot be set up.                         *)
EXTENDS Startup, SlotTiming

CONSTANTS StartOffsets, MaxLag   \* those of SlotCycle

ASSUME NodeLifeAssumption == StartOffsets \subseteq Int /\ MaxLag \in Nat

VARIABLES stage, phase, elapsed, stretch

Cycle == INSTANCE SlotCycle

cycleVars == <<stage, phase, elapsed, stretch>>
lifeVars  == <<vars, cycleVars>>

LifeInit == Init /\ Cycle!Init

\* main() calls slotManager.start() in the callback that ends the settling time.
Launch == StartConsensus /\ Cycle!StartTimer

Startups ==
  /\ \/ Networking \/ NetworkFails \/ Interrupted \/ Poll
     \/ \E p \in Peers : Connect(p) \/ Disconnect(p)
  /\ UNCHANGED cycleVars

Slots == (Cycle!Transition \/ Cycle!Stop) /\ UNCHANGED vars

TimePasses ==
  \/ Tick /\ UNCHANGED cycleVars
  \/ Cycle!Tick /\ UNCHANGED vars

\* A process that has exited, or whose slot manager is stopped, does nothing.
Over == (step = "exited" \/ stage = "stopped") /\ UNCHANGED lifeVars

LifeNext == Launch \/ Startups \/ Slots \/ TimePasses \/ Over

\* main() goes on when what it awaits has ended (a dial succeeds or fails in the
\* end, a timeout elapses), the event loop runs due callbacks, and time passes.
\* Nothing is assumed about peers, about stopping or about who wins slots.
LifeFairness ==
  /\ WF_lifeVars(Networking /\ UNCHANGED cycleVars)
  /\ WF_lifeVars(Poll /\ UNCHANGED cycleVars)
  /\ WF_lifeVars(Launch)
  /\ WF_lifeVars(Cycle!Transition /\ UNCHANGED vars)
  /\ WF_lifeVars(TimePasses)

LifeSpec == LifeInit /\ [][LifeNext]_lifeVars /\ LifeFairness

-------------------------------------------------------------------------------
\* PROPERTIES

\* Startup and SlotCycle keep to their types; the stretch never exceeds four slots.
LifeTypeOK == TypeOK /\ Cycle!TypeOK

\* A launched process starts its slot manager, alone if it has to, unless its
\* network cannot be started or it is interrupted: no pattern of peers coming and going keeps it
\* waiting for ever.
StartsAtLast == <>(step = "exited" \/ stage # "waiting")

\* The phases go round for ever in a process that is not stopped (index.ts
\* starts the slot manager once and nothing restarts its timers).
PhasesGoRound == Cycle!PhasesGoRound

\* After the last skipped slot the process returns to the schedule for good.
BackOnSchedule == Cycle!BackOnSchedule
===============================================================================
