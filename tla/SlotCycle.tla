------------------------------- MODULE SlotCycle -------------------------------
(* What SlotManager's clockwork promises, without slot numbers or a calendar:  *)
(* a running node goes round the phases, measuring time from the start of the  *)
(* slot it works on.  Time and slots may go on for ever while the state stays  *)
(* finite, so that liveness can be checked; SlotManager implements this module.*)
EXTENDS SlotTiming

CONSTANTS
  StartOffsets,  \* how far into a slot (before the genesis: negative) a node may start
  MaxLag         \* a due timer callback runs at most this late

VARIABLES
  stage,    \* "waiting" for slotManager.start(), "running" or "stopped"
  phase,    \* SlotManager.currentPhase
  elapsed,  \* time since the start of the current slot; 0 unless running
  stretch   \* SlotManager.effectiveDelta

vars == <<stage, phase, elapsed, stretch>>

TypeOK ==
  /\ stage \in {"waiting", "running", "stopped"}
  /\ phase \in Phases
  /\ elapsed \in Int
  /\ stretch \in {BaseDelta, 2 * BaseDelta, 4 * BaseDelta}

Init ==
  /\ stage = "waiting"
  /\ phase = "COLLECT"
  /\ elapsed = 0
  /\ stretch = BaseDelta

\* SlotManager.start.
StartTimer ==
  /\ stage = "waiting"
  /\ stage' = "running"
  /\ elapsed' \in StartOffsets
  /\ UNCHANGED <<phase, stretch>>

\* SlotManager.stop: the timer is cleared and nothing is scheduled any more.
Stop ==
  /\ stage = "running"
  /\ stage' = "stopped"
  /\ elapsed' = 0
  /\ UNCHANGED <<phase, stretch>>

\* When the current phase is to be left.
Due == LeaveTime(phase, 0, 0, stretch)

\* Mutant of IsDue: a timer whose time has passed when it is set never fires.
IsDueExactly == elapsed = Due

IsDue == elapsed >= Due

\* executeTransition on a node in phase p.
Fires(p) ==
  /\ stage = "running"
  /\ phase = p
  /\ IsDue
  /\ phase' = NextPhase[p]
  /\ UNCHANGED stage

ToFreeze  == Fires("COLLECT") /\ UNCHANGED <<elapsed, stretch>>
ToSync    == Fires("FREEZE")  /\ UNCHANGED <<elapsed, stretch>>
ToPropose == Fires("SYNC")    /\ UNCHANGED <<elapsed, stretch>>

\* Mutant of FinalizeWon: the stretch is kept.
FinalizeWonKeepsStretch == Fires("PROPOSE") /\ UNCHANGED <<elapsed, stretch>>

FinalizeWon ==
  /\ Fires("PROPOSE")
  /\ stretch' = BaseDelta
  /\ UNCHANGED elapsed

\* Mutant of FinalizeSkipped: no cap.
FinalizeSkippedUncapped ==
  /\ Fires("PROPOSE")
  /\ stretch' = 2 * stretch
  /\ UNCHANGED elapsed

\* A skipped slot doubles the stretch, up to four slots.
FinalizeSkipped ==
  /\ Fires("PROPOSE")
  /\ stretch' = IF stretch = 4 * BaseDelta THEN stretch ELSE 2 * stretch
  /\ UNCHANGED elapsed

\* The next slot started, or will start, one unstretched slot after this one.
ToCollect ==
  /\ Fires("FINALIZE")
  /\ elapsed' = elapsed - BaseDelta
  /\ UNCHANGED stretch

Tick ==
  /\ stage = "running"
  /\ elapsed < Due + MaxLag
  /\ elapsed' = elapsed + 1
  /\ UNCHANGED <<stage, phase, stretch>>

Finalize == FinalizeWon \/ FinalizeSkipped
Transition == ToFreeze \/ ToSync \/ ToPropose \/ Finalize \/ ToCollect

Next == StartTimer \/ Stop \/ Transition \/ Tick

Spec == Init /\ [][Next]_vars

\* Time passes, and the event loop runs a callback that stays due.  Nobody has
\* to stop the node, and no slot has to be won.
Fairness == WF_vars(StartTimer) /\ WF_vars(Transition) /\ WF_vars(Tick)

LiveSpec == Spec /\ Fairness

-------------------------------------------------------------------------------
\* PROPERTIES

\* Until it is stopped, a running node comes round to every phase again and
\* again, whatever is won or skipped and however far it lags behind: each timer
\* callback schedules the next, also when the time for that has passed.
PhasesGoRound ==
  \A p \in Phases : (stage = "running") ~> (phase = p \/ stage = "stopped")

\* When from some time on no slot is skipped any more, the node is in the end
\* back on the schedule of unstretched slots, for good.
BackOnSchedule ==
  \/ []<><<FinalizeSkipped>>_vars
  \/ <>[](elapsed <= BaseDelta + ProposeWindow + FinalizeWindow + MaxLag)
===============================================================================
