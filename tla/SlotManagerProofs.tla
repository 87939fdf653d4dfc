--------------------------- MODULE SlotManagerProofs ---------------------------
(* Proofs about SlotManager, for every base duration, cutoff, window, genesis  *)
(* and lag: its invariants, and that it implements SlotCycle.                  *)
EXTENDS SlotManager, SlotTimingProofs

-------------------------------------------------------------------------------
\* Every reachable state has the types of TypeOK; in particular the stretch stays
\* one of three values however many slots are skipped.
THEOREM TypeCorrect == Spec => []TypeOK
<1> USE SlotManagerAssumption, TimingAssumption
<1>1. Init => TypeOK
  <2> SUFFICES ASSUME Init PROVE TypeOK
    OBVIOUS
  <2>1. now \in Int
    BY DEF Init
  <2>2. currentSlot \in Nat
    BY <2>1, WallSlotBrackets DEF Init
  <2>3. effectiveDelta \in {EffectiveSlotDuration(k) : k \in 0 .. 2}
    BY StretchRange DEF Init
  <2> QED
    BY <2>1, <2>2, <2>3 DEF Init, TypeOK, Phases
<1>2. TypeOK /\ [Next]_vars => TypeOK'
  <2> SUFFICES ASSUME TypeOK, [Next]_vars PROVE TypeOK'
    OBVIOUS
  <2> USE DEF TypeOK
  <2>1. CASE Boot
    BY <2>1 DEF Boot, Phases
  <2>2. CASE StartTimer
    <3>1. currentSlot' \in Nat
      BY <2>2, WallSlotBrackets DEF StartTimer
    <3>2. effectiveDelta' \in {EffectiveSlotDuration(k) : k \in 0 .. 2}
      BY <2>2, StretchRange DEF StartTimer
    <3> QED
      BY <2>2, <3>1, <3>2 DEF StartTimer, Phases
  <2>3. CASE Stop
    BY <2>3 DEF Stop
  <2>4. CASE ToFreeze
    BY <2>4 DEF ToFreeze, Fires, NextPhase, Phases
  <2>5. CASE ToSync
    BY <2>5 DEF ToSync, Fires, NextPhase, Phases
  <2>6. CASE ToPropose
    BY <2>6 DEF ToPropose, Fires, NextPhase, Phases
  <2>7. CASE FinalizeWon
    <3>1. effectiveDelta' \in {EffectiveSlotDuration(k) : k \in 0 .. 2}
      BY <2>7, StretchRange DEF FinalizeWon
    <3> QED
      BY <2>7, <3>1 DEF FinalizeWon, Fires, NextPhase, Phases
  <2>8. CASE FinalizeSkipped
    <3>1. effectiveDelta' \in {EffectiveSlotDuration(k) : k \in 0 .. 2}
      BY <2>8, StretchRange DEF FinalizeSkipped
    <3> QED
      BY <2>8, <3>1 DEF FinalizeSkipped, Fires, NextPhase, Phases
  <2>9. CASE ToCollect
    BY <2>9 DEF ToCollect, Fires, NextPhase, Phases
  <2>10. CASE Tick
    BY <2>10 DEF Tick
  <2>11. CASE Horizon \/ UNCHANGED vars
    BY <2>11 DEF Horizon, vars
  <2> QED
    BY <2>1, <2>2, <2>3, <2>4, <2>5, <2>6, <2>7, <2>8, <2>9, <2>10, <2>11 DEF Next
<1> QED
  BY <1>1, <1>2, PTL DEF Spec

-------------------------------------------------------------------------------
\* The inductive invariant behind ArrivalsLandInOpenSlot.  Without RESUME_SLOT
\* the two clocks have the same genesis, and a node is never ahead of the wall
\* clock: it enters a slot after its start and proposes after its end.
Behind ==
  /\ genesis = Genesis
  /\ stage = "running" =>
       /\ currentSlot = 0 \/ now >= Start(Genesis, currentSlot)
       /\ currentPhase \in {"PROPOSE", "FINALIZE"} => now >= Start(Genesis, currentSlot + 1)

\* What Behind is for: arrivals go to slots that are still open.
LEMMA BehindSuffices ==
  ASSUME TypeOK, Behind
  PROVE  ArrivalsLandInOpenSlot
<1> SUFFICES ASSUME stage = "running"
             PROVE  LET s == AssignTransactionToSlot(Genesis, now)
                    IN \/ s > currentSlot
                       \/ s = currentSlot /\ currentPhase \in {"COLLECT", "FREEZE", "SYNC"}
  BY DEF ArrivalsLandInOpenSlot
<1> DEFINE w == WallSlot(Genesis, now)
<1>1. Genesis \in Int /\ now \in Int /\ currentSlot \in Nat
  BY SlotManagerAssumption DEF TypeOK
<1>2. w \in Nat /\ AssignTransactionToSlot(Genesis, now) \in {w, w + 1}
  BY <1>1, WallSlotBrackets, AssignedNow
<1>3. w >= currentSlot
  BY <1>1, <1>2, WallSlotReaches DEF Behind
<1>4. currentPhase \in {"PROPOSE", "FINALIZE"} => w >= currentSlot + 1
  BY <1>1, WallSlotReaches DEF Behind
<1>5. currentPhase \in {"PROPOSE", "FINALIZE"} \/ currentPhase \in {"COLLECT", "FREEZE", "SYNC"}
  BY DEF TypeOK, Phases
<1> QED
  BY <1>1, <1>2, <1>3, <1>4, <1>5

\* Entering PROPOSE, or leaving FINALIZE, takes a clock past the end of the slot.
LEMMA SlotIsOver ==
  ASSUME TypeOK, Behind, now >= Due, currentPhase \in {"SYNC", "PROPOSE", "FINALIZE"}
  PROVE  now >= Start(Genesis, currentSlot + 1)
<1>1. /\ Genesis \in Int /\ now \in Int /\ currentSlot \in Nat /\ genesis = Genesis
      /\ BaseDelta \in Nat /\ ProposeWindow \in Nat /\ FinalizeWindow \in Nat
  BY SlotManagerAssumption, TimingAssumption DEF TypeOK, Behind
<1>2. effectiveDelta \in Int /\ effectiveDelta >= BaseDelta
  BY StretchAtLeastSlot DEF TypeOK
<1>3. currentSlot * BaseDelta \in Int
  BY <1>1
<1>4. (currentSlot + 1) * BaseDelta = currentSlot * BaseDelta + BaseDelta
  BY <1>1, SMTT(30)
<1>5. Due >= Start(Genesis, currentSlot) + effectiveDelta
  BY <1>1, <1>2, <1>3 DEF Due, LeaveTime, Freeze, SyncEnd, ProposeEnd, FinalizeEnd, Start
<1>6. Due \in Int
  BY <1>1, <1>2, <1>3 DEF Due, LeaveTime, Freeze, SyncEnd, ProposeEnd, FinalizeEnd, Start
<1> QED
  BY <1>1, <1>2, <1>3, <1>4, <1>5, <1>6 DEF Start

\* With RESUME_SLOT unset, no transaction is ever filed under a slot that is
\* being proposed or is over, whatever the durations, the lag of the timers, the
\* moment the process starts and the slots it skips.
THEOREM ArrivalsCorrect ==
  ASSUME ResumeSlot = 0
  PROVE  Spec => []ArrivalsLandInOpenSlot
<1> USE SlotManagerAssumption, TimingAssumption
<1>1. Init => Behind
  BY DEF Init, Behind
<1>2. TypeOK /\ Behind /\ [Next]_vars => Behind'
  <2> SUFFICES ASSUME TypeOK, Behind, [Next]_vars PROVE Behind'
    OBVIOUS
  <2>1. CASE Boot
    BY <2>1 DEF Boot, Behind
  <2>2. CASE StartTimer
    <3>1. WallSlot(Genesis, now) = 0 \/ now >= Start(Genesis, WallSlot(Genesis, now))
      BY WallSlotBrackets DEF TypeOK, WallSlot
    <3> QED
      BY <2>2, <3>1 DEF StartTimer, Behind
  <2>3. CASE Stop
    BY <2>3 DEF Stop, Behind
  <2>4. CASE ToFreeze
    BY <2>4 DEF ToFreeze, Fires, NextPhase, Behind
  <2>5. CASE ToSync
    BY <2>5 DEF ToSync, Fires, NextPhase, Behind
  <2>6. CASE ToPropose
    <3>1. now >= Start(Genesis, currentSlot + 1)
      BY <2>6, SlotIsOver DEF ToPropose, Fires
    <3> QED
      BY <2>6, <3>1 DEF ToPropose, Fires, Behind
  <2>7. CASE FinalizeWon
    BY <2>7 DEF FinalizeWon, Fires, NextPhase, Behind
  <2>8. CASE FinalizeSkipped
    BY <2>8 DEF FinalizeSkipped, Fires, NextPhase, Behind
  <2>9. CASE ToCollect
    <3>1. now >= Start(Genesis, currentSlot + 1)
      BY <2>9, SlotIsOver DEF ToCollect, Fires
    <3> QED
      BY <2>9, <3>1 DEF ToCollect, Fires, NextPhase, Behind
  <2>10. CASE Tick
    <3>1. /\ Start(Genesis, currentSlot) \in Int /\ Start(Genesis, currentSlot + 1) \in Int
          /\ now \in Int
      BY DEF TypeOK, Start
    <3> QED
      BY <2>10, <3>1 DEF Tick, Behind
  <2>11. CASE Horizon \/ UNCHANGED vars
    BY <2>11 DEF Horizon, vars, Behind
  <2> QED
    BY <2>1, <2>2, <2>3, <2>4, <2>5, <2>6, <2>7, <2>8, <2>9, <2>10, <2>11 DEF Next
<1>3. TypeOK /\ Behind => ArrivalsLandInOpenSlot
  BY BehindSuffices
<1>4. Spec => []TypeOK
  BY TypeCorrect
<1> QED
  BY <1>1, <1>2, <1>3, <1>4, PTL DEF Spec

-------------------------------------------------------------------------------
\* The schedule of an unstretched slot is a lower bound for every phase, whatever
\* the stretch was when it was entered: no target is ever before that schedule,
\* and no timer fires before its target.
THEOREM NeverEarlyCorrect == Spec => []NeverEarly
<1> USE SlotManagerAssumption, TimingAssumption
<1>1. Init => NeverEarly
  BY DEF Init, NeverEarly
<1>2. TypeOK /\ NeverEarly /\ [Next]_vars => NeverEarly'
  <2> SUFFICES ASSUME TypeOK, NeverEarly, [Next]_vars PROVE NeverEarly'
    OBVIOUS
  <2>1. CASE Boot \/ StartTimer \/ Stop
    BY <2>1 DEF Boot, StartTimer, Stop, NeverEarly
  <2>2. ASSUME NEW p \in Phases, Fires(p), currentSlot' = currentSlot
        PROVE  NeverEarly'
    <3>1. /\ genesis \in Int /\ now \in Int /\ currentSlot \in Nat
          /\ BaseDelta \in Nat /\ Epsilon \in Nat /\ ProposeWindow \in Nat
      BY DEF TypeOK
    <3>2. effectiveDelta \in Int /\ effectiveDelta >= BaseDelta
      BY StretchAtLeastSlot DEF TypeOK
    <3>3. Start(genesis, currentSlot) \in Int
      BY <3>1 DEF Start
    <3>4. /\ enteredAt' = now /\ genesis' = genesis /\ now >= Due
          /\ currentPhase = p /\ currentPhase' = NextPhase[p]
      BY <2>2 DEF Fires
    <3>5. Freeze(genesis, currentSlot, BaseDelta) <= Freeze(genesis, currentSlot, effectiveDelta)
      BY <3>1, <3>2, <3>3 DEF Freeze
    <3>6. SyncEnd(genesis, currentSlot, BaseDelta) <= SyncEnd(genesis, currentSlot, effectiveDelta)
      BY <3>1, <3>2, <3>3 DEF SyncEnd
    <3>7. ProposeEnd(genesis, currentSlot, BaseDelta) <= ProposeEnd(genesis, currentSlot, effectiveDelta)
      BY <3>1, <3>2, <3>3 DEF ProposeEnd, SyncEnd
    <3>8. /\ Freeze(genesis, currentSlot, BaseDelta) \in Int
          /\ Freeze(genesis, currentSlot, effectiveDelta) \in Int
          /\ SyncEnd(genesis, currentSlot, BaseDelta) \in Int
          /\ SyncEnd(genesis, currentSlot, effectiveDelta) \in Int
          /\ ProposeEnd(genesis, currentSlot, BaseDelta) \in Int
          /\ ProposeEnd(genesis, currentSlot, effectiveDelta) \in Int
      BY <3>1, <3>2, <3>3 DEF ProposeEnd, SyncEnd, Freeze
    <3>9. CASE p \in {"COLLECT", "FREEZE"}
      <4>1. now >= Freeze(genesis, currentSlot, effectiveDelta)
        BY <3>4, <3>9 DEF Due, LeaveTime
      <4>2. currentPhase' \in {"FREEZE", "SYNC"}
        BY <3>4, <3>9 DEF NextPhase
      <4> QED
        BY <2>2, <3>1, <3>4, <3>5, <3>8, <4>1, <4>2 DEF NeverEarly
    <3>10. CASE p = "SYNC"
      <4>1. now >= SyncEnd(genesis, currentSlot, effectiveDelta)
        BY <3>4, <3>10 DEF Due, LeaveTime
      <4>2. currentPhase' = "PROPOSE"
        BY <3>4, <3>10 DEF NextPhase
      <4> QED
        BY <2>2, <3>1, <3>4, <3>6, <3>8, <4>1, <4>2 DEF NeverEarly
    <3>11. CASE p = "PROPOSE"
      <4>1. now >= ProposeEnd(genesis, currentSlot, effectiveDelta)
        BY <3>4, <3>11 DEF Due, LeaveTime
      <4>2. currentPhase' = "FINALIZE"
        BY <3>4, <3>11 DEF NextPhase
      <4> QED
        BY <2>2, <3>1, <3>4, <3>7, <3>8, <4>1, <4>2 DEF NeverEarly
    <3>12. CASE p = "FINALIZE"
      BY <3>4, <3>12 DEF NextPhase, NeverEarly
    <3> QED
      BY <3>9, <3>10, <3>11, <3>12 DEF Phases
  <2>3. CASE ToFreeze \/ ToSync \/ ToPropose \/ FinalizeWon \/ FinalizeSkipped
    BY <2>2, <2>3 DEF ToFreeze, ToSync, ToPropose, FinalizeWon, FinalizeSkipped, Phases
  <2>4. CASE ToCollect
    BY <2>4 DEF ToCollect, Fires, NextPhase, NeverEarly
  <2>5. CASE Tick \/ Horizon \/ UNCHANGED vars
    BY <2>5 DEF Tick, Horizon, vars, NeverEarly
  <2> QED
    BY <2>1, <2>3, <2>4, <2>5 DEF Next
<1> QED
  BY <1>1, <1>2, TypeCorrect, PTL DEF Spec

-------------------------------------------------------------------------------
\* The latest a slot is worked on: the longest stretch, the two windows, and one
\* late timer.  Targets are absolute, so that lateness does not add up.
Latest(s) == Start(genesis, s) + 4 * BaseDelta + ProposeWindow + FinalizeWindow + MaxLag

InSlotTime == stage = "running" => now <= Latest(currentSlot)

\* Every target of a slot is before that, but for the lag.
LEMMA DueBeforeLatest ==
  ASSUME TypeOK
  PROVE  /\ Due \in Int /\ Due + MaxLag <= Latest(currentSlot)
         /\ Latest(currentSlot) \in Int
         /\ Latest(currentSlot) <= Latest(currentSlot + 1)
<1>1. /\ genesis \in Int /\ currentSlot \in Nat /\ MaxLag \in Nat
      /\ BaseDelta \in Nat /\ Epsilon \in Nat /\ ProposeWindow \in Nat /\ FinalizeWindow \in Nat
  BY SlotManagerAssumption, TimingAssumption DEF TypeOK
<1>2. effectiveDelta \in Int /\ effectiveDelta <= 4 * BaseDelta
  BY <1>1 DEF TypeOK, EffectiveSlotDuration
<1>3. /\ Start(genesis, currentSlot) \in Int /\ Start(genesis, currentSlot + 1) \in Int
      /\ Start(genesis, currentSlot) <= Start(genesis, currentSlot + 1)
  BY <1>1, TimesMonotonic DEF Start
<1>4. /\ Due \in Int
      /\ Due <= Start(genesis, currentSlot) + effectiveDelta + ProposeWindow + FinalizeWindow
  <2>1. currentPhase \in Phases
    BY DEF TypeOK
  <2> QED
    BY <1>1, <1>2, <1>3, <2>1
    DEF Due, LeaveTime, Freeze, SyncEnd, ProposeEnd, FinalizeEnd, Phases
<1> QED
  BY <1>1, <1>2, <1>3, <1>4 DEF Latest

\* A clock within Latest(s) is at most that many slots ahead of s.
LEMMA LatestInSlots ==
  ASSUME NEW s \in Nat, genesis \in Int, now \in Int, now <= Latest(s)
  PROVE  WallSlot(genesis, now) - s <= 4 + (ProposeWindow + FinalizeWindow + MaxLag) \div BaseDelta
<1> DEFINE x == ProposeWindow + FinalizeWindow + MaxLag
           d == x \div BaseDelta
           w == WallSlot(genesis, now)
<1>1. BaseDelta \in Nat \ {0} /\ x \in Nat /\ w \in Nat
  <2>1. w \in Nat
    BY WallSlotBrackets
  <2>2. BaseDelta \in Nat \ {0} /\ x \in Nat
    BY SlotManagerAssumption, TimingAssumption
  <2> QED
    BY <2>1, <2>2
<1>2. d \in Nat /\ x < (d + 1) * BaseDelta
  <2>1. WallSlot(0, x) = d
    BY <1>1 DEF WallSlot
  <2>2. d \in Nat /\ x < Start(0, d + 1)
    BY <1>1, <2>1, WallSlotBrackets
  <2> HIDE DEF d, x
  <2>3. (d + 1) * BaseDelta \in Int
    BY <1>1, <2>2
  <2> QED
    BY <2>2, <2>3 DEF Start
<1>3. SUFFICES ASSUME w >= s + 5 + d PROVE FALSE
  <2>1. SUFFICES w - s <= 4 + d
    OBVIOUS
  <2> HIDE DEF d, w
  <2> QED
    BY <1>1, <1>2
<1>4. now >= Start(genesis, w)
  <2>1. now >= genesis
    BY <1>1, <1>2, <1>3 DEF WallSlot
  <2> QED
    BY <2>1, WallSlotBrackets
<1> HIDE DEF d, w
<1>5. (s + 5 + d) * BaseDelta <= w * BaseDelta
  <2>1. s + 5 + d \in Int /\ w \in Int
    BY <1>1, <1>2
  <2> QED
    BY <1>3, <2>1, TimesMonotonic
<1>6. (s + 5 + d) * BaseDelta = s * BaseDelta + 4 * BaseDelta + (d + 1) * BaseDelta
  BY <1>1, <1>2, SMTT(30)
<1>7. /\ s * BaseDelta \in Int /\ (d + 1) * BaseDelta \in Int /\ w * BaseDelta \in Int
      /\ 4 * BaseDelta \in Int
  BY <1>1, <1>2
<1>8. now <= genesis + s * BaseDelta + 4 * BaseDelta + x
  <2>1. ProposeWindow \in Int /\ FinalizeWindow \in Int /\ MaxLag \in Int
    BY SlotManagerAssumption, TimingAssumption
  <2> QED
    BY <1>7, <2>1 DEF Latest, Start
<1> HIDE DEF x
<1> QED
  BY <1>1, <1>2, <1>4, <1>5, <1>6, <1>7, <1>8 DEF Start

\* However many slots in a row are skipped and stretched, a node never trails
\* the wall clock by more than the longest stretch and what a late timer adds.
THEOREM BacklogCorrect == Spec => []BacklogBounded
<1> USE SlotManagerAssumption, TimingAssumption
<1>1. Init => InSlotTime
  BY DEF Init, InSlotTime
<1>2. TypeOK /\ TypeOK' /\ InSlotTime /\ [Next]_vars => InSlotTime'
  <2> SUFFICES ASSUME TypeOK, TypeOK', InSlotTime, [Next]_vars PROVE InSlotTime'
    OBVIOUS
  <2>1. CASE StartTimer
    <3>1. PICK w : w = WallSlot(genesis, now)
      OBVIOUS
    <3>2. /\ genesis \in Int /\ now \in Int /\ w \in Nat
          /\ now < genesis \/ now < Start(genesis, w + 1)
      BY <3>1, WallSlotBrackets DEF TypeOK
    <3>3. w * BaseDelta \in Int /\ 0 <= w * BaseDelta
          /\ (w + 1) * BaseDelta = w * BaseDelta + BaseDelta
      BY <3>2, SMTT(30)
    <3>4. now <= Latest(w)
      BY <3>2, <3>3 DEF Latest, Start
    <3> QED
      BY <2>1, <3>1, <3>4 DEF StartTimer, InSlotTime, Latest
  <2>2. CASE ToCollect
    <3>1. stage = "running" /\ now <= Latest(currentSlot)
      BY <2>2 DEF ToCollect, Fires, InSlotTime
    <3>2. Latest(currentSlot + 1) \in Int
      BY DEF Latest, Start, TypeOK
    <3>3. now <= Latest(currentSlot + 1)
      BY <3>1, <3>2, DueBeforeLatest DEF TypeOK
    <3> QED
      BY <2>2, <3>3 DEF ToCollect, Fires, InSlotTime, Latest
  <2>3. CASE Tick
    <3>1. now' = now + 1 /\ (stage = "running" => now < Due + MaxLag)
      BY <2>3 DEF Tick
    <3>2. stage = "running" => now + 1 <= Latest(currentSlot)
      BY <3>1, DueBeforeLatest DEF TypeOK
    <3> QED
      BY <2>3, <3>1, <3>2 DEF Tick, InSlotTime, Latest
  <2>4. CASE \/ Boot \/ Stop \/ ToFreeze \/ ToSync \/ ToPropose
             \/ FinalizeWon \/ FinalizeSkipped \/ Horizon \/ UNCHANGED vars
    BY <2>4 DEF Boot, Stop, ToFreeze, ToSync, ToPropose, FinalizeWon, FinalizeSkipped,
                Fires, Horizon, vars, InSlotTime, Latest
  <2> QED
    BY <2>1, <2>2, <2>3, <2>4 DEF Next
<1>3. TypeOK /\ InSlotTime => BacklogBounded
  BY LatestInSlots DEF TypeOK, InSlotTime, BacklogBounded
<1> QED
  BY <1>1, <1>2, <1>3, TypeCorrect, PTL DEF Spec

-------------------------------------------------------------------------------
\* SlotManager implements SlotCycle: initial states map to initial states, and
\* every step to a step of the cycle or to one that leaves it alone.

\* What the mapping needs beyond types: the stretch is the one the skip counter
\* asks for, and before the start there was nothing to skip.
StretchFollowsSkips ==
  /\ effectiveDelta = EffectiveSlotDuration(consecutiveSkips)
  /\ stage \in {"new", "booted"} => consecutiveSkips = 0 /\ currentPhase = "COLLECT"

\* The three stretches, and how one more skip leads from one to the next.
LEMMA StretchDoubles ==
  ASSUME NEW k \in Nat
  PROVE  /\ EffectiveSlotDuration(0) = BaseDelta
         /\ EffectiveSlotDuration(k + 1) =
              IF EffectiveSlotDuration(k) = 4 * BaseDelta
              THEN EffectiveSlotDuration(k) ELSE 2 * EffectiveSlotDuration(k)
BY TimingAssumption DEF EffectiveSlotDuration

\* The times at which phases are left, counted from the start of the slot.
LEMMA DueFromSlotStart ==
  ASSUME TypeOK
  PROVE  /\ now \in Int /\ Start(genesis, currentSlot) \in Int
         /\ Start(0, 0) = 0
         /\ LeaveTime(currentPhase, 0, 0, effectiveDelta) \in Int
         /\ Due = Start(genesis, currentSlot) + LeaveTime(currentPhase, 0, 0, effectiveDelta)
<1>1. /\ now \in Int /\ genesis \in Int /\ currentSlot \in Nat /\ effectiveDelta \in Int
      /\ currentPhase \in Phases
  BY StretchAtLeastSlot DEF TypeOK
<1>2. /\ BaseDelta \in Int /\ Epsilon \in Int
      /\ ProposeWindow \in Int /\ FinalizeWindow \in Int
  BY TimingAssumption
<1>3. currentSlot * BaseDelta \in Int /\ 0 * BaseDelta = 0
  BY <1>1, <1>2
<1> QED
  BY <1>1, <1>2, <1>3
     DEF Due, LeaveTime, Freeze, SyncEnd, ProposeEnd, FinalizeEnd, Start, Phases

\* SlotCycle has the same timetable.
LEMMA SameTimetable ==
  /\ \A p, g, s, eff : Cycle!LeaveTime(p, g, s, eff) = LeaveTime(p, g, s, eff)
  /\ Cycle!NextPhase = NextPhase
BY DEF Cycle!LeaveTime, Cycle!Freeze, Cycle!SyncEnd, Cycle!ProposeEnd, Cycle!FinalizeEnd,
       Cycle!Start, LeaveTime, Freeze, SyncEnd, ProposeEnd, FinalizeEnd, Start,
       Cycle!NextPhase, NextPhase

\* A slot starts one unstretched slot after the one before.
LEMMA NextSlotStart ==
  ASSUME TypeOK
  PROVE  Start(genesis, currentSlot + 1) = Start(genesis, currentSlot) + BaseDelta
<1>1. genesis \in Int /\ currentSlot \in Int /\ BaseDelta \in Int
  BY TimingAssumption DEF TypeOK
<1>2. (currentSlot + 1) * BaseDelta = currentSlot * BaseDelta + BaseDelta
  BY <1>1, SMTT(30)
<1> QED
  BY <1>1, <1>2 DEF Start

\* Wherever slotManager.start() finds the wall clock, less than a slot has passed
\* of the slot it starts with.
LEMMA StartsWithinSlot ==
  ASSUME NEW g \in Int, NEW t \in Int
  PROVE  t - Start(g, WallSlot(g, t)) \in {e \in Int : e < BaseDelta}
<1> DEFINE w == WallSlot(g, t)
<1>1. w \in Nat /\ BaseDelta \in Nat \ {0} /\ w * BaseDelta \in Int
  BY WallSlotBrackets, TimingAssumption
<1>2. CASE t < g
  <2>1. w = 0
    BY <1>2 DEF WallSlot
  <2> QED
    BY <1>1, <1>2, <2>1 DEF Start
<1>3. CASE t >= g
  <2>1. t < Start(g, w + 1)
    BY <1>3, WallSlotBrackets
  <2>2. (w + 1) * BaseDelta = w * BaseDelta + BaseDelta
    BY <1>1, SMTT(30)
  <2> QED
    BY <1>1, <2>1, <2>2 DEF Start
<1> QED
  BY <1>2, <1>3

\* What every step of the mapping may use.
LEMMA CycleStep ==
  ASSUME TypeOK, StretchFollowsSkips, [Next]_vars
  PROVE  StretchFollowsSkips' /\ [Cycle!Next]_(Cycle!vars)
<1> USE DEF TypeOK, StretchFollowsSkips
<1> DEFINE e == now - Start(genesis, currentSlot)
<1>1. /\ now \in Int /\ Start(genesis, currentSlot) \in Int /\ e \in Int
      /\ LeaveTime(currentPhase, 0, 0, effectiveDelta) \in Int
      /\ Due = Start(genesis, currentSlot) + LeaveTime(currentPhase, 0, 0, effectiveDelta)
  BY DueFromSlotStart
<1>2. now >= Due <=> e >= LeaveTime(currentPhase, 0, 0, effectiveDelta)
  BY <1>1
<1>3. CASE Boot
  BY <1>3 DEF Boot, Cycle!vars
<1>4. CASE StartTimer
  <2>1. now - Start(genesis, WallSlot(genesis, now)) \in {x \in Int : x < BaseDelta}
    BY StartsWithinSlot
  <2>2. StretchFollowsSkips'
    BY <1>4, StretchDoubles DEF StartTimer
  <2>3. Cycle!StartTimer
    BY <1>4, <2>1, StretchDoubles DEF StartTimer, Cycle!StartTimer
  <2> QED
    BY <2>2, <2>3 DEF Cycle!Next
<1>5. CASE Stop
  <2>1. Cycle!Stop
    BY <1>5 DEF Stop, Cycle!Stop
  <2> QED
    BY <1>5, <2>1 DEF Stop, Cycle!Next
<1>6. ASSUME NEW p \in Phases, Fires(p) PROVE Cycle!Fires(p)
  BY <1>2, <1>6, SameTimetable DEF Fires, Cycle!Fires, Cycle!IsDue, Cycle!Due
<1>7. CASE ToFreeze \/ ToSync \/ ToPropose
  <2>1. StretchFollowsSkips'
    BY <1>7 DEF ToFreeze, ToSync, ToPropose, Fires
  <2>2. Cycle!ToFreeze \/ Cycle!ToSync \/ Cycle!ToPropose
    BY <1>6, <1>7 DEF ToFreeze, ToSync, ToPropose, Fires, Phases,
                      Cycle!ToFreeze, Cycle!ToSync, Cycle!ToPropose
  <2> QED
    BY <2>1, <2>2 DEF Cycle!Next, Cycle!Transition
<1>8. CASE FinalizeWon
  <2>1. StretchFollowsSkips'
    BY <1>8, StretchDoubles DEF FinalizeWon, Fires
  <2>2. Cycle!FinalizeWon
    BY <1>6, <1>8 DEF FinalizeWon, Fires, Phases, Cycle!FinalizeWon
  <2> QED
    BY <2>1, <2>2 DEF Cycle!Next, Cycle!Transition, Cycle!Finalize
<1>9. CASE FinalizeSkipped
  <2>1. StretchFollowsSkips'
    BY <1>9 DEF FinalizeSkipped, Fires
  <2>2. Cycle!FinalizeSkipped
    BY <1>6, <1>9, StretchDoubles DEF FinalizeSkipped, Fires, Phases, Cycle!FinalizeSkipped
  <2> QED
    BY <2>1, <2>2 DEF Cycle!Next, Cycle!Transition, Cycle!Finalize
<1>10. CASE ToCollect
  <2>1. StretchFollowsSkips'
    BY <1>10 DEF ToCollect, Fires
  <2>2. now - Start(genesis, currentSlot + 1) = e - BaseDelta
    BY <1>1, NextSlotStart, TimingAssumption
  <2>3. Cycle!ToCollect
    BY <1>6, <1>10, <2>2 DEF ToCollect, Fires, Phases, Cycle!ToCollect
  <2> QED
    BY <2>1, <2>3 DEF Cycle!Next, Cycle!Transition
<1>11. CASE Tick
  <2>1. StretchFollowsSkips'
    BY <1>11 DEF Tick
  <2>2. CASE stage = "running"
    <3>1. e < LeaveTime(currentPhase, 0, 0, effectiveDelta) + MaxLag
      BY <1>1, <1>11, <2>2, SlotManagerAssumption DEF Tick
    <3>2. (now + 1) - Start(genesis, currentSlot) = e + 1
      BY <1>1
    <3>3. Cycle!Tick
      BY <1>11, <2>2, <3>1, <3>2, SameTimetable DEF Tick, Cycle!Tick, Cycle!Due
    <3> QED
      BY <2>1, <3>3 DEF Cycle!Next
  <2>3. CASE stage # "running"
    BY <1>11, <2>1, <2>3 DEF Tick, Cycle!vars
  <2> QED
    BY <2>2, <2>3
<1>12. CASE Horizon \/ UNCHANGED vars
  BY <1>12 DEF Horizon, vars, Cycle!vars
<1> QED
  BY <1>3, <1>4, <1>5, <1>7, <1>8, <1>9, <1>10, <1>11, <1>12 DEF Next

\* SlotManager implements the abstract clockwork: no slot is left out, each is
\* timed from one unstretched slot after the one before, the stretch goes through
\* one, two and four slots, and a stopped node does nothing more.
THEOREM CycleImplemented == Spec => ImplementsCycle
<1>1. Init => StretchFollowsSkips /\ Cycle!Init
  BY StretchDoubles DEF Init, StretchFollowsSkips, Cycle!Init
<1>2. TypeOK /\ StretchFollowsSkips /\ [Next]_vars
        => StretchFollowsSkips' /\ [Cycle!Next]_(Cycle!vars)
  BY CycleStep
<1>3. Spec => []TypeOK
  BY TypeCorrect
<1> QED
  BY <1>1, <1>2, <1>3, PTL DEF Spec, ImplementsCycle, Cycle!Spec
===============================================================================
