----------------------------- MODULE NodeLifeProofs -----------------------------
(* Proofs about NodeLife, for every timeout, poll interval, lag, set of peers, *)
(* slot length and start offset: the types of a process from its launch on,    *)
(* and the bound on how long it waits for its peers.                           *)
EXTENDS NodeLife, TLAPS

-------------------------------------------------------------------------------
\* Every reachable state of a process has its types: in particular the stretch of
\* its slots is one, two or four slots, however many are skipped in a row.
THEOREM LifeTypeCorrect == LifeSpec => []LifeTypeOK
<1> USE StartupAssumption, NodeLifeAssumption, TimingAssumption
<1>1. LifeInit => LifeTypeOK
  <2>1. Init => TypeOK
    BY DEF Init, TypeOK
  <2>2. Cycle!Init => Cycle!TypeOK
    BY DEF Cycle!Init, Cycle!TypeOK, Phases, Cycle!Phases
  <2> QED
    BY <2>1, <2>2 DEF LifeInit, LifeTypeOK
<1>2. LifeTypeOK /\ [LifeNext]_lifeVars => LifeTypeOK'
  <2> SUFFICES ASSUME LifeTypeOK, [LifeNext]_lifeVars PROVE LifeTypeOK'
    OBVIOUS
  <2>1. TypeOK /\ Cycle!TypeOK
    BY DEF LifeTypeOK
  <2>2. UNCHANGED vars => TypeOK'
    BY <2>1 DEF vars, TypeOK
  <2>3. UNCHANGED cycleVars => Cycle!TypeOK'
    BY <2>1 DEF cycleVars, Cycle!TypeOK
  <2>4. CASE Launch
    <3>1. TypeOK'
      BY <2>1, <2>4 DEF Launch, StartConsensus, TypeOK
    <3>2. Cycle!TypeOK'
      BY <2>1, <2>4 DEF Launch, Cycle!StartTimer, Cycle!TypeOK
    <3> QED
      BY <3>1, <3>2 DEF LifeTypeOK
  <2>5. CASE Startups
    <3>1. Networking \/ NetworkFails \/ Interrupted => TypeOK'
      <4>1. ASSUME NEW p \in Bootstrap, DialBootstrap(p) PROVE TypeOK'
        BY <2>1, <4>1 DEF DialBootstrap, TypeOK
      <4> QED
        BY <2>1, <4>1 DEF Networking, BeginWait, NetworkFails, Interrupted, TypeOK
    <3>2. Poll => TypeOK'
      BY <2>1 DEF Poll, TypeOK
    <3>3. ASSUME NEW p \in Peers, Connect(p) \/ Disconnect(p) PROVE TypeOK'
      BY <2>1, <3>3 DEF Connect, Disconnect, TypeOK
    <3>4. TypeOK'
      BY <2>5, <3>1, <3>2, <3>3 DEF Startups
    <3> QED
      BY <2>3, <2>5, <3>4 DEF Startups, LifeTypeOK
  <2>6. CASE Slots
    <3> USE <2>1 DEF Cycle!TypeOK
    <3>1. Cycle!NextPhase = NextPhase /\ Cycle!Phases = Phases
      BY DEF Cycle!NextPhase, NextPhase, Cycle!Phases, Phases
    <3>2. \A p \in Phases : NextPhase[p] \in Phases
      BY DEF NextPhase, Phases
    <3>3. Cycle!Transition => Cycle!TypeOK'
      BY <3>1, <3>2 DEF Cycle!Transition, Cycle!ToFreeze, Cycle!ToSync, Cycle!ToPropose,
           Cycle!Finalize, Cycle!FinalizeWon, Cycle!FinalizeSkipped, Cycle!ToCollect,
           Cycle!Fires
    <3>4. Cycle!Stop => Cycle!TypeOK'
      BY DEF Cycle!Stop
    <3> QED
      BY <2>2, <2>6, <3>3, <3>4 DEF Slots, LifeTypeOK
  <2>7. CASE TimePasses
    <3>1. Tick => TypeOK'
      BY <2>1 DEF Tick, TypeOK
    <3>2. Cycle!Tick => Cycle!TypeOK'
      BY <2>1 DEF Cycle!Tick, Cycle!TypeOK
    <3> QED
      BY <2>2, <2>3, <2>7, <3>1, <3>2 DEF TimePasses, LifeTypeOK
  <2>8. CASE Over \/ UNCHANGED lifeVars
    BY <2>2, <2>3, <2>8 DEF Over, lifeVars, LifeTypeOK
  <2> QED
    BY <2>4, <2>5, <2>6, <2>7, <2>8 DEF LifeNext
<1> QED
  BY <1>1, <1>2, PTL DEF LifeSpec

-------------------------------------------------------------------------------
\* What each wait of main() ends by.  The loop goes on only while its timeout has
\* not passed, so its last poll is set less than MaxWait + PollInterval after the
\* start of the wait; that poll is late by PollLag at most, and so is the end of
\* the settling time it sets.
WaitsEnd ==
  /\ step = "networking" => waited = 0 /\ wakeAt = 0
  /\ step = "waiting"    => /\ wakeAt <= MaxWait - 1 + PollInterval
                            /\ waited <= wakeAt + PollLag
  /\ step = "settling"   => /\ wakeAt <= MaxWait - 1 + PollInterval + PollLag + Settle
                            /\ waited <= wakeAt + PollLag
  /\ StartIsTimely

\* The process starts its slot manager, or ends, within the timeout of the wait,
\* one poll and the settling time, however its peers come and go in between.
THEOREM StartTimelyCorrect == LifeSpec => []StartIsTimely
<1> USE StartupAssumption, NodeLifeAssumption
<1>1. LifeInit => WaitsEnd
  BY DEF LifeInit, Init, WaitsEnd, StartIsTimely
<1>2. TypeOK /\ WaitsEnd /\ [LifeNext]_lifeVars => WaitsEnd'
  <2> SUFFICES ASSUME TypeOK, WaitsEnd, [LifeNext]_lifeVars PROVE WaitsEnd'
    OBVIOUS
  <2> USE DEF WaitsEnd, StartIsTimely
  <2>1. UNCHANGED vars => WaitsEnd'
    BY DEF vars
  <2>2. CASE Launch
    BY <2>2 DEF Launch, StartConsensus
  <2>3. CASE Startups
    <3>1. CASE Networking
      BY <3>1 DEF Networking, BeginWait, DialBootstrap
    <3>2. CASE NetworkFails \/ Interrupted
      BY <3>2 DEF NetworkFails, Interrupted
    <3>3. CASE Poll
      <4>1. CASE KeepWaiting
        BY <3>3, <4>1 DEF Poll, KeepWaiting, TypeOK
      <4>2. CASE ~KeepWaiting
        BY <3>3, <4>2 DEF Poll, TypeOK
      <4> QED
        BY <4>1, <4>2
    <3>4. ASSUME NEW p \in Peers, Connect(p) \/ Disconnect(p) PROVE WaitsEnd'
      BY <3>4 DEF Connect, Disconnect
    <3> QED
      BY <2>3, <3>1, <3>2, <3>3, <3>4 DEF Startups
  <2>4. CASE TimePasses
    <3>1. CASE Tick
      BY <3>1 DEF Tick, TypeOK
    <3> QED
      BY <2>1, <2>4, <3>1 DEF TimePasses
  <2>5. CASE Slots \/ Over \/ UNCHANGED lifeVars
    BY <2>1, <2>5 DEF Slots, Over, lifeVars
  <2> QED
    BY <2>2, <2>3, <2>4, <2>5 DEF LifeNext
<1>3. LifeTypeOK => TypeOK
  BY DEF LifeTypeOK
<1>4. WaitsEnd => StartIsTimely
  BY DEF WaitsEnd
<1> QED
  BY <1>1, <1>2, <1>3, <1>4, LifeTypeCorrect, PTL DEF LifeSpec
================================================================================
