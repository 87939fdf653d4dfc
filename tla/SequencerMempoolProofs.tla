------------------------- MODULE SequencerMempoolProofs -------------------------
(* Proofs about the mempools of Sequencer: what becomes of a transaction from    *)
(* its arrival at a node to its inclusion.  They hold under any network and any  *)
(* lateness of timers; what they ask of the emergency resync is stated with them. *)
EXTENDS SequencerProofs

-------------------------------------------------------------------------------
\* Arrivals.

\* No node is ahead of the wall clock: it enters a slot after its start, and
\* settles it after its end.
OnTime(n) ==
  running[n] =>
    /\ slot[n] = 0 \/ now >= Start(Genesis, slot[n])
    /\ phase[n] \in {"PROPOSE", "FINALIZE"} => now >= Start(Genesis, slot[n] + 1)

AllOnTime == \A n \in Nodes : OnTime(n)

\* Leaving SYNC or FINALIZE takes a clock past the end of the slot.
LEMMA SettledAfterEnd ==
  ASSUME TypeOK, NEW n \in Nodes, now >= Due(n), phase[n] \in {"SYNC", "FINALIZE"}
  PROVE  now >= Start(Genesis, slot[n] + 1)
<1>1. /\ Genesis \in Int /\ now \in Int /\ slot[n] \in Nat /\ BaseDelta \in Nat
      /\ ProposeWindow \in Nat /\ FinalizeWindow \in Nat /\ Epsilon \in Nat
  BY SequencerAssumption, TimingAssumption DEF TypeOK
<1>2. effectiveDelta[n] \in Int /\ effectiveDelta[n] >= BaseDelta
  BY StretchAtLeastSlot DEF TypeOK
<1>3. Start(Genesis, slot[n]) \in Int
  BY <1>1 DEF Start
<1>4. Start(Genesis, slot[n] + 1) = Start(Genesis, slot[n]) + BaseDelta
  <2>1. (slot[n] + 1) * BaseDelta = slot[n] * BaseDelta + BaseDelta
    BY <1>1, SMTT(30)
  <2>2. slot[n] * BaseDelta \in Int
    BY <1>1
  <2> QED
    BY <1>1, <2>1, <2>2 DEF Start
<1>5. Due(n) >= Start(Genesis, slot[n]) + effectiveDelta[n] /\ Due(n) \in Int
  BY <1>1, <1>2, <1>3 DEF Due, LeaveTime, SyncEnd, ProposeEnd, FinalizeEnd
<1> QED
  BY <1>1, <1>2, <1>3, <1>4, <1>5

\* No step takes a node ahead of the wall clock.
LEMMA AllOnTimeInductive ==
  ASSUME TypeOK, TypeOK', AllOnTime, [Next]_vars
  PROVE  AllOnTime'
<1> SUFFICES ASSUME NEW m \in Nodes PROVE OnTime(m)'
  BY DEF AllOnTime
<1>1. OnTime(m)
  BY DEF AllOnTime
<1>2. /\ now \in Nat /\ now' \in Nat /\ Genesis \in Int /\ BaseDelta \in Nat
      /\ slot[m] \in Nat /\ slot'[m] \in Nat
  BY SequencerAssumption, TimingAssumption DEF TypeOK
<1>3. \A s \in Nat : Start(Genesis, s) \in Int
  BY <1>2 DEF Start
<1>4. ASSUME now' >= now, running'[m] = running[m], phase'[m] = phase[m], slot'[m] = slot[m]
      PROVE  OnTime(m)'
  BY <1>1, <1>2, <1>3, <1>4 DEF OnTime
<1>5. CASE /\ UNCHANGED <<running, slot, phase, skips, history, stateRoot>>
           /\ now' \in {now, now + 1}
  BY <1>2, <1>4, <1>5
<1>6. ASSUME NEW n \in Nodes, n # m,
             \/ StartSlotManager(n) \/ Proceeds(n) \/ ToCollect(n)
             \/ \E b : Finalises(n, b)
      PROVE  OnTime(m)'
  <2>1. /\ now' = now
        /\ running'[m] = running[m] /\ phase'[m] = phase[m] /\ slot'[m] = slot[m]
    BY <1>6 DEF StartSlotManager, Proceeds, ToCollect, Leaves, Finalises, TypeOK
  <2> QED
    BY <1>2, <1>4, <2>1
<1>7. CASE StartSlotManager(m)
  <2>1. WallSlot(Genesis, now) = 0 \/ now >= Start(Genesis, WallSlot(Genesis, now))
    BY <1>2, WallSlotBrackets DEF WallSlot
  <2> QED
    BY <1>7, <2>1 DEF StartSlotManager, OnTime, TypeOK
<1>8. CASE Proceeds(m)
  <2>1. CASE phase[m] = "SYNC"
    BY <1>1, <1>8, <2>1, SettledAfterEnd DEF Proceeds, OnTime
  <2>2. CASE phase[m] # "SYNC"
    <3>1. phase'[m] \notin {"PROPOSE", "FINALIZE"}
      BY <1>8, <2>2 DEF Proceeds, NextPhase, TypeOK
    <3> QED
      BY <1>1, <1>8, <3>1 DEF Proceeds, OnTime
  <2> QED
    BY <2>1, <2>2
<1>9. CASE ToCollect(m)
  <2>1. now >= Start(Genesis, slot[m] + 1)
    BY <1>9, SettledAfterEnd DEF ToCollect, Leaves
  <2>2. phase'[m] = "COLLECT" /\ slot'[m] = slot[m] + 1 /\ now' = now
    BY <1>9 DEF ToCollect, Leaves, NextPhase, TypeOK
  <2> QED
    BY <2>1, <2>2 DEF OnTime
<1>10. ASSUME NEW b, Finalises(m, b) PROVE OnTime(m)'
  BY <1>1, <1>10 DEF Finalises, OnTime
<1> QED
  BY <1>5, <1>6, <1>7, <1>8, <1>9, <1>10, BookSteps

\* So a transaction that arrives now is filed under a slot this node has open,
\* and that it has not begun to settle.
LEMMA ArrivesInOpenSlot ==
  ASSUME TypeOK, NEW n \in Nodes, running[n], OnTime(n)
  PROVE  LET s == AssignTransactionToSlot(Genesis, now)
         IN /\ s \in Nat /\ s >= slot[n]
            /\ phase[n] \in {"PROPOSE", "FINALIZE"} => s >= slot[n] + 1
<1> DEFINE w == WallSlot(Genesis, now)
<1>1. Genesis \in Int /\ now \in Int /\ slot[n] \in Nat
  BY SequencerAssumption DEF TypeOK
<1>2. w \in Nat /\ AssignTransactionToSlot(Genesis, now) \in {w, w + 1}
  BY <1>1, WallSlotBrackets, AssignedNow
<1>3. w >= slot[n]
  BY <1>1, <1>2, WallSlotReaches DEF OnTime
<1>4. phase[n] \in {"PROPOSE", "FINALIZE"} => w >= slot[n] + 1
  BY <1>1, WallSlotReaches DEF OnTime
<1> HIDE DEF w
<1> QED
  BY <1>1, <1>2, <1>3, <1>4

-------------------------------------------------------------------------------
\* Digests.

\* The sender of d has been through the SYNC of its slot.
Sent(d) ==
  /\ running[d.nodeId]
  /\ \/ d.slot < slot[d.nodeId]
     \/ d.slot = slot[d.nodeId] /\ phase[d.nodeId] \in {"SYNC", "PROPOSE", "FINALIZE"}

AllDigests == (UNION {digests[n] : n \in Nodes}) \cup {m.body : m \in digestNet}

\* A sender has one digest per slot, wherever it is held.
UniqueDigests ==
  /\ \A d, e \in AllDigests : d.slot = e.slot /\ d.nodeId = e.nodeId => d = e
  /\ \A n \in Nodes : IsFiniteSet(digests[n])

\* And it has been through SYNC of that slot: nobody enters it twice.
OneDigest == (\A d \in AllDigests : Sent(d)) /\ UniqueDigests

\* A digest, wherever it is, has the type of a digest.
LEMMA DigestsTyped == ASSUME TypeOK, NEW d \in AllDigests PROVE d \in Digest
<1>1. CASE \E n \in Nodes : d \in digests[n]
  BY <1>1 DEF TypeOK
<1>2. CASE \E m \in digestNet : d = m.body
  <2>1. PICK m \in digestNet : d = m.body
    BY <1>2
  <2>2. m \in [body : Digest, from : Nodes, to : Nodes, at : Nat]
    BY DEF TypeOK, Messages
  <2> QED
    BY <2>1, <2>2
<1> QED
  BY <1>1, <1>2 DEF AllDigests

\* A node does not go back to a slot it has been through.
LEMMA SentStable ==
  ASSUME TypeOK, TypeOK', [Next]_vars, NEW d \in Digest, Sent(d)
  PROVE  Sent(d)'
<1> DEFINE m == d.nodeId
<1>1. m \in Nodes /\ d.slot \in Nat /\ slot[m] \in Nat
  BY DEF Digest, TypeOK
<1>2. CASE /\ UNCHANGED <<running, slot, phase, skips, history, stateRoot>>
           /\ now' \in {now, now + 1}
  BY <1>2 DEF Sent
<1>3. ASSUME NEW n \in Nodes, StartSlotManager(n) PROVE Sent(d)'
  BY <1>1, <1>3 DEF StartSlotManager, Sent, TypeOK
<1>4. ASSUME NEW n \in Nodes, Proceeds(n) PROVE Sent(d)'
  BY <1>1, <1>4 DEF Proceeds, Sent, NextPhase, TypeOK
<1>5. ASSUME NEW n \in Nodes, ToCollect(n) PROVE Sent(d)'
  BY <1>1, <1>5 DEF ToCollect, Leaves, Sent, NextPhase, TypeOK
<1>6. ASSUME NEW n \in Nodes, NEW b, Finalises(n, b) PROVE Sent(d)'
  BY <1>1, <1>6 DEF Finalises, Sent, TypeOK
<1> QED
  BY <1>2, <1>3, <1>4, <1>5, <1>6, BookSteps

\* A digest that replaces none of its sender's is added.
LEMMA ReceiveAdds ==
  ASSUME NEW D, NEW d, \A e \in D : e.slot = d.slot /\ e.nodeId = d.nodeId => e = d
  PROVE  ReceiveDigest(D, d) = D \cup {d}
BY DEF ReceiveDigest

\* Where the digests of the next state come from.
LEMMA DigestSteps ==
  ASSUME TypeOK, UniqueDigests, [Next]_vars
  PROVE  \/ /\ AllDigests' \subseteq AllDigests
            /\ \A n \in Nodes : IsFiniteSet(digests'[n])
         \/ \E n \in Nodes : ToSync(n)
<1> DEFINE Fewer == /\ AllDigests' \subseteq AllDigests
                    /\ \A n \in Nodes : IsFiniteSet(digests'[n])
<1> USE DEF clockVars, nets
<1>1. ASSUME \A n \in Nodes : digests'[n] \subseteq digests[n],
             digestNet' = digestNet
      PROVE  Fewer
  <2>1. AllDigests' \subseteq AllDigests
    BY <1>1 DEF AllDigests
  <2>2. \A n \in Nodes : IsFiniteSet(digests'[n])
    BY <1>1, FS_Subset DEF UniqueDigests
  <2> QED
    BY <2>1, <2>2
<1>2. ASSUME \/ \E n \in Nodes, tx \in Txs : Submit(n, tx)
             \/ \E m \in txNet : OnTx(m)
             \/ \E m \in batchNet : OnBatch(m)
             \/ \E m \in batchNet : OnLateBatch(m)
             \/ \E m \in syncNet : OnMempoolSync(m)
             \/ \E n \in Nodes : \/ StartSlotManager(n) \/ ToFreeze(n) \/ ToPropose(n)
                                 \/ FinalizeEmergency(n) \/ ToCollect(n)
             \/ Tick
             \/ Horizon
             \/ UNCHANGED vars
      PROVE  digests' = digests /\ digestNet' = digestNet
  BY <1>2 DEF Submit, OnTx, OnBatch, OnLateBatch, OnMempoolSync, StartSlotManager, ToFreeze,
              ToPropose, FinalizeEmergency, ToCollect, Tick, Horizon, vars
<1>3. ASSUME NEW n \in Nodes, NEW s, NEW P, Forget(n, s, P), digestNet' = digestNet
      PROVE  Fewer
  <2>1. \A k \in Nodes : digests'[k] \subseteq digests[k]
    BY <1>3 DEF Forget, ClearSlot, TypeOK
  <2> QED
    BY <1>1, <1>3, <2>1
<1>4. ASSUME NEW n \in Nodes, \/ FinalizeWinner(n) \/ FinalizeSkip(n)
                              \/ \E s \in pending[n] : FinishFinalize(n, s)
      PROVE  Fewer
  BY <1>3, <1>4 DEF FinalizeWinner, FinalizeSkip, FinishFinalize
<1>5. ASSUME NEW m \in digestNet, OnDigest(m) PROVE Fewer
  <2>1. m.to \in Nodes /\ m.body \in AllDigests
    <3>1. m.to \in Nodes
      BY DEF TypeOK, Messages
    <3>2. m.body \in AllDigests
      BY DEF AllDigests
    <3> QED
      BY <3>1, <3>2
  <2>2. digests[m.to] \subseteq AllDigests
    BY <2>1 DEF AllDigests
  <2>3. digests' = [digests EXCEPT ![m.to] = @ \cup {m.body}]
    <3>1. ReceiveDigest(digests[m.to], m.body) = digests[m.to] \cup {m.body}
      BY <2>1, <2>2, ReceiveAdds DEF UniqueDigests
    <3> QED
      BY <1>5, <2>1, <3>1 DEF OnDigest, TypeOK
  <2>4. AllDigests' \subseteq AllDigests
    <3>1. digestNet' \subseteq digestNet
      BY <1>5 DEF OnDigest
    <3>2. \A n \in Nodes : digests'[n] \subseteq digests[n] \cup {m.body}
      BY <2>3 DEF TypeOK
    <3> QED
      BY <2>1, <3>1, <3>2 DEF AllDigests
  <2>5. ASSUME NEW n \in Nodes PROVE IsFiniteSet(digests'[n])
    <3>1. digests'[n] = digests[n] \/ digests'[n] = digests[n] \cup {m.body}
      BY <2>3 DEF TypeOK
    <3>2. IsFiniteSet(digests[n])
      BY DEF UniqueDigests
    <3> QED
      BY <3>1, <3>2, FS_AddElement
  <2> QED
    BY <2>4, <2>5
<1>6. ASSUME digests' = digests /\ digestNet' = digestNet PROVE Fewer
  BY <1>1, <1>6
<1> QED
  BY <1>2, <1>4, <1>5, <1>6 DEF Next

\* A node that has not published a digest for its slot does.
LEMMA SyncAdds ==
  ASSUME TypeOK, NEW n \in Nodes, ToSync(n),
         \A e \in AllDigests : ~(e.slot = slot[n] /\ e.nodeId = n)
  PROVE  \E d : /\ d.slot = slot[n] /\ d.nodeId = n
                /\ \A e \in AllDigests : ~(e.slot = d.slot /\ e.nodeId = d.nodeId)
                /\ running[n] /\ phase[n] = "FREEZE"
                /\ phase' = [phase EXCEPT ![n] = "SYNC"]
                /\ running' = running /\ slot' = slot
                /\ digests' = [digests EXCEPT ![n] = @ \cup {d}]
                /\ digestNet' = digestNet \cup Publish(n, d)
<1> DEFINE d == [slot |-> slot[n], nodeId |-> n, hashes |-> Snapshot(pool[n], slot[n])]
<1>1. /\ running[n] /\ phase[n] = "FREEZE"
      /\ phase' = [phase EXCEPT ![n] = "SYNC"]
      /\ running' = running /\ slot' = slot
      /\ digests' = [digests EXCEPT ![n] = ReceiveDigest(@, d)]
      /\ digestNet' = digestNet \cup Publish(n, d)
  BY DEF ToSync, Leaves, NextPhase
<1>2. d.slot = slot[n] /\ d.nodeId = n
  OBVIOUS
<1> HIDE DEF d
<1>3. \A e \in AllDigests : ~(e.slot = d.slot /\ e.nodeId = d.nodeId)
  BY <1>2
<1>4. digests[n] \subseteq AllDigests
  BY DEF AllDigests
<1>5. digests' = [digests EXCEPT ![n] = @ \cup {d}]
  <2>1. ReceiveDigest(digests[n], d) = digests[n] \cup {d}
    BY <1>3, <1>4, ReceiveAdds
  <2> QED
    BY <1>1, <2>1 DEF TypeOK
<1> QED
  BY <1>1, <1>2, <1>3, <1>5

\* A node that enters SYNC has not published a digest for its slot.
LEMMA SyncFresh ==
  ASSUME TypeOK, OneDigest, NEW n \in Nodes, ToSync(n), NEW e \in AllDigests
  PROVE  ~(e.slot = slot[n] /\ e.nodeId = n)
<1> SUFFICES ASSUME e.slot = slot[n], e.nodeId = n PROVE FALSE
  OBVIOUS
<1>1. Sent(e) /\ slot[n] \in Nat
  BY DEF OneDigest, TypeOK
<1> QED
  BY <1>1 DEF Sent, ToSync, Leaves

\* A node publishes one digest for a slot.
LEMMA OneDigestInductive ==
  ASSUME TypeOK, TypeOK', OneDigest, [Next]_vars
  PROVE  OneDigest'
<1>1. CASE /\ AllDigests' \subseteq AllDigests
           /\ \A n \in Nodes : IsFiniteSet(digests'[n])
  <2>1. \A d \in AllDigests' : d \in Digest /\ Sent(d)
    BY <1>1, DigestsTyped DEF OneDigest, UniqueDigests
  <2>2. ASSUME NEW d \in AllDigests' PROVE Sent(d)'
    BY <2>1, SentStable
  <2> QED
    BY <1>1, <2>2 DEF OneDigest, UniqueDigests
<1>2. ASSUME NEW n \in Nodes, ToSync(n) PROVE OneDigest'
  <2>1. PICK d : /\ d.slot = slot[n] /\ d.nodeId = n
                 /\ \A e \in AllDigests : ~(e.slot = d.slot /\ e.nodeId = d.nodeId)
                 /\ running[n] /\ phase' = [phase EXCEPT ![n] = "SYNC"]
                 /\ running' = running /\ slot' = slot
                 /\ digests' = [digests EXCEPT ![n] = @ \cup {d}]
                 /\ digestNet' = digestNet \cup Publish(n, d)
    BY <1>2, SyncAdds, SyncFresh
  <2>6. AllDigests' \subseteq AllDigests \cup {d}
    <3>1. \A k \in Nodes : digests'[k] \subseteq digests[k] \cup {d}
      BY <2>1 DEF TypeOK
    <3>2. \A m \in digestNet' : m \in digestNet \/ m.body = d
      BY <2>1 DEF Publish
    <3>3. SUFFICES ASSUME NEW e \in AllDigests' PROVE e \in AllDigests \/ e = d
      OBVIOUS
    <3>4. CASE \E k \in Nodes : e \in digests'[k]
      BY <3>1, <3>4 DEF AllDigests
    <3>5. CASE \E m \in digestNet' : e = m.body
      BY <3>2, <3>5 DEF AllDigests
    <3> QED
      BY <3>3, <3>4, <3>5 DEF AllDigests
  <2>7. ASSUME NEW e \in AllDigests' PROVE Sent(e)'
    <3>1. CASE e = d
      BY <2>1, <3>1 DEF Sent, TypeOK
    <3>2. CASE e \in AllDigests
      BY <3>2, DigestsTyped, SentStable DEF OneDigest, UniqueDigests
    <3> QED
      BY <2>6, <3>1, <3>2
  <2>8. ASSUME NEW e \in AllDigests', NEW c \in AllDigests',
               e.slot = c.slot, e.nodeId = c.nodeId
        PROVE  e = c
    BY <2>1, <2>6, <2>8 DEF OneDigest, UniqueDigests
  <2>9. ASSUME NEW k \in Nodes PROVE IsFiniteSet(digests'[k])
    <3>1. digests'[k] = digests[k] \/ digests'[k] = digests[k] \cup {d}
      BY <2>1 DEF TypeOK
    <3>2. IsFiniteSet(digests[k])
      BY DEF OneDigest, UniqueDigests
    <3> QED
      BY <3>1, <3>2, FS_AddElement
  <2> QED
    BY <2>7, <2>8, <2>9 DEF OneDigest, UniqueDigests
<1> QED
  BY <1>1, <1>2, DigestSteps DEF OneDigest

\* There is no digest to begin with.
LEMMA OneDigestInit == ASSUME Init PROVE OneDigest
<1>1. AllDigests = {}
  BY DEF Init, AllDigests
<1>2. \A n \in Nodes : digests[n] = {}
  BY DEF Init
<1> QED
  BY <1>1, <1>2, FS_EmptySet DEF OneDigest, UniqueDigests

\* More digests of a slot never take a transaction out of its common subset.
LEMMA CommonGrows ==
  ASSUME NEW D, NEW E, NEW s, NEW k \in Nat, IsFiniteSet(E),
         DigestsOf(D, s) \subseteq DigestsOf(E, s)
  PROVE  CommonSubset(D, s, k) \subseteq CommonSubset(E, s, k)
<1>1. SUFFICES ASSUME NEW h \in CommonSubset(D, s, k) PROVE h \in CommonSubset(E, s, k)
  OBVIOUS
<1> DEFINE A == {d \in DigestsOf(D, s) : h \in d.hashes}
           B == {d \in DigestsOf(E, s) : h \in d.hashes}
<1>2. A \subseteq B /\ B \subseteq E
  BY DEF DigestsOf
<1>3. IsFiniteSet(B)
  BY <1>2, FS_Subset
<1>4. Cardinality(A) <= Cardinality(B) /\ Cardinality(A) \in Nat /\ Cardinality(B) \in Nat
  BY <1>2, <1>3, FS_Subset, FS_CardinalityType
<1>5. Cardinality(A) >= Threshold(k) /\ Threshold(k) \in Int
  BY <1>1 DEF CommonSubset, TxCount, Threshold
<1>6. h \in UNION {d.hashes : d \in DigestsOf(E, s)}
  BY <1>1 DEF CommonSubset
<1>7. TxCount(E, s, h) >= Threshold(k)
  BY <1>4, <1>5 DEF TxCount
<1> QED
  BY <1>6, <1>7 DEF CommonSubset

-------------------------------------------------------------------------------
\* The inductive invariant behind TxLeavesOnlyByInclusion.  A transaction in a
\* bucket that is about to be evicted is no worry if it is sequenced, is about to
\* be, or is in another bucket too.

\* The buckets node n is done with: the one being proposed, and those whose
\* eviction waits for publishMempoolSync.
Settled(n) == pending[n] \cup (IF phase[n] = "PROPOSE" THEN {slot[n]} ELSE {})

Held(n, tx) == \E e \in pool[n] : e[2] = tx /\ e[1] \notin Settled(n)

\* FINALIZE will include tx or carry it.
Deciding(n, tx) == phase[n] = "PROPOSE" /\ tx \in Local(n) /\ tx \in Common(n)

Safe(n, tx) == Included(n, tx) \/ Held(n, tx) \/ Deciding(n, tx)

AllSafe == \A n \in Nodes : \A e \in pool[n] : Safe(n, e[2])

PendingOver ==
  \A n \in Nodes :
    /\ ~running[n] => pending[n] = {}
    /\ \A s \in pending[n] : s < OpenSlot(n)

\* What a node has in the bucket of its slot.
LEMMA InLocal ==
  ASSUME NEW n, NEW tx
  PROVE  tx \in Local(n) <=> \E e \in pool[n] : e[1] = slot[n] /\ e[2] = tx
BY DEF Local, Snapshot, Bucket

\* What a mempool holds after a carry.
LEMMA CarryHas ==
  ASSUME NEW P, NEW S, NEW s, NEW tx
  PROVE  /\ P \subseteq CarryForward(P, S, s)
         /\ tx \in S => \E e \in CarryForward(P, S, s) : e[1] = s /\ e[2] = tx
         /\ \A e \in CarryForward(P, S, s) : e \in P \/ (e[1] = s /\ e[2] \in S)
<1>1. tx \in S => <<s, tx>> \in CarryForward(P, S, s)
  BY DEF CarryForward
<1>2. <<s, tx>>[1] = s /\ <<s, tx>>[2] = tx
  OBVIOUS
<1>3. \A e \in {s} \X S : e[1] = s /\ e[2] \in S
  OBVIOUS
<1> QED
  BY <1>1, <1>2, <1>3 DEF CarryForward

\* A handler held up at its await is one of a slot that is over.
LEMMA PendingOverInductive ==
  ASSUME TypeOK, TypeOK', PendingOver, [Next]_vars
  PROVE  PendingOver'
<1> USE DEF clockVars, nets
<1> SUFFICES ASSUME NEW k \in Nodes
             PROVE  /\ ~running'[k] => pending'[k] = {}
                    /\ \A s \in pending'[k] : s < OpenSlot(k)'
  BY DEF PendingOver
<1>1. /\ ~running[k] => pending[k] = {}
      /\ \A s \in pending[k] : s < OpenSlot(k)
  BY DEF PendingOver
<1>2. OpenSlot(k) \in Nat /\ OpenSlot(k)' \in Nat /\ pending[k] \subseteq Nat
  BY DEF OpenSlot, TypeOK
<1>3. ASSUME pending'[k] \subseteq pending[k], running'[k] = running[k],
             OpenSlot(k)' >= OpenSlot(k)
      PROVE  /\ ~running'[k] => pending'[k] = {}
             /\ \A s \in pending'[k] : s < OpenSlot(k)'
  BY <1>1, <1>2, <1>3
<1>4. ASSUME UNCHANGED <<running, slot, phase>>,
             \A n \in Nodes : pending'[n] \subseteq pending[n]
      PROVE  /\ ~running'[k] => pending'[k] = {}
             /\ \A s \in pending'[k] : s < OpenSlot(k)'
  BY <1>2, <1>3, <1>4 DEF OpenSlot
<1>5. ASSUME NEW n \in Nodes, ToFreeze(n) \/ ToSync(n) \/ ToPropose(n)
      PROVE  /\ ~running'[k] => pending'[k] = {}
             /\ \A s \in pending'[k] : s < OpenSlot(k)'
  <2>1. UNCHANGED <<running, slot, pending>> /\ OpenSlot(k)' = OpenSlot(k)
    BY <1>5 DEF ToFreeze, ToSync, ToPropose, Leaves, NextPhase, OpenSlot, TypeOK
  <2> QED
    BY <1>2, <1>3, <2>1
<1>6. ASSUME NEW n \in Nodes, FinalizeWinner(n) \/ FinalizeSkip(n)
      PROVE  /\ ~running'[k] => pending'[k] = {}
             /\ \A s \in pending'[k] : s < OpenSlot(k)'
  <2>1. UNCHANGED <<running, slot, pending>> /\ OpenSlot(k)' >= OpenSlot(k)
    BY <1>6, <1>2 DEF FinalizeWinner, FinalizeSkip, Skip, Leaves, NextPhase, OpenSlot, TypeOK
  <2> QED
    BY <1>2, <1>3, <2>1
<1>7. ASSUME NEW n \in Nodes, FinalizeEmergency(n)
      PROVE  /\ ~running'[k] => pending'[k] = {}
             /\ \A s \in pending'[k] : s < OpenSlot(k)'
  <2>1. /\ running[n] /\ phase[n] = "PROPOSE" /\ phase' = [phase EXCEPT ![n] = "FINALIZE"]
        /\ UNCHANGED <<running, slot>>
        /\ pending' = [pending EXCEPT ![n] = @ \cup {slot[n]}]
    BY <1>7 DEF FinalizeEmergency, Skip, Leaves, NextPhase
  <2>2. CASE k = n
    <3>1. OpenSlot(k) = slot[k] /\ OpenSlot(k)' = slot[k] + 1 /\ slot[k] \in Nat
      BY <2>1, <2>2 DEF OpenSlot, TypeOK
    <3>2. pending'[k] = pending[k] \cup {slot[k]} /\ running'[k]
      BY <2>1, <2>2 DEF TypeOK
    <3> QED
      BY <1>1, <1>2, <3>1, <3>2
  <2>3. CASE k # n
    BY <1>1, <2>1, <2>3 DEF OpenSlot, TypeOK
  <2> QED
    BY <2>2, <2>3
<1>8. ASSUME NEW n \in Nodes, NEW s \in pending[n], FinishFinalize(n, s)
      PROVE  UNCHANGED <<running, slot, phase>> /\ \A m \in Nodes : pending'[m] \subseteq pending[m]
  BY <1>8 DEF FinishFinalize, TypeOK
<1>9. ASSUME NEW n \in Nodes, ToCollect(n)
      PROVE  /\ ~running'[k] => pending'[k] = {}
             /\ \A s \in pending'[k] : s < OpenSlot(k)'
  <2>1. UNCHANGED <<running, pending>> /\ OpenSlot(k)' = OpenSlot(k)
    BY <1>9 DEF ToCollect, Leaves, NextPhase, OpenSlot, TypeOK
  <2> QED
    BY <1>2, <1>3, <2>1
<1>10. ASSUME NEW n \in Nodes, StartSlotManager(n)
       PROVE  /\ ~running'[k] => pending'[k] = {}
              /\ \A s \in pending'[k] : s < OpenSlot(k)'
  <2>1. CASE k = n
    BY <1>1, <1>10, <2>1 DEF StartSlotManager
  <2>2. CASE k # n
    BY <1>1, <1>10, <2>2 DEF StartSlotManager, OpenSlot, TypeOK
  <2> QED
    BY <2>1, <2>2
<1>11. ASSUME \/ \E n \in Nodes, tx \in Txs : Submit(n, tx)
              \/ \E m \in txNet : OnTx(m)
              \/ \E m \in digestNet : OnDigest(m)
              \/ \E m \in batchNet : OnBatch(m)
              \/ \E m \in batchNet : OnLateBatch(m)
              \/ \E m \in syncNet : OnMempoolSync(m)
              \/ Tick \/ Horizon \/ UNCHANGED vars
       PROVE  UNCHANGED <<running, slot, phase, pending>>
  BY <1>11 DEF Submit, OnTx, OnDigest, OnBatch, OnLateBatch, OnMempoolSync, Tick, Horizon, vars
<1> QED
  BY <1>4, <1>5, <1>6, <1>7, <1>8, <1>9, <1>10, <1>11 DEF Next

\* What is safe with a node stays safe as long as the node settles nothing.
LEMMA SafeKept ==
  ASSUME NEW k \in Nodes, NEW tx, Safe(k, tx),
         history'[k] = history[k], pool[k] \subseteq pool'[k],
         Settled(k)' = Settled(k), slot'[k] = slot[k], phase'[k] = phase[k],
         Common(k) \subseteq Common(k)'
  PROVE  Safe(k, tx)'
<1>1. CASE Included(k, tx)
  BY <1>1 DEF Safe, Included
<1>2. CASE Held(k, tx)
  BY <1>2 DEF Safe, Held
<1>3. CASE Deciding(k, tx)
  <2>1. PICK e \in pool[k] : e[1] = slot[k] /\ e[2] = tx
    BY <1>3, InLocal DEF Deciding
  <2>2. tx \in Local(k)'
    BY <2>1 DEF Local, Snapshot, Bucket
  <2> QED
    BY <1>3, <2>2 DEF Safe, Deciding
<1> QED
  BY <1>1, <1>2, <1>3 DEF Safe

\* Digests that arrive only add to what is common.
LEMMA DigestKeeps ==
  ASSUME TypeOK, TypeOK', OneDigest, OneDigest', NEW m \in digestNet, OnDigest(m),
         NEW k \in Nodes
  PROVE  Common(k) \subseteq Common(k)'
<1> DEFINE s == slot[k]
<1>1. m.to \in Nodes /\ m.body \in AllDigests
  <2>1. m.to \in Nodes
    BY DEF TypeOK, Messages
  <2>2. m.body \in AllDigests
    BY DEF AllDigests
  <2> QED
    BY <2>1, <2>2
<1>2. digests[k] \subseteq digests'[k]
  <2>1. CASE k = m.to
    <3>1. digests[k] \subseteq AllDigests
      BY DEF AllDigests
    <3>2. ReceiveDigest(digests[k], m.body) = digests[k] \cup {m.body}
      BY <1>1, <3>1, ReceiveAdds DEF OneDigest, UniqueDigests
    <3> QED
      BY <2>1, <3>2 DEF OnDigest, TypeOK
  <2>2. CASE k # m.to
    BY <2>2 DEF OnDigest, TypeOK
  <2> QED
    BY <2>1, <2>2
<1>3. DigestsOf(digests[k], s) \subseteq DigestsOf(digests'[k], s)
  BY <1>2 DEF DigestsOf
<1>4. IsFiniteSet(digests'[k]) /\ Cardinality(Nodes) \in Nat
  BY FS_CardinalityType, ConsensusAssumption DEF OneDigest, UniqueDigests
<1>5. slot' = slot
  BY DEF OnDigest, clockVars
<1>6. CommonSubset(digests[k], s, Cardinality(Nodes))
        \subseteq CommonSubset(digests'[k], s, Cardinality(Nodes))
  BY <1>3, <1>4, CommonGrows
<1> QED
  BY <1>5, <1>6 DEF Common

\* Entering PROPOSE: what is not common is in the next bucket from now on.
LEMMA ProposeKeeps ==
  ASSUME TypeOK, PendingOver, NEW k \in Nodes, ToPropose(k), NEW tx, Safe(k, tx)
  PROVE  Safe(k, tx)'
<1>1. /\ phase[k] = "SYNC" /\ phase'[k] = "PROPOSE"
      /\ UNCHANGED <<slot, digests, history, pending>>
      /\ pool'[k] = CarryForward(pool[k], Excluded(k), slot[k] + 1)
  <2>1. phase[k] = "SYNC" /\ phase'[k] = "PROPOSE"
    BY DEF ToPropose, Leaves, NextPhase, TypeOK
  <2>2. UNCHANGED <<slot, digests, history, pending>>
    BY DEF ToPropose
  <2>3. pool' = [pool EXCEPT ![k] = CarryForward(@, Excluded(k), slot[k] + 1)]
    BY DEF ToPropose
  <2> QED
    BY <2>1, <2>2, <2>3 DEF TypeOK
<1>2. pool[k] \subseteq pool'[k]
  BY <1>1 DEF CarryForward
<1>3. Settled(k) = pending[k] /\ Settled(k)' = pending[k] \cup {slot[k]}
  BY <1>1 DEF Settled
<1>4. slot[k] \in Nat /\ slot[k] + 1 \notin Settled(k)'
  <2>1. OpenSlot(k) = slot[k] /\ slot[k] \in Nat
    BY <1>1 DEF OpenSlot, TypeOK
  <2>2. pending[k] \subseteq Nat /\ \A s \in pending[k] : s < slot[k]
    BY <2>1 DEF PendingOver, TypeOK
  <2> QED
    BY <1>3, <2>1, <2>2
<1>5. CASE Included(k, tx)
  BY <1>1, <1>5 DEF Safe, Included
<1>6. CASE Held(k, tx)
  <2>1. PICK e \in pool[k] : e[2] = tx /\ e[1] \notin pending[k]
    BY <1>3, <1>6 DEF Held
  <2>2. CASE e[1] # slot[k]
    BY <1>2, <1>3, <2>1, <2>2 DEF Safe, Held
  <2>3. CASE e[1] = slot[k] /\ tx \in Common(k)
    <3>1. tx \in Local(k)'
      BY <1>1, <1>2, <2>1, <2>3 DEF Local, Snapshot, Bucket
    <3>2. tx \in Common(k)'
      BY <1>1, <2>3 DEF Common
    <3> QED
      BY <1>1, <3>1, <3>2 DEF Safe, Deciding
  <2>4. CASE e[1] = slot[k] /\ tx \notin Common(k)
    <3>1. tx \in Excluded(k)
      BY <2>1, <2>4, InLocal DEF Excluded
    <3>2. PICK f \in pool'[k] : f[1] = slot[k] + 1 /\ f[2] = tx
      BY <1>1, <3>1, CarryHas
    <3> QED
      BY <1>4, <3>2 DEF Safe, Held
  <2> QED
    BY <2>2, <2>3, <2>4
<1>7. ~Deciding(k, tx)
  BY <1>1 DEF Deciding
<1> QED
  BY <1>5, <1>6, <1>7 DEF Safe

\* FINALIZE: what was common is in the winner or, in a skipped slot, in the next
\* bucket; nothing the history says is unsaid.
LEMMA FinalizeKeeps ==
  ASSUME TypeOK, TypeOK', AllChained, PendingOver, NEW k \in Nodes, NEW tx, Safe(k, tx),
         FinalizeWinner(k) \/ FinalizeSkip(k) \/ FinalizeEmergency(k)
  PROVE  Safe(k, tx)'
<1>1. /\ phase[k] = "PROPOSE" /\ phase'[k] = "FINALIZE" /\ slot' = slot
      /\ \E b : Record(k, b)
  BY DEF FinalizeWinner, FinalizeSkip, FinalizeEmergency, Skip, Leaves, NextPhase, TypeOK
<1>2. OpenSlot(k) = slot[k] /\ slot[k] \in Nat
  BY <1>1 DEF OpenSlot, TypeOK
<1>3. pending[k] \subseteq Nat /\ \A s \in pending[k] : s < slot[k]
  BY <1>2 DEF PendingOver, TypeOK
<1>4. Settled(k) = pending[k] \cup {slot[k]} /\ Settled(k)' = pending'[k]
  BY <1>1 DEF Settled
<1>5. pending'[k] = pending[k] \/ pending'[k] = pending[k] \cup {slot[k]}
  BY DEF FinalizeWinner, FinalizeSkip, FinalizeEmergency, TypeOK
<1>6. \A e \in pool[k] : e[1] # slot[k] => e \in pool'[k]
  <2>1. CASE FinalizeWinner(k)
    BY <2>1 DEF FinalizeWinner, Forget, Evict, Bucket, TypeOK
  <2>2. CASE FinalizeSkip(k)
    <3>1. pool[k] \subseteq CarriedPool(k)
      BY CarryHas DEF CarriedPool
    <3> QED
      BY <2>2, <3>1 DEF FinalizeSkip, Forget, Evict, Bucket, TypeOK
  <2>3. CASE FinalizeEmergency(k)
    <3>1. pool[k] \subseteq CarriedPool(k)
      BY CarryHas DEF CarriedPool
    <3> QED
      BY <2>3, <3>1 DEF FinalizeEmergency, TypeOK
  <2> QED
    BY <2>1, <2>2, <2>3
<1>7. CASE Included(k, tx)
  <2>1. PICK s \in DOMAIN history[k] : tx \in TxSet(history[k][s])
    BY <1>7 DEF Included
  <2>2. s # slot[k]
    BY <1>2, HistoryBelowOpen DEF AllChained
  <2>3. s \in DOMAIN history'[k] /\ history'[k][s] = history[k][s]
    BY <1>1, <2>2 DEF Record, TypeOK
  <2> QED
    BY <2>1, <2>3 DEF Safe, Included
<1>8. CASE Held(k, tx)
  <2>1. PICK e \in pool[k] : e[2] = tx /\ e[1] \notin pending[k] /\ e[1] # slot[k]
    BY <1>4, <1>8 DEF Held
  <2> QED
    BY <1>4, <1>5, <1>6, <2>1 DEF Safe, Held
<1>9. CASE Deciding(k, tx) /\ FinalizeWinner(k)
  <2>1. PICK w \in Valid(k) : Record(k, w)
    BY <1>9 DEF FinalizeWinner, IsWinner
  <2>2. tx \in TxSet(w)
    BY <1>9, <2>1 DEF Valid, ValidProposal, Deciding
  <2>3. slot[k] \in DOMAIN history'[k] /\ history'[k][slot[k]] = w
    BY <2>1 DEF Record, TypeOK
  <2> QED
    BY <2>2, <2>3 DEF Safe, Included
<1>10. CASE Deciding(k, tx) /\ (FinalizeSkip(k) \/ FinalizeEmergency(k))
  <2>1. PICK f \in CarriedPool(k) : f[1] = slot[k] + 1 /\ f[2] = tx
    <3>1. tx \in Local(k) \cap Common(k)
      BY <1>10 DEF Deciding
    <3> QED
      BY <3>1, CarryHas DEF CarriedPool
  <2>2. f \in pool'[k]
    BY <1>2, <1>10, <2>1 DEF FinalizeSkip, FinalizeEmergency, Forget, Evict, Bucket, TypeOK
  <2>3. slot[k] + 1 \notin Settled(k)'
    BY <1>2, <1>3, <1>4, <1>5
  <2> QED
    BY <2>1, <2>2, <2>3 DEF Safe, Held
<1> QED
  BY <1>7, <1>8, <1>9, <1>10 DEF Safe

\* The clean-up after publishMempoolSync takes nothing that was safe only there.
LEMMA FinishKeeps ==
  ASSUME TypeOK, PendingOver, NEW k \in Nodes, NEW s \in pending[k], FinishFinalize(k, s),
         NEW tx, Safe(k, tx)
  PROVE  Safe(k, tx)'
<1>1. /\ UNCHANGED <<slot, phase, history>>
      /\ pending'[k] = pending[k] \ {s}
      /\ pool'[k] = Evict(pool[k], s)
      /\ digests'[k] = ClearSlot(digests[k], s)
  BY DEF FinishFinalize, Forget, clockVars, TypeOK
<1>2. \A e \in pool[k] : e[1] # s => e \in pool'[k]
  BY <1>1 DEF Evict, Bucket
<1>3. CASE Included(k, tx)
  BY <1>1, <1>3 DEF Safe, Included
<1>4. CASE Held(k, tx)
  <2>1. PICK e \in pool[k] : e[2] = tx /\ e[1] \notin Settled(k)
    BY <1>4 DEF Held
  <2>2. e[1] # s /\ e[1] \notin Settled(k)'
    BY <1>1, <2>1 DEF Settled
  <2> QED
    BY <1>2, <2>1, <2>2 DEF Safe, Held
<1>5. CASE Deciding(k, tx)
  <2>1. s # slot[k]
    BY <1>5 DEF Deciding, PendingOver, OpenSlot, TypeOK
  <2>2. PICK e \in pool[k] : e[1] = slot[k] /\ e[2] = tx
    BY <1>5, InLocal DEF Deciding
  <2>3. tx \in Local(k)'
    BY <1>1, <1>2, <2>1, <2>2 DEF Local, Snapshot, Bucket
  <2>4. DigestsOf(digests'[k], slot[k]) = DigestsOf(digests[k], slot[k])
    BY <1>1, <2>1 DEF ClearSlot, DigestsOf
  <2>5. Common(k)' = Common(k)
    BY <1>1, <2>4 DEF Common, CommonSubset, TxCount
  <2> QED
    BY <1>1, <1>5, <2>3, <2>5 DEF Safe, Deciding
<1> QED
  BY <1>3, <1>4, <1>5 DEF Safe

\* Every step keeps safe what is safe.
LEMMA SafeStable ==
  ASSUME TypeOK, TypeOK', OneDigest, OneDigest', AllChained, PendingOver, [Next]_vars,
         NEW k \in Nodes, NEW tx, Safe(k, tx)
  PROVE  Safe(k, tx)'
<1> USE DEF clockVars, nets
<1>1. ASSUME UNCHANGED <<slot, phase, digests, history, pending>>,
             pool[k] \subseteq pool'[k]
      PROVE  Safe(k, tx)'
  <2>1. Settled(k)' = Settled(k) /\ Common(k)' = Common(k)
    BY <1>1 DEF Settled, Common
  <2> QED
    BY <1>1, <2>1, SafeKept
<1>2. ASSUME history'[k] = history[k], pool'[k] = pool[k], pending'[k] = pending[k],
             digests'[k] = digests[k], slot'[k] = slot[k], phase'[k] = phase[k]
      PROVE  Safe(k, tx)'
  <2>1. Settled(k)' = Settled(k) /\ Common(k)' = Common(k)
    BY <1>2 DEF Settled, Common
  <2> QED
    BY <1>2, <2>1, SafeKept
<1>3. ASSUME history'[k] = history[k], pool'[k] = pool[k], pending'[k] = pending[k],
             phase[k] # "PROPOSE", phase'[k] # "PROPOSE"
      PROVE  Safe(k, tx)'
  BY <1>3 DEF Safe, Included, Held, Deciding, Settled
<1>4. ASSUME NEW n \in Nodes, NEW t \in Txs, Submit(n, t) PROVE Safe(k, tx)'
  <2>1. pool[k] \subseteq pool'[k]
    BY <1>4 DEF Submit, Add, TypeOK
  <2> QED
    BY <1>1, <1>4, <2>1 DEF Submit
<1>5. ASSUME NEW m \in txNet, OnTx(m) PROVE Safe(k, tx)'
  <2>1. pool[k] \subseteq pool'[k]
    BY <1>5 DEF OnTx, Add, TypeOK
  <2> QED
    BY <1>1, <1>5, <2>1 DEF OnTx
<1>6. ASSUME NEW m \in syncNet, OnMempoolSync(m) PROVE Safe(k, tx)'
  <2>1. pool[k] \subseteq pool'[k]
    BY <1>6 DEF OnMempoolSync, CarryForward, TypeOK
  <2> QED
    BY <1>1, <1>6, <2>1 DEF OnMempoolSync
<1>7. ASSUME NEW m \in digestNet, OnDigest(m) PROVE Safe(k, tx)'
  <2>1. UNCHANGED <<slot, phase, history, pending, pool>>
    BY <1>7 DEF OnDigest
  <2>2. Settled(k)' = Settled(k)
    BY <2>1 DEF Settled
  <2>3. Common(k) \subseteq Common(k)'
    BY <1>7, DigestKeeps
  <2> QED
    BY <2>1, <2>2, <2>3, SafeKept
<1>8. ASSUME \/ \E m \in batchNet : OnBatch(m)
             \/ \E m \in batchNet : OnLateBatch(m)
             \/ Tick \/ Horizon \/ UNCHANGED vars
      PROVE  Safe(k, tx)'
  BY <1>1, <1>8 DEF OnBatch, OnLateBatch, Tick, Horizon, vars
<1>9. ASSUME NEW n \in Nodes, StartSlotManager(n) PROVE Safe(k, tx)'
  <2>1. CASE k = n
    <3>1. /\ pending[k] = {} /\ phase'[k] = "COLLECT"
          /\ UNCHANGED <<history, pool, pending>>
      BY <1>9, <2>1 DEF StartSlotManager, PendingOver, TypeOK
    <3>2. CASE Included(k, tx)
      BY <3>1, <3>2 DEF Safe, Included
    <3>3. Settled(k)' = {}
      BY <3>1 DEF Settled
    <3>4. CASE \E e \in pool[k] : e[2] = tx
      BY <3>1, <3>3, <3>4 DEF Safe, Held
    <3> QED
      BY <3>2, <3>4, InLocal DEF Safe, Held, Deciding
  <2>2. CASE k # n
    BY <1>2, <1>9, <2>2 DEF StartSlotManager, TypeOK
  <2> QED
    BY <2>1, <2>2
<1>10. ASSUME NEW n \in Nodes, ToFreeze(n) PROVE Safe(k, tx)'
  <2>1. UNCHANGED <<history, pool, pending, digests, slot>>
    BY <1>10 DEF ToFreeze
  <2>2. CASE k = n
    <3>1. phase[k] # "PROPOSE" /\ phase'[k] # "PROPOSE"
      BY <1>10, <2>2 DEF ToFreeze, Leaves, NextPhase, TypeOK
    <3> QED
      BY <1>3, <2>1, <3>1
  <2>3. CASE k # n
    BY <1>2, <1>10, <2>1, <2>3 DEF ToFreeze, Leaves, TypeOK
  <2> QED
    BY <2>2, <2>3
<1>11. ASSUME NEW n \in Nodes, ToSync(n) PROVE Safe(k, tx)'
  <2>1. UNCHANGED <<history, pool, pending, slot>>
    BY <1>11 DEF ToSync
  <2>2. CASE k = n
    <3>1. phase[k] # "PROPOSE" /\ phase'[k] # "PROPOSE"
      BY <1>11, <2>2 DEF ToSync, Leaves, NextPhase, TypeOK
    <3> QED
      BY <1>3, <2>1, <3>1
  <2>3. CASE k # n
    BY <1>2, <1>11, <2>1, <2>3 DEF ToSync, Leaves, TypeOK
  <2> QED
    BY <2>2, <2>3
<1>12. ASSUME NEW n \in Nodes, ToCollect(n) PROVE Safe(k, tx)'
  <2>1. UNCHANGED <<history, pool, pending, digests>>
    BY <1>12 DEF ToCollect
  <2>2. CASE k = n
    <3>1. phase[k] # "PROPOSE" /\ phase'[k] # "PROPOSE"
      BY <1>12, <2>2 DEF ToCollect, Leaves, NextPhase, TypeOK
    <3> QED
      BY <1>3, <2>1, <3>1
  <2>3. CASE k # n
    BY <1>2, <1>12, <2>1, <2>3 DEF ToCollect, Leaves, TypeOK
  <2> QED
    BY <2>2, <2>3
<1>13. ASSUME NEW n \in Nodes, ToPropose(n) PROVE Safe(k, tx)'
  <2>1. CASE k = n
    BY <1>13, <2>1, ProposeKeeps
  <2>2. CASE k # n
    <3>1. UNCHANGED <<history, pending, digests, slot>> /\ pool'[k] = pool[k]
      BY <1>13, <2>2 DEF ToPropose, TypeOK
    <3>2. phase'[k] = phase[k]
      BY <1>13, <2>2 DEF ToPropose, Leaves, TypeOK
    <3> QED
      BY <1>2, <3>1, <3>2
  <2> QED
    BY <2>1, <2>2
<1>14. ASSUME NEW n \in Nodes, FinalizeWinner(n) \/ FinalizeSkip(n) \/ FinalizeEmergency(n)
       PROVE  Safe(k, tx)'
  <2>1. CASE k = n
    BY <1>14, <2>1, FinalizeKeeps
  <2>2. CASE k # n
    <3>1. PICK b : Record(n, b)
      BY <1>14 DEF FinalizeWinner, FinalizeSkip, FinalizeEmergency, Skip
    <3>2. history'[k] = history[k]
      BY <2>2, <3>1 DEF Record, TypeOK
    <3>3. pool'[k] = pool[k] /\ pending'[k] = pending[k] /\ digests'[k] = digests[k]
      BY <1>14, <2>2 DEF FinalizeWinner, FinalizeSkip, FinalizeEmergency, Forget, TypeOK
    <3>4. slot'[k] = slot[k] /\ phase'[k] = phase[k]
      BY <1>14, <2>2 DEF FinalizeWinner, FinalizeSkip, FinalizeEmergency, Skip, Leaves, TypeOK
    <3> QED
      BY <1>2, <3>2, <3>3, <3>4
  <2> QED
    BY <2>1, <2>2
<1>15. ASSUME NEW n \in Nodes, NEW s \in pending[n], FinishFinalize(n, s) PROVE Safe(k, tx)'
  <2>1. CASE k = n
    BY <1>15, <2>1, FinishKeeps
  <2>2. CASE k # n
    BY <1>2, <1>15, <2>2 DEF FinishFinalize, Forget, TypeOK
  <2> QED
    BY <2>1, <2>2
<1> QED
  BY <1>4, <1>5, <1>6, <1>7, <1>8, <1>9, <1>10, <1>11, <1>12, <1>13, <1>14, <1>15 DEF Next

-------------------------------------------------------------------------------
\* What the theorem asks of the emergency resync: one that reaches a node that
\* has settled its slot brings it nothing it does not hold.  The handler of
\* publishMempoolSync does not look at the phase, and files what it is sent under
\* a bucket that is no longer looked at.
ResyncInTime ==
  \A m \in syncNet : OnMempoolSync(m) =>
    \/ phase[m.to] \in {"COLLECT", "FREEZE", "SYNC"}
    \/ \A tx \in m.body : InPool(m.to, tx)

\* A transaction that is filed under a bucket the node is not done with is safe.
LEMMA FiledSafe ==
  ASSUME NEW k \in Nodes, NEW e \in pool'[k], e[1] \notin Settled(k)'
  PROVE  Safe(k, e[2])'
BY DEF Safe, Held

\* An arriving transaction is filed under such a bucket.
LEMMA ArrivalSafe ==
  ASSUME TypeOK, AllOnTime, PendingOver, NEW k \in Nodes,
         UNCHANGED <<slot, phase, pending>>,
         NEW e \in pool'[k], e[1] = AssignTransactionToSlot(Genesis, now),
         phase[k] = "PROPOSE" => running[k]
  PROVE  Safe(k, e[2])'
<1> DEFINE a == AssignTransactionToSlot(Genesis, now)
<1>1. Settled(k)' = Settled(k)
  BY DEF Settled
<1>2. a \notin Settled(k)
  <2>1. CASE ~running[k]
    BY <2>1 DEF PendingOver, Settled
  <2>2. CASE running[k]
    <3>1. /\ a \in Nat /\ a >= slot[k]
          /\ phase[k] \in {"PROPOSE", "FINALIZE"} => a >= slot[k] + 1
      BY <2>2, ArrivesInOpenSlot DEF AllOnTime
    <3>2. slot[k] \in Nat /\ a >= OpenSlot(k) /\ (phase[k] = "PROPOSE" => a # slot[k])
      BY <3>1 DEF OpenSlot, TypeOK
    <3>3. a \notin pending[k]
      BY <3>1, <3>2 DEF PendingOver, OpenSlot, TypeOK
    <3> QED
      BY <3>2, <3>3 DEF Settled
  <2> QED
    BY <2>1, <2>2
<1> QED
  BY <1>1, <1>2, FiledSafe

\* A node that is not running is in COLLECT.
WaitsInCollect == \A n \in Nodes : ~running[n] => phase[n] = "COLLECT"

\* A node that has not been started is in COLLECT.
LEMMA WaitsInCollectInductive ==
  ASSUME TypeOK, WaitsInCollect, [Next]_vars
  PROVE  WaitsInCollect'
<1> SUFFICES ASSUME NEW m \in Nodes, ~running'[m] PROVE phase'[m] = "COLLECT"
  BY DEF WaitsInCollect
<1>1. ASSUME running'[m] = running[m], phase'[m] = phase[m]
      PROVE  phase'[m] = "COLLECT"
  BY <1>1 DEF WaitsInCollect
<1>2. ASSUME NEW n \in Nodes, StartSlotManager(n) PROVE phase'[m] = "COLLECT"
  BY <1>1, <1>2 DEF StartSlotManager, TypeOK
<1>3. ASSUME NEW n \in Nodes, Proceeds(n) PROVE phase'[m] = "COLLECT"
  BY <1>1, <1>3 DEF Proceeds, TypeOK
<1>4. ASSUME NEW n \in Nodes, ToCollect(n) PROVE phase'[m] = "COLLECT"
  BY <1>1, <1>4 DEF ToCollect, Leaves, TypeOK
<1>5. ASSUME NEW n \in Nodes, NEW b, Finalises(n, b) PROVE phase'[m] = "COLLECT"
  BY <1>1, <1>5 DEF Finalises, TypeOK
<1> QED
  BY <1>1, <1>2, <1>3, <1>4, <1>5, BookSteps

\* No step of a handler only moves a transaction to where it is lost: whatever is
\* new in a mempool is safe there.
LEMMA NewSafe ==
  ASSUME TypeOK, TypeOK', AllOnTime, PendingOver, WaitsInCollect,
         [Next]_vars, [ResyncInTime]_vars,
         NEW k \in Nodes, NEW e \in pool'[k]
  PROVE  InPool(k, e[2]) \/ Safe(k, e[2])'
<1> USE DEF clockVars, nets
<1>1. ASSUME e \in pool[k] PROVE InPool(k, e[2])
  BY <1>1 DEF InPool
<1>2. ASSUME NEW n \in Nodes, NEW t \in Txs, Submit(n, t)
      PROVE  InPool(k, e[2]) \/ Safe(k, e[2])'
  <2>1. e \in pool[k] \/ e = <<AssignTransactionToSlot(Genesis, now), t>>
    BY <1>2 DEF Submit, Add, TypeOK
  <2>2. UNCHANGED <<slot, phase, pending>>
    BY <1>2 DEF Submit
  <2>3. phase[k] = "PROPOSE" => running[k]
    BY DEF WaitsInCollect
  <2> QED
    BY <1>1, <2>1, <2>2, <2>3, ArrivalSafe
<1>3. ASSUME NEW m \in txNet, OnTx(m) PROVE InPool(k, e[2]) \/ Safe(k, e[2])'
  <2>1. e \in pool[k] \/ e = <<AssignTransactionToSlot(Genesis, now), m.body>>
    BY <1>3 DEF OnTx, Add, TypeOK
  <2>2. UNCHANGED <<slot, phase, pending>>
    BY <1>3 DEF OnTx
  <2>3. phase[k] = "PROPOSE" => running[k]
    BY DEF WaitsInCollect
  <2> QED
    BY <1>1, <2>1, <2>2, <2>3, ArrivalSafe
<1>4. ASSUME NEW m \in syncNet, OnMempoolSync(m) PROVE InPool(k, e[2]) \/ Safe(k, e[2])'
  <2>1. m.to \in Nodes
    BY DEF TypeOK, Messages
  <2>2. UNCHANGED <<slot, phase, pending>>
    BY <1>4 DEF OnMempoolSync
  <2>3. e \in pool[k] \/ (k = m.to /\ e[1] = slot[k] /\ e[2] \in m.body)
    BY <1>4, <2>1 DEF OnMempoolSync, CarryForward, TypeOK
  <2>4. ResyncInTime
    <3>1. syncNet' # syncNet
      BY <1>4 DEF OnMempoolSync
    <3> QED
      BY <3>1 DEF vars
  <2>5. CASE phase[k] \in {"COLLECT", "FREEZE", "SYNC"} /\ e[1] = slot[k]
    <3>1. slot[k] \notin pending[k]
      BY <2>5 DEF PendingOver, OpenSlot, TypeOK
    <3>2. e[1] \notin Settled(k)'
      BY <2>2, <2>5, <3>1 DEF Settled
    <3> QED
      BY <3>2, FiledSafe
  <2>6. CASE k = m.to /\ e[2] \in m.body /\ phase[k] \notin {"COLLECT", "FREEZE", "SYNC"}
    BY <1>4, <2>4, <2>6 DEF ResyncInTime
  <2> QED
    BY <1>1, <2>3, <2>5, <2>6
<1>5. ASSUME NEW n \in Nodes, ToPropose(n) PROVE InPool(k, e[2]) \/ Safe(k, e[2])'
  <2>1. e \in pool[k] \/ (k = n /\ e \in CarryForward(pool[k], Excluded(k), slot[k] + 1))
    BY <1>5 DEF ToPropose, TypeOK
  <2>2. e \in CarryForward(pool[k], Excluded(k), slot[k] + 1)
          => e \in pool[k] \/ e[2] \in Excluded(k)
    BY CarryHas
  <2>3. e[2] \in Excluded(k) => InPool(k, e[2])
    BY InLocal DEF Excluded, InPool
  <2> QED
    BY <1>1, <2>1, <2>2, <2>3
<1>6. e \in CarriedPool(k) => InPool(k, e[2])
  <2>1. e \in CarriedPool(k) => e \in pool[k] \/ e[2] \in Local(k) \cap Common(k)
    BY CarryHas DEF CarriedPool
  <2>2. e[2] \in Local(k) => InPool(k, e[2])
    BY InLocal DEF InPool
  <2> QED
    BY <1>1, <2>1, <2>2
<1>7. ASSUME NEW n \in Nodes, FinalizeSkip(n) \/ FinalizeEmergency(n)
      PROVE  InPool(k, e[2])
  <2>1. e \in pool[k] \/ e \in CarriedPool(k)
    BY <1>7 DEF FinalizeSkip, FinalizeEmergency, Forget, Evict, TypeOK
  <2> QED
    BY <1>1, <1>6, <2>1
<1>8. ASSUME NEW n \in Nodes, NEW s, Forget(n, s, pool[n]) PROVE e \in pool[k]
  BY <1>8 DEF Forget, Evict, TypeOK
<1>9. ASSUME NEW n \in Nodes, FinalizeWinner(n) \/ \E s \in pending[n] : FinishFinalize(n, s)
      PROVE  e \in pool[k]
  BY <1>8, <1>9 DEF FinalizeWinner, FinishFinalize
<1>10. ASSUME \/ \E m \in digestNet : OnDigest(m)
              \/ \E m \in batchNet : OnBatch(m)
              \/ \E m \in batchNet : OnLateBatch(m)
              \/ \E n \in Nodes : \/ StartSlotManager(n) \/ ToFreeze(n) \/ ToSync(n)
                                  \/ ToCollect(n)
              \/ Tick \/ Horizon \/ UNCHANGED vars
       PROVE  e \in pool[k]
  BY <1>10 DEF OnDigest, OnBatch, OnLateBatch, StartSlotManager, ToFreeze, ToSync, ToCollect,
               Tick, Horizon, vars
<1> QED
  BY <1>1, <1>2, <1>3, <1>4, <1>5, <1>7, <1>9, <1>10 DEF Next

-------------------------------------------------------------------------------
\* What the nodes can rely on by themselves, together.
Books == TypeOK /\ AllChained /\ AllOnTime /\ OneDigest /\ PendingOver /\ WaitsInCollect

\* All of it holds in every reachable state.
LEMMA BooksCorrect == Spec => []Books
<1>1. Init => AllOnTime /\ PendingOver /\ WaitsInCollect
  BY DEF Init, AllOnTime, OnTime, PendingOver, WaitsInCollect
<1> QED
  BY <1>1, AllChainedInit, AllChainedInductive, AllOnTimeInductive, OneDigestInit,
     OneDigestInductive, PendingOverInductive, WaitsInCollectInductive, TypeCorrect, PTL
     DEF Spec, Books

\* Every transaction in a mempool stays safe: included, held, or about to be decided on.
LEMMA AllSafeInductive ==
  ASSUME Books, Books', AllSafe, [Next]_vars, [ResyncInTime]_vars
  PROVE  AllSafe'
<1>1. SUFFICES ASSUME NEW k \in Nodes, NEW e \in pool'[k] PROVE Safe(k, e[2])'
  BY DEF AllSafe
<1>2. CASE Safe(k, e[2])'
  BY <1>2
<1>3. CASE InPool(k, e[2])
  <2>1. PICK tx : tx = e[2]
    OBVIOUS
  <2>2. Safe(k, tx)
    BY <1>3, <2>1 DEF InPool, AllSafe
  <2>3. Safe(k, tx)'
    BY <2>2, SafeStable DEF Books
  <2> QED
    BY <2>1, <2>3
<1> QED
  BY <1>2, <1>3, NewSafe DEF Books

\* Carry, skip, eviction, late digests and the await of publishMempoolSync lose
\* no transaction: one that leaves the mempool of a node is in a batch of that
\* node's history.  An emergency resync may lose what it brings too late.
THEOREM TxPreserved == Spec /\ [][ResyncInTime]_vars => TxLeavesOnlyByInclusion
<1> DEFINE Leaves0 == \A n \in Nodes, tx \in Txs :
                        InPool(n, tx) => InPool(n, tx)' \/ Included(n, tx)'
<1>1. Init => AllSafe
  BY DEF Init, AllSafe
<1>2. Books /\ Books' /\ AllSafe /\ [Next]_vars /\ [ResyncInTime]_vars => AllSafe'
  BY AllSafeInductive
<1>3. Books /\ Books' /\ AllSafe /\ [Next]_vars => [Leaves0]_vars
  <2> SUFFICES ASSUME Books, Books', AllSafe, [Next]_vars,
                      NEW n \in Nodes, NEW tx \in Txs, InPool(n, tx)
               PROVE  InPool(n, tx)' \/ Included(n, tx)'
    OBVIOUS
  <2>1. Safe(n, tx)
    BY DEF InPool, AllSafe
  <2>2. Safe(n, tx)'
    BY <2>1, SafeStable DEF Books
  <2>3. CASE Held(n, tx)'
    BY <2>3 DEF Held, InPool
  <2>4. CASE Deciding(n, tx)'
    <3>1. tx \in Local(n)'
      BY <2>4 DEF Deciding
    <3> QED
      BY <3>1 DEF Local, Snapshot, Bucket, InPool
  <2> QED
    BY <2>2, <2>3, <2>4 DEF Safe
<1>4. TxLeavesOnlyByInclusion <=> [][Leaves0]_vars
  BY DEF TxLeavesOnlyByInclusion
<1> HIDE DEF Leaves0
<1> QED
  BY <1>1, <1>2, <1>3, <1>4, BooksCorrect, PTL DEF Spec

-------------------------------------------------------------------------------
\* Buckets that are over.

\* What the next theorem asks of the emergency resync: a merge does not come
\* between the clean-up of a skipped slot and the change to the next one, when
\* the bucket of the current slot has been evicted for the last time.
ResyncBeforeCleanUp ==
  \A m \in syncNet : OnMempoolSync(m) =>
    \/ pool' = pool
    \/ phase[m.to] # "FINALIZE"
    \/ slot[m.to] \in pending[m.to]

\* A node that has not started is in slot 0, and in time to start.
WaitsInSlot0 == \A n \in Nodes : ~running[n] => slot[n] = 0 /\ now <= LastStart

NothingStranded ==
  \A n \in Nodes : \A e \in pool[n] : e[1] >= OpenSlot(n) \/ e[1] \in pending[n]

\* Up to the end of slot 0 the wall clock says slot 0.
LEMMA WallSlot0 ==
  ASSUME NEW t \in Nat, t < Genesis + BaseDelta
  PROVE  WallSlot(Genesis, t) = 0
<1> DEFINE w == WallSlot(Genesis, t)
<1>1. Genesis \in Int /\ BaseDelta \in Nat
  BY SequencerAssumption, TimingAssumption
<1>2. w \in Nat /\ (t >= Genesis => Start(Genesis, w) <= t)
  BY <1>1, WallSlotBrackets
<1>3. CASE t < Genesis
  BY <1>3 DEF WallSlot
<1>4. CASE t >= Genesis
  <2>1. Genesis + w * BaseDelta < Genesis + BaseDelta
    <3>1. w * BaseDelta \in Int
      BY <1>1, <1>2
    <3> HIDE DEF w
    <3> QED
      BY <1>1, <1>2, <1>4, <3>1 DEF Start
  <2> HIDE DEF w
  <2>2. CASE w # 0
    <3>1. PICK v \in Nat : w = v + 1
      <4>1. w - 1 \in Nat /\ w = (w - 1) + 1
        BY <1>2, <2>2
      <4> QED
        BY <4>1
    <3>2. w * BaseDelta = v * BaseDelta + BaseDelta /\ v * BaseDelta \in Nat
      BY <1>1, <3>1, SMTT(30)
    <3> QED
      BY <1>1, <2>1, <3>2
  <2> QED
    BY <2>2 DEF w
<1> QED
  BY <1>1, <1>3, <1>4

\* A node that has not been started is in slot 0, and not later than LastStart.
LEMMA WaitsInSlot0Inductive ==
  ASSUME TypeOK, WaitsInSlot0, [Next]_vars
  PROVE  WaitsInSlot0'
<1> SUFFICES ASSUME NEW k \in Nodes, ~running'[k] PROVE slot'[k] = 0 /\ now' <= LastStart
  BY DEF WaitsInSlot0
<1>1. ASSUME running'[k] = running[k], slot'[k] = slot[k], now' = now
      PROVE  slot'[k] = 0 /\ now' <= LastStart
  BY <1>1 DEF WaitsInSlot0
<1>2. CASE Tick
  <2>1. ~running[k] /\ slot'[k] = slot[k] /\ now' = now + 1 /\ now < LastStart
    BY <1>2 DEF Tick, clockVars
  <2>2. now \in Nat /\ LastStart \in Nat
    BY SequencerAssumption DEF TypeOK
  <2> QED
    BY <2>1, <2>2 DEF WaitsInSlot0
<1>3. ASSUME NEW n \in Nodes, StartSlotManager(n) \/ ToCollect(n)
      PROVE  slot'[k] = 0 /\ now' <= LastStart
  <2>1. running'[n] = TRUE /\ now' = now
    BY <1>3 DEF StartSlotManager, ToCollect, Leaves, TypeOK
  <2>2. k # n
    BY <2>1
  <2>3. running'[k] = running[k] /\ slot'[k] = slot[k]
    BY <1>3, <2>2 DEF StartSlotManager, ToCollect, Leaves, TypeOK
  <2> QED
    BY <1>1, <2>1, <2>3
<1>4. CASE /\ ~Tick
           /\ ~\E n \in Nodes : StartSlotManager(n) \/ ToCollect(n)
  <2>1. UNCHANGED <<running, slot, now>>
    BY <1>4 DEF Next, vars, clockVars, nets, Submit, OnTx, OnDigest, OnBatch, OnLateBatch,
                OnMempoolSync, ToFreeze, ToSync, ToPropose, FinalizeWinner, FinalizeSkip,
                FinalizeEmergency, Skip, FinishFinalize, Horizon, Leaves
  <2> QED
    BY <1>1, <2>1
<1> QED
  BY <1>2, <1>3, <1>4

\* Every bucket that is not empty is of a slot that is open, or about to be evicted.
LEMMA NothingStrandedInductive ==
  ASSUME Books, Books', WaitsInSlot0, NothingStranded, LastStart < Genesis + BaseDelta,
         [Next]_vars, [ResyncBeforeCleanUp]_vars
  PROVE  NothingStranded'
<1> USE DEF clockVars, nets
<1> SUFFICES ASSUME NEW k \in Nodes, NEW e \in pool'[k]
             PROVE  (e[1] >= OpenSlot(k) \/ e[1] \in pending[k])'
  BY DEF NothingStranded
<1> DEFINE Kept == (e[1] >= OpenSlot(k) \/ e[1] \in pending[k])'
<1>a. TypeOK /\ TypeOK' /\ AllOnTime /\ WaitsInCollect
  BY DEF Books
<1>b. e[1] \in Nat /\ slot[k] \in Nat /\ OpenSlot(k) \in Nat
  BY <1>a DEF TypeOK, OpenSlot
<1>c. ASSUME e \in pool[k], OpenSlot(k)' = OpenSlot(k), pending'[k] = pending[k] PROVE Kept
  BY <1>c DEF NothingStranded
<1>1. ASSUME e[1] = AssignTransactionToSlot(Genesis, now),
             UNCHANGED <<running, slot, phase, pending>>
      PROVE  Kept
  <2>1. CASE ~running[k]
    BY <1>a, <1>b, <1>1, <2>1 DEF OpenSlot, WaitsInSlot0, WaitsInCollect
  <2>2. CASE running[k]
    <3>1. /\ e[1] >= slot[k]
          /\ phase[k] \in {"PROPOSE", "FINALIZE"} => e[1] >= slot[k] + 1
      BY <1>a, <1>1, <2>2, ArrivesInOpenSlot DEF AllOnTime
    <3> QED
      BY <1>1, <3>1 DEF OpenSlot
  <2> QED
    BY <2>1, <2>2
<1>2. ASSUME NEW n \in Nodes, NEW t \in Txs, Submit(n, t) PROVE Kept
  <2>1. e \in pool[k] \/ e[1] = AssignTransactionToSlot(Genesis, now)
    BY <1>a, <1>2 DEF Submit, Add, TypeOK
  <2>2. UNCHANGED <<running, slot, phase, pending>>
    BY <1>2 DEF Submit
  <2> QED
    BY <1>1, <1>c, <2>1, <2>2 DEF OpenSlot
<1>3. ASSUME NEW m \in txNet, OnTx(m) PROVE Kept
  <2>1. e \in pool[k] \/ e[1] = AssignTransactionToSlot(Genesis, now)
    BY <1>a, <1>3 DEF OnTx, Add, TypeOK
  <2>2. UNCHANGED <<running, slot, phase, pending>>
    BY <1>3 DEF OnTx
  <2> QED
    BY <1>1, <1>c, <2>1, <2>2 DEF OpenSlot
<1>4. ASSUME NEW m \in syncNet, OnMempoolSync(m) PROVE Kept
  <2>1. UNCHANGED <<running, slot, phase, pending>>
    BY <1>4 DEF OnMempoolSync
  <2>2. e \in pool[k] \/ (k = m.to /\ e[1] = slot[k] /\ pool' # pool)
    BY <1>a, <1>4 DEF OnMempoolSync, CarryForward, TypeOK
  <2>3. ResyncBeforeCleanUp
    <3>1. syncNet' # syncNet
      BY <1>4 DEF OnMempoolSync
    <3> QED
      BY <3>1 DEF vars
  <2>4. CASE k = m.to /\ e[1] = slot[k] /\ pool' # pool
    <3>1. phase[k] # "FINALIZE" \/ slot[k] \in pending[k]
      BY <1>4, <2>3, <2>4 DEF ResyncBeforeCleanUp
    <3> QED
      BY <1>b, <2>1, <2>4, <3>1 DEF OpenSlot
  <2> QED
    BY <1>c, <2>1, <2>2, <2>4 DEF OpenSlot
<1>5. ASSUME NEW n \in Nodes, StartSlotManager(n) PROVE Kept
  <2>1. pool' = pool /\ pending' = pending /\ ~running[n] /\ now \in Nat
    BY <1>a, <1>5 DEF StartSlotManager, TypeOK
  <2>2. CASE k = n
    <3>1. slot'[k] = WallSlot(Genesis, now) /\ phase'[k] = "COLLECT"
      BY <1>a, <1>5, <2>2 DEF StartSlotManager, TypeOK
    <3>2. now < Genesis + BaseDelta
      BY <2>1, SequencerAssumption, TimingAssumption DEF WaitsInSlot0
    <3>3. slot'[k] = 0
      BY <2>1, <3>1, <3>2, WallSlot0
    <3> QED
      BY <1>b, <3>1, <3>3 DEF OpenSlot
  <2>3. CASE k # n
    BY <1>a, <1>c, <1>5, <2>1, <2>3 DEF StartSlotManager, OpenSlot, TypeOK
  <2> QED
    BY <2>2, <2>3
<1>6. ASSUME NEW n \in Nodes, ToPropose(n) PROVE Kept
  <2>1. pending' = pending /\ slot' = slot
    BY <1>6 DEF ToPropose
  <2>2. e \in pool[k] \/ (k = n /\ e[1] = slot[k] + 1)
    BY <1>a, <1>6 DEF ToPropose, CarryForward, TypeOK
  <2>3. OpenSlot(k)' = OpenSlot(k) /\ (k = n => OpenSlot(k) = slot[k])
    BY <1>a, <1>6, <2>1 DEF ToPropose, Leaves, NextPhase, OpenSlot, TypeOK
  <2> QED
    BY <1>b, <1>c, <2>1, <2>2, <2>3
<1>7. ASSUME NEW n \in Nodes, FinalizeWinner(n) \/ FinalizeSkip(n) \/ FinalizeEmergency(n),
             k = n
      PROVE  Kept
  <2>1. phase[k] = "PROPOSE" /\ phase'[k] = "FINALIZE" /\ slot'[k] = slot[k]
    BY <1>a, <1>7 DEF FinalizeWinner, FinalizeSkip, FinalizeEmergency, Skip, Leaves, NextPhase, TypeOK
  <2>2. OpenSlot(k) = slot[k] /\ OpenSlot(k)' = slot[k] + 1
    BY <2>1 DEF OpenSlot
  <2>3. e \in pool[k] \/ e[1] = slot[k] + 1
    BY <1>a, <1>7 DEF FinalizeWinner, FinalizeSkip, FinalizeEmergency, Forget, Evict, CarriedPool,
                      CarryForward, TypeOK
  <2>4. /\ pending[k] \subseteq pending'[k]
        /\ slot[k] \in pending'[k] \/ e[1] # slot[k]
    BY <1>a, <1>7 DEF FinalizeWinner, FinalizeSkip, FinalizeEmergency, Forget, Evict, Bucket, TypeOK
  <2> QED
    BY <1>b, <2>2, <2>3, <2>4 DEF NothingStranded
<1>8. ASSUME NEW n \in Nodes, FinalizeWinner(n) \/ FinalizeSkip(n) \/ FinalizeEmergency(n),
             k # n
      PROVE  Kept
  <2>1. phase'[k] = phase[k] /\ slot'[k] = slot[k] /\ pending'[k] = pending[k]
    BY <1>a, <1>8 DEF FinalizeWinner, FinalizeSkip, FinalizeEmergency, Skip, Leaves, TypeOK
  <2>2. e \in pool[k]
    BY <1>a, <1>8 DEF FinalizeWinner, FinalizeSkip, FinalizeEmergency, Forget, TypeOK
  <2> QED
    BY <1>c, <2>1, <2>2 DEF OpenSlot
<1>9. ASSUME NEW n \in Nodes, NEW s \in pending[n], FinishFinalize(n, s) PROVE Kept
  <2>1. /\ UNCHANGED <<slot, phase>>
        /\ k # n => pending'[k] = pending[k]
        /\ k = n => pending'[k] = pending[k] \ {s}
    BY <1>a, <1>9 DEF FinishFinalize, TypeOK
  <2>2. e \in pool[k] /\ (k = n => e[1] # s)
    BY <1>a, <1>9 DEF FinishFinalize, Forget, Evict, Bucket, TypeOK
  <2>3. OpenSlot(k)' = OpenSlot(k)
    BY <2>1 DEF OpenSlot
  <2>4. e[1] >= OpenSlot(k) \/ e[1] \in pending[k]
    BY <2>2 DEF NothingStranded
  <2> QED
    BY <2>1, <2>2, <2>3, <2>4
<1>10. ASSUME NEW n \in Nodes, ToFreeze(n) \/ ToSync(n) \/ ToCollect(n) PROVE Kept
  <2>1. pool' = pool /\ pending' = pending
    BY <1>10 DEF ToFreeze, ToSync, ToCollect
  <2>2. OpenSlot(k)' = OpenSlot(k)
    <3>1. CASE ToFreeze(n) \/ ToSync(n)
      BY <1>a, <3>1 DEF ToFreeze, ToSync, Leaves, NextPhase, OpenSlot, TypeOK
    <3>2. CASE ToCollect(n)
      BY <1>a, <3>2 DEF ToCollect, Leaves, NextPhase, OpenSlot, TypeOK
    <3> QED
      BY <1>10, <3>1, <3>2
  <2> QED
    BY <1>c, <2>1, <2>2
<1>11. CASE \/ \E m \in digestNet : OnDigest(m)
            \/ \E m \in batchNet : OnBatch(m)
            \/ \E m \in batchNet : OnLateBatch(m)
            \/ Tick \/ Horizon \/ UNCHANGED vars
  BY <1>c, <1>11 DEF OnDigest, OnBatch, OnLateBatch, Tick, Horizon, vars, OpenSlot
<1> QED
  BY <1>2, <1>3, <1>4, <1>5, <1>6, <1>7, <1>8, <1>9, <1>10, <1>11 DEF Next

\* Arrivals, carries and evictions agree on which slots are over, however late a
\* message or a timer is: no transaction waits in a bucket that is not looked at
\* again.  Asked for are nodes that start before the end of slot 0 (what reaches
\* one that is later waits in the buckets of the slots it missed), and resyncs
\* that are merged before the clean-up of the slot.
THEOREM NoTxStranded ==
  ASSUME LastStart < Genesis + BaseDelta
  PROVE  Spec /\ [][ResyncBeforeCleanUp]_vars => []NoStrandedTx
<1>1. Init => WaitsInSlot0 /\ NothingStranded
  <2> SUFFICES ASSUME Init PROVE WaitsInSlot0 /\ NothingStranded
    OBVIOUS
  <2>1. 0 < Genesis + BaseDelta /\ now = 0 /\ 0 <= LastStart
    BY SequencerAssumption, TimingAssumption DEF Init
  <2>2. WallSlot(Genesis, 0) = 0
    BY <2>1, WallSlot0
  <2> QED
    BY <2>1, <2>2 DEF Init, WaitsInSlot0, NothingStranded
<1>2. Books /\ WaitsInSlot0 /\ [Next]_vars => WaitsInSlot0'
  BY WaitsInSlot0Inductive DEF Books
<1>3. Books /\ Books' /\ WaitsInSlot0 /\ NothingStranded /\ [Next]_vars
        /\ [ResyncBeforeCleanUp]_vars => NothingStranded'
  BY NothingStrandedInductive
<1>4. NothingStranded => NoStrandedTx
  BY DEF NothingStranded, NoStrandedTx
<1> QED
  BY <1>1, <1>2, <1>3, <1>4, BooksCorrect, PTL DEF Spec
===============================================================================
