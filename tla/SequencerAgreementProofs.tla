------------------------ MODULE SequencerAgreementProofs ------------------------
(* Proofs about what the nodes of Sequencer have in common when messages have    *)
(* the time they need (DigestsInTime, ProposalsInTime): the common subset, the   *)
(* batches they finalise, and that nothing is kept of past slots.  When the      *)
(* timetable gives them that time: on numbers that fit, up to the first skip.    *)
(* That the network then implements Ledger: one list of transactions, each in it *)
(* once.  And that what a client was told is accepted is included by the slot    *)
(* promised.                                                                     *)
EXTENDS SequencerMempoolProofs

-------------------------------------------------------------------------------
\* What every node can rely on by itself, as in SequencerMempoolProofs, and that
\* a node that has not been started is in slot 0.
Ground == Books /\ WaitsInSlot0

\* Both hold in every reachable state.
LEMMA GroundCorrect == Spec => []Ground
<1>1. Init => WaitsInSlot0
  <2> SUFFICES ASSUME Init PROVE WaitsInSlot0
    OBVIOUS
  <2>1. 0 < Genesis + BaseDelta /\ now = 0 /\ 0 <= LastStart
    BY SequencerAssumption, TimingAssumption DEF Init
  <2>2. WallSlot(Genesis, 0) = 0
    BY <2>1, WallSlot0
  <2> QED
    BY <2>1, <2>2 DEF Init, WaitsInSlot0
<1>2. Books /\ WaitsInSlot0 /\ [Next]_vars => WaitsInSlot0'
  BY WaitsInSlot0Inductive DEF Books
<1> QED
  BY <1>1, <1>2, BooksCorrect, PTL DEF Spec, Ground

\* The hypotheses speak of every step: nobody changes phase in a stuttering one.
LEMMA TimelyAlways ==
  /\ [DigestsTimely]_vars => DigestsTimely
  /\ [ProposalsTimely]_vars => ProposalsTimely
<1> USE DEF vars, clockVars, nets
<1>1. UNCHANGED vars => DigestsTimely
  BY DEF DigestsTimely, Enters
<1>2. UNCHANGED vars => ProposalsTimely
  BY DEF ProposalsTimely, Enters, OnLateBatch
<1> QED
  BY <1>1, <1>2

\* A node never opens a slot again, and goes to PROPOSE from SYNC, from there to
\* FINALIZE.
LEMMA OpenGrows ==
  ASSUME Ground, [Next]_vars, NEW k \in Nodes
  PROVE  /\ OpenSlot(k) \in Nat /\ OpenSlot(k)' \in Nat /\ OpenSlot(k)' >= OpenSlot(k)
         /\ phase'[k] = "PROPOSE" => slot'[k] = slot[k] /\ phase[k] \in {"SYNC", "PROPOSE"}
<1>a. TypeOK /\ WaitsInCollect /\ WaitsInSlot0
  BY DEF Ground, Books
<1>b. TypeOK'
  BY <1>a, TypeInductive
<1>c. OpenSlot(k) \in Nat /\ OpenSlot(k)' \in Nat
  BY <1>a, <1>b DEF OpenSlot, TypeOK
<1>d. slot[k] \in Nat /\ phase[k] \in Phases
  BY <1>a DEF TypeOK
<1> DEFINE Goal == /\ OpenSlot(k)' >= OpenSlot(k)
                   /\ phase'[k] = "PROPOSE" => slot'[k] = slot[k] /\ phase[k] \in {"SYNC", "PROPOSE"}
<1>1. ASSUME slot'[k] = slot[k], phase'[k] = phase[k] PROVE Goal
  BY <1>1, <1>c DEF OpenSlot
<1>2. ASSUME NEW n \in Nodes, StartSlotManager(n) PROVE Goal
  <2>1. CASE n = k
    <3>1. OpenSlot(k) = 0 /\ phase'[k] = "COLLECT"
      BY <1>2, <1>a, <2>1 DEF StartSlotManager, WaitsInCollect, WaitsInSlot0, OpenSlot, TypeOK
    <3> QED
      BY <3>1, <1>c
  <2>2. CASE n # k
    BY <1>1, <1>2, <1>a, <2>2 DEF StartSlotManager, TypeOK
  <2> QED
    BY <2>1, <2>2
<1>3. ASSUME NEW n \in Nodes, Proceeds(n) PROVE Goal
  BY <1>3, <1>a, <1>d DEF Proceeds, NextPhase, OpenSlot, TypeOK
<1>4. ASSUME NEW n \in Nodes, ToCollect(n) PROVE Goal
  BY <1>4, <1>a, <1>d DEF ToCollect, Leaves, NextPhase, OpenSlot, TypeOK
<1>5. ASSUME NEW n \in Nodes, NEW b, Finalises(n, b) PROVE Goal
  BY <1>5, <1>a, <1>d DEF Finalises, OpenSlot, TypeOK
<1>6. Goal
  BY <1>1, <1>2, <1>3, <1>4, <1>5, <1>a, BookSteps
<1> QED
  BY <1>6, <1>c

-------------------------------------------------------------------------------
\* Digests.

\* A step drops digests of finalised slots, delivers one, or publishes one.
LEMMA DigestChanges ==
  ASSUME TypeOK, UniqueDigests, PendingOver, [Next]_vars
  PROVE  \/ /\ digestNet' = digestNet
            /\ \A k \in Nodes :
                 /\ digests'[k] \subseteq digests[k]
                 /\ \A d \in digests[k] : d \in digests'[k] \/ d.slot < OpenSlot(k)'
         \/ \E m \in digestNet :
              /\ digestNet' = digestNet \ {m}
              /\ digests' = [digests EXCEPT ![m.to] = @ \cup {m.body}]
              /\ UNCHANGED <<slot, phase>>
         \/ \E n \in Nodes : ToSync(n)
<1> DEFINE Dropped ==
             /\ digestNet' = digestNet
             /\ \A k \in Nodes :
                  /\ digests'[k] \subseteq digests[k]
                  /\ \A d \in digests[k] : d \in digests'[k] \/ d.slot < OpenSlot(k)'
<1> USE DEF clockVars, nets
<1>1. ASSUME digests' = digests /\ digestNet' = digestNet PROVE Dropped
  BY <1>1
<1>2. ASSUME \/ \E n \in Nodes, tx \in Txs : Submit(n, tx)
             \/ \E m \in txNet : OnTx(m)
             \/ \E m \in batchNet : OnBatch(m)
             \/ \E m \in batchNet : OnLateBatch(m)
             \/ \E m \in syncNet : OnMempoolSync(m)
             \/ \E n \in Nodes : \/ StartSlotManager(n) \/ ToFreeze(n) \/ ToPropose(n)
                                 \/ FinalizeEmergency(n) \/ ToCollect(n)
             \/ Tick
             \/ Horizon
             \/ UNCHANGED vars
      PROVE  Dropped
  BY <1>1, <1>2 DEF Submit, OnTx, OnBatch, OnLateBatch, OnMempoolSync, StartSlotManager,
              ToFreeze, ToPropose, FinalizeEmergency, ToCollect, Tick, Horizon, vars
<1>3. ASSUME NEW n \in Nodes, NEW s, NEW P, Forget(n, s, P), digestNet' = digestNet,
             s < OpenSlot(n)'
      PROVE  Dropped
  <2>1. ASSUME NEW k \in Nodes
        PROVE  /\ digests'[k] \subseteq digests[k]
               /\ \A d \in digests[k] : d \in digests'[k] \/ d.slot < OpenSlot(k)'
    <3>1. CASE k = n
      <4>1. digests'[k] = digests[k] \ {d \in digests[k] : d.slot = s}
        BY <1>3, <3>1 DEF Forget, ClearSlot, DigestsOf, TypeOK
      <4> QED
        BY <1>3, <3>1, <4>1
    <3>2. CASE k # n
      BY <1>3, <3>2 DEF Forget, TypeOK
    <3> QED
      BY <3>1, <3>2
  <2> QED
    BY <1>3, <2>1
<1>4. ASSUME NEW n \in Nodes, FinalizeWinner(n) \/ FinalizeSkip(n) PROVE Dropped
  <2>1. /\ digestNet' = digestNet
        /\ \E P : Forget(n, slot[n], P)
        /\ phase'[n] = "FINALIZE" /\ slot'[n] = slot[n] /\ slot[n] \in Nat
    BY <1>4 DEF FinalizeWinner, FinalizeSkip, Skip, Leaves, NextPhase, TypeOK
  <2>2. slot[n] < OpenSlot(n)'
    BY <2>1 DEF OpenSlot
  <2> QED
    BY <1>3, <2>1, <2>2
<1>5. ASSUME NEW n \in Nodes, NEW s \in pending[n], FinishFinalize(n, s) PROVE Dropped
  <2>1. /\ digestNet' = digestNet /\ Forget(n, s, pool[n])
        /\ s < OpenSlot(n) /\ OpenSlot(n)' = OpenSlot(n)
    BY <1>5 DEF FinishFinalize, PendingOver, OpenSlot
  <2> QED
    BY <1>3, <2>1
<1>6. ASSUME NEW m \in digestNet, OnDigest(m)
      PROVE  /\ digestNet' = digestNet \ {m}
             /\ digests' = [digests EXCEPT ![m.to] = @ \cup {m.body}]
             /\ UNCHANGED <<slot, phase>>
  <2>1. m.to \in Nodes /\ m.body \in AllDigests
    <3>1. m.to \in Nodes
      BY DEF TypeOK, Messages
    <3>2. m.body \in AllDigests
      BY DEF AllDigests
    <3> QED
      BY <3>1, <3>2
  <2>2. digests[m.to] \subseteq AllDigests
    BY <2>1 DEF AllDigests
  <2>3. ReceiveDigest(digests[m.to], m.body) = digests[m.to] \cup {m.body}
    BY <2>1, <2>2, ReceiveAdds DEF UniqueDigests
  <2> QED
    BY <1>6, <2>1, <2>3 DEF OnDigest, TypeOK
<1> QED
  BY <1>2, <1>4, <1>5, <1>6 DEF Next

\* Digest d has reached node n, or is under way to it.
DigestReaches(n, d) == d \in digests[n] \/ \E m \in digestNet : m.to = n /\ m.body = d

\* Every digest gets to every node that has its slot open, and has got to those
\* that are in PROPOSE.
DigestsSpread ==
  \A n \in Nodes : \A d \in AllDigests :
    /\ d.slot >= OpenSlot(n) => DigestReaches(n, d)
    /\ phase[n] = "PROPOSE" /\ d.slot = slot[n] => d \in digests[n]

\* A digest is published to all before anybody leaves SYNC, and delivered before a node
\* leaves it.
LEMMA DigestsSpreadInductive ==
  ASSUME Ground, DigestsSpread, [Next]_vars, DigestsTimely
  PROVE  DigestsSpread'
<1>a. TypeOK /\ OneDigest
  BY DEF Ground, Books
<1> SUFFICES ASSUME NEW n \in Nodes, NEW d \in AllDigests'
             PROVE  /\ d.slot >= OpenSlot(n)' => DigestReaches(n, d)'
                    /\ phase'[n] = "PROPOSE" /\ d.slot = slot'[n] => d \in digests'[n]
  BY DEF DigestsSpread
<1>b. /\ OpenSlot(n) \in Nat /\ OpenSlot(n)' \in Nat /\ OpenSlot(n)' >= OpenSlot(n)
      /\ phase'[n] = "PROPOSE" => slot'[n] = slot[n] /\ phase[n] \in {"SYNC", "PROPOSE"}
  BY OpenGrows
<1>c. slot[n] \in Nat
  BY <1>a DEF TypeOK
\* A digest that was there before.
<1>1. ASSUME d \in AllDigests, d \in Digest,
             DigestReaches(n, d) /\ d.slot >= OpenSlot(n)' => DigestReaches(n, d)',
             d \in digests[n] /\ d.slot >= OpenSlot(n)' => d \in digests'[n]
      PROVE  /\ d.slot >= OpenSlot(n)' => DigestReaches(n, d)'
             /\ phase'[n] = "PROPOSE" /\ d.slot = slot'[n] => d \in digests'[n]
  <2>1. d.slot \in Nat
    BY <1>1 DEF Digest
  <2>2. d.slot >= OpenSlot(n)' => DigestReaches(n, d)'
    BY <1>1, <1>b, <2>1 DEF DigestsSpread
  <2>3. ASSUME phase'[n] = "PROPOSE", d.slot = slot'[n] PROVE d \in digests'[n]
    <3>1. d.slot = slot[n] /\ OpenSlot(n)' = slot[n]
      BY <1>b, <2>3 DEF OpenSlot
    <3>2. CASE phase[n] = "PROPOSE"
      BY <1>1, <1>c, <3>1, <3>2 DEF DigestsSpread
    <3>3. CASE phase[n] = "SYNC"
      <4>1. \A m \in digestNet : m.to = n => m.body.slot # slot[n]
        BY <2>3, <3>3 DEF DigestsTimely, Enters
      <4>2. DigestReaches(n, d)
        BY <1>1, <1>c, <3>1, <3>3 DEF DigestsSpread, OpenSlot
      <4>3. d \in digests[n]
        BY <3>1, <4>1, <4>2 DEF DigestReaches
      <4> QED
        BY <1>1, <1>c, <3>1, <4>3
    <3> QED
      BY <1>b, <2>3, <3>2, <3>3
  <2> QED
    BY <2>2, <2>3
<1>2. CASE /\ digestNet' = digestNet
           /\ \A k \in Nodes :
                /\ digests'[k] \subseteq digests[k]
                /\ \A e \in digests[k] : e \in digests'[k] \/ e.slot < OpenSlot(k)'
  <2>1. d \in AllDigests
    BY <1>2 DEF AllDigests
  <2>2. d \in Digest /\ d.slot \in Nat
    BY <1>a, <2>1, DigestsTyped DEF Digest
  <2>3. d \in digests[n] /\ d.slot >= OpenSlot(n)' => d \in digests'[n]
    BY <1>2, <1>b, <2>2
  <2>4. DigestReaches(n, d) /\ d.slot >= OpenSlot(n)' => DigestReaches(n, d)'
    BY <1>2, <2>3 DEF DigestReaches
  <2> QED
    BY <1>1, <2>1, <2>2, <2>3, <2>4
<1>3. ASSUME NEW m \in digestNet,
             digestNet' = digestNet \ {m},
             digests' = [digests EXCEPT ![m.to] = @ \cup {m.body}]
      PROVE  /\ d.slot >= OpenSlot(n)' => DigestReaches(n, d)'
             /\ phase'[n] = "PROPOSE" /\ d.slot = slot'[n] => d \in digests'[n]
  <2>1. \A k \in Nodes : digests[k] \subseteq digests'[k] /\ digests'[k] \subseteq digests[k] \cup {m.body}
    BY <1>3, <1>a DEF TypeOK
  <2>2. d \in AllDigests
    BY <1>3, <2>1 DEF AllDigests
  <2>3. m.to = n => m.body \in digests'[n]
    BY <1>3, <1>a DEF TypeOK
  <2>4. DigestReaches(n, d) => DigestReaches(n, d)'
    BY <1>3, <2>1, <2>3 DEF DigestReaches
  <2>5. d \in Digest
    BY <1>a, <2>2, DigestsTyped
  <2> QED
    BY <1>1, <2>1, <2>2, <2>4, <2>5
<1>4. ASSUME NEW k \in Nodes, ToSync(k)
      PROVE  /\ d.slot >= OpenSlot(n)' => DigestReaches(n, d)'
             /\ phase'[n] = "PROPOSE" /\ d.slot = slot'[n] => d \in digests'[n]
  <2>1. PICK c : /\ c.slot = slot[k]
                 /\ phase[k] = "FREEZE" /\ phase' = [phase EXCEPT ![k] = "SYNC"]
                 /\ slot' = slot
                 /\ digests' = [digests EXCEPT ![k] = @ \cup {c}]
                 /\ digestNet' = digestNet \cup Publish(k, c)
    BY <1>4, <1>a, SyncAdds, SyncFresh
  <2>2. \A j \in Nodes : digests[j] \subseteq digests'[j] /\ digests'[j] \subseteq digests[j] \cup {c}
    BY <2>1, <1>a DEF TypeOK
  <2>3. \A m \in digestNet' : m \in digestNet \/ m.body = c
    BY <2>1 DEF Publish
  <2>4. d \in AllDigests \/ d = c
    <3>1. CASE \E j \in Nodes : d \in digests'[j]
      BY <2>2, <3>1 DEF AllDigests
    <3>2. CASE \E m \in digestNet' : d = m.body
      BY <2>3, <3>2 DEF AllDigests
    <3> QED
      BY <3>1, <3>2 DEF AllDigests
  <2>5. CASE d \in AllDigests
    <3>1. d \in Digest
      BY <1>a, <2>5, DigestsTyped
    <3>2. DigestReaches(n, d) => DigestReaches(n, d)'
      BY <2>1, <2>2 DEF DigestReaches
    <3> QED
      BY <1>1, <2>2, <2>5, <3>1, <3>2
  <2>6. CASE d = c
    <3>1. CASE n = k
      BY <2>1, <2>6, <3>1, <1>a DEF DigestReaches, TypeOK
    <3>2. CASE n # k
      <4>1. [body |-> c, from |-> k, to |-> n, at |-> now] \in digestNet'
        BY <2>1, <3>2 DEF Publish
      <4>2. DigestReaches(n, c)'
        BY <4>1 DEF DigestReaches
      <4>3. ~(phase'[n] = "PROPOSE" /\ c.slot = slot'[n])
        <5>1. ~LeftSync(n, slot[k])
          BY <2>1, <1>a DEF DigestsTimely, Enters, TypeOK
        <5> QED
          BY <2>1, <3>2, <5>1, <1>a DEF LeftSync, TypeOK
      <4> QED
        BY <2>6, <4>2, <4>3
    <3> QED
      BY <3>1, <3>2
  <2> QED
    BY <2>4, <2>5, <2>6
<1> QED
  BY <1>2, <1>3, <1>4, DigestChanges DEF Ground, Books, OneDigest

\* Nodes that are between SYNC and FINALIZE of a slot have the same digests of
\* it, and so the same common subset.
LEMMA SameDigests ==
  ASSUME DigestsSpread, NEW n \in Nodes, NEW m \in Nodes,
         phase[n] = "PROPOSE", phase[m] = "PROPOSE", slot[n] = slot[m]
  PROVE  /\ DigestsOf(digests[n], slot[n]) = DigestsOf(digests[m], slot[m])
         /\ Common(n) = Common(m)
<1>1. digests[n] \subseteq AllDigests /\ digests[m] \subseteq AllDigests
  BY DEF AllDigests
<1>2. DigestsOf(digests[n], slot[n]) = DigestsOf(digests[m], slot[m])
  BY <1>1 DEF DigestsSpread, DigestsOf
<1> QED
  BY <1>2 DEF Common, CommonSubset, TxCount

\* If every node leaves SYNC with the digests that were published for the slot and
\* none is published after that, all nodes compute the same common subset, whatever
\* the mempools, the skips and the starts of the nodes are.
THEOREM CommonSubsetCorrect == Spec /\ DigestsInTime => []CommonSubsetAgreement
<1>1. Init => DigestsSpread
  BY DEF Init, DigestsSpread, AllDigests
<1>2. Ground /\ DigestsSpread /\ [Next]_vars /\ [DigestsTimely]_vars => DigestsSpread'
  BY DigestsSpreadInductive, TimelyAlways
<1>3. DigestsSpread => CommonSubsetAgreement
  BY SameDigests DEF CommonSubsetAgreement
<1> QED
  BY <1>1, <1>2, <1>3, GroundCorrect, PTL DEF Spec, DigestsInTime

-------------------------------------------------------------------------------
\* Proposals.

AllBatches == (UNION {proposals[n] : n \in Nodes}) \cup {m.body : m \in batchNet}

\* Proposal p has reached node n, or is under way to it.
BatchReaches(n, p) == p \in proposals[n] \/ \E m \in batchNet : m.to = n /\ m.body = p

\* A proposal is its fields.
Shaped(p) ==
  p = [slot |-> p.slot, proposer |-> p.proposer, randomness |-> p.randomness,
       vrfProof |-> p.vrfProof, txs |-> p.txs, root |-> p.root]

\* Every proposal gets to every node that has its slot open.
BatchesSpread ==
  \A p \in AllBatches :
    /\ Shaped(p)
    /\ \A n \in Nodes : p.slot >= OpenSlot(n) => BatchReaches(n, p)

\* A proposal, wherever it is, is of a slot and by a node.
LEMMA BatchesTyped ==
  ASSUME TypeOK, NEW p \in AllBatches
  PROVE  p.slot \in Nat /\ p.proposer \in Nodes
BY DEF TypeOK, AllBatches, WellFormed

\* The proposal of a node that has the payloads.
LEMMA ProposeAdds ==
  ASSUME TypeOK, NEW n \in Nodes, ToPropose(n)
  PROVE  /\ phase[n] = "SYNC" /\ phase' = [phase EXCEPT ![n] = "PROPOSE"]
         /\ UNCHANGED <<slot, history>>
         /\ \/ UNCHANGED <<proposals, batchNet>>
            \/ \E p : /\ Shaped(p) /\ p.slot = slot[n] /\ p.proposer = n
                      /\ proposals' = [proposals EXCEPT ![n] = @ \cup {p}]
                      /\ batchNet' = batchNet \cup Publish(n, p)
<1> DEFINE p == Build(slot[n], n, Prove(n, SeedOf(n)), Common(n))
<1>1. Shaped(p) /\ p.slot = slot[n] /\ p.proposer = n
  BY DEF Build, Shaped
<1> HIDE DEF p
<1>2. \/ UNCHANGED <<proposals, batchNet>>
      \/ /\ proposals' = [proposals EXCEPT ![n] = @ \cup {p}]
         /\ batchNet' = batchNet \cup Publish(n, p)
  BY DEF ToPropose, p
<1>3. /\ phase[n] = "SYNC" /\ phase' = [phase EXCEPT ![n] = "PROPOSE"]
      /\ UNCHANGED <<slot, history>>
  BY DEF ToPropose, Leaves, NextPhase
<1> QED
  BY <1>1, <1>2, <1>3

\* A step drops proposals of finalised slots, delivers one or finds it late, or
\* publishes one.
LEMMA BatchChanges ==
  ASSUME TypeOK, PendingOver, [Next]_vars
  PROVE  \/ /\ batchNet' = batchNet
            /\ \A k \in Nodes :
                 /\ proposals'[k] \subseteq proposals[k]
                 /\ \A p \in proposals[k] : p \in proposals'[k] \/ p.slot < OpenSlot(k)'
         \/ \E m \in batchNet :
              /\ batchNet' = batchNet \ {m}
              /\ proposals' = [proposals EXCEPT ![m.to] = @ \cup {m.body}]
         \/ \E m \in batchNet : OnLateBatch(m)
         \/ \E n \in Nodes : ToPropose(n)
<1> DEFINE Dropped ==
             /\ batchNet' = batchNet
             /\ \A k \in Nodes :
                  /\ proposals'[k] \subseteq proposals[k]
                  /\ \A p \in proposals[k] : p \in proposals'[k] \/ p.slot < OpenSlot(k)'
<1> USE DEF clockVars, nets
<1>1. ASSUME proposals' = proposals /\ batchNet' = batchNet PROVE Dropped
  BY <1>1
<1>2. ASSUME \/ \E n \in Nodes, tx \in Txs : Submit(n, tx)
             \/ \E m \in txNet : OnTx(m)
             \/ \E m \in digestNet : OnDigest(m)
             \/ \E m \in syncNet : OnMempoolSync(m)
             \/ \E n \in Nodes : \/ StartSlotManager(n) \/ ToFreeze(n) \/ ToSync(n)
                                 \/ FinalizeEmergency(n) \/ ToCollect(n)
             \/ Tick
             \/ Horizon
             \/ UNCHANGED vars
      PROVE  Dropped
  BY <1>1, <1>2 DEF Submit, OnTx, OnDigest, OnMempoolSync, StartSlotManager,
              ToFreeze, ToSync, FinalizeEmergency, ToCollect, Tick, Horizon, vars
<1>3. ASSUME NEW n \in Nodes, NEW s, NEW P, Forget(n, s, P), batchNet' = batchNet,
             s < OpenSlot(n)'
      PROVE  Dropped
  <2>1. ASSUME NEW k \in Nodes
        PROVE  /\ proposals'[k] \subseteq proposals[k]
               /\ \A p \in proposals[k] : p \in proposals'[k] \/ p.slot < OpenSlot(k)'
    <3>1. CASE k = n
      <4>1. proposals'[k] = {p \in proposals[k] : p.slot # s}
        BY <1>3, <3>1 DEF Forget, TypeOK
      <4> QED
        BY <1>3, <3>1, <4>1
    <3>2. CASE k # n
      BY <1>3, <3>2 DEF Forget, TypeOK
    <3> QED
      BY <3>1, <3>2
  <2> QED
    BY <1>3, <2>1
<1>4. ASSUME NEW n \in Nodes, FinalizeWinner(n) \/ FinalizeSkip(n) PROVE Dropped
  <2>1. /\ batchNet' = batchNet
        /\ \E P : Forget(n, slot[n], P)
        /\ phase'[n] = "FINALIZE" /\ slot'[n] = slot[n] /\ slot[n] \in Nat
    BY <1>4 DEF FinalizeWinner, FinalizeSkip, Skip, Leaves, NextPhase, TypeOK
  <2>2. slot[n] < OpenSlot(n)'
    BY <2>1 DEF OpenSlot
  <2> QED
    BY <1>3, <2>1, <2>2
<1>5. ASSUME NEW n \in Nodes, NEW s \in pending[n], FinishFinalize(n, s) PROVE Dropped
  <2>1. /\ batchNet' = batchNet /\ Forget(n, s, pool[n])
        /\ s < OpenSlot(n) /\ OpenSlot(n)' = OpenSlot(n)
    BY <1>5 DEF FinishFinalize, PendingOver, OpenSlot
  <2> QED
    BY <1>3, <2>1
<1>6. ASSUME NEW m \in batchNet, OnBatch(m)
      PROVE  /\ batchNet' = batchNet \ {m}
             /\ proposals' = [proposals EXCEPT ![m.to] = @ \cup {m.body}]
  BY <1>6 DEF OnBatch
<1> QED
  BY <1>2, <1>4, <1>5, <1>6 DEF Next

\* Where the proposals of the next state come from, and that none is lost on a
\* node that has its slot open.
LEMMA BatchesKept ==
  ASSUME Ground, BatchesSpread, [Next]_vars, ProposalsTimely, NEW p \in AllBatches,
         NEW n \in Nodes, p.slot >= OpenSlot(n)'
  PROVE  BatchReaches(n, p)' /\ p \in AllBatches'
<1>a. TypeOK
  BY DEF Ground, Books
<1>b. /\ p.slot \in Nat /\ OpenSlot(n) \in Nat /\ OpenSlot(n)' \in Nat
      /\ OpenSlot(n)' >= OpenSlot(n)
  BY <1>a, OpenGrows, BatchesTyped
<1>1. BatchReaches(n, p)
  BY <1>b DEF BatchesSpread
<1>2. ASSUME batchNet' = batchNet,
             \A k \in Nodes :
                /\ proposals'[k] \subseteq proposals[k]
                /\ \A q \in proposals[k] : q \in proposals'[k] \/ q.slot < OpenSlot(k)'
      PROVE  BatchReaches(n, p)'
  <2>1. ~(p.slot < OpenSlot(n)')
    BY <1>b
  <2>2. p \in proposals[n] => p \in proposals'[n]
    BY <1>2, <2>1
  <2> QED
    BY <1>1, <1>2, <2>2 DEF BatchReaches
<1>3. ASSUME NEW m \in batchNet,
             batchNet' = batchNet \ {m},
             proposals' = [proposals EXCEPT ![m.to] = @ \cup {m.body}]
      PROVE  BatchReaches(n, p)'
  <2>1. proposals[n] \subseteq proposals'[n] /\ (m.to = n => m.body \in proposals'[n])
    BY <1>3, <1>a DEF TypeOK
  <2> QED
    BY <1>1, <1>3, <2>1 DEF BatchReaches
<1>4. ASSUME NEW k \in Nodes, ToPropose(k) PROVE BatchReaches(n, p)'
  <2>1. CASE UNCHANGED <<proposals, batchNet>>
    BY <1>1, <2>1 DEF BatchReaches
  <2>2. ASSUME NEW q,
               proposals' = [proposals EXCEPT ![k] = @ \cup {q}],
               batchNet' = batchNet \cup Publish(k, q)
        PROVE  BatchReaches(n, p)'
    <3>1. proposals[n] \subseteq proposals'[n] /\ batchNet \subseteq batchNet'
      BY <2>2, <1>a DEF TypeOK
    <3> QED
      BY <1>1, <3>1 DEF BatchReaches
  <2> QED
    BY <1>4, <1>a, <2>1, <2>2, ProposeAdds
<1>5. BatchReaches(n, p)'
  BY <1>2, <1>3, <1>4, BatchChanges DEF Ground, Books, ProposalsTimely
<1>6. p \in AllBatches'
  BY <1>5 DEF BatchReaches, AllBatches
<1> QED
  BY <1>5, <1>6

\* A proposal of the next state was there, or is published to all by a node that goes to
\* PROPOSE of its slot.
LEMMA BatchSources ==
  ASSUME Ground, [Next]_vars, ProposalsTimely, NEW p \in AllBatches'
  PROVE  \/ p \in AllBatches
         \/ /\ Shaped(p)
            /\ \A n \in Nodes : BatchReaches(n, p)'
            /\ \E k \in Nodes : Enters(k, "PROPOSE") /\ p.slot = slot[k] /\ UNCHANGED slot
<1>a. TypeOK
  BY DEF Ground, Books
<1>1. CASE /\ batchNet' = batchNet
           /\ \A k \in Nodes :
                /\ proposals'[k] \subseteq proposals[k]
                /\ \A q \in proposals[k] : q \in proposals'[k] \/ q.slot < OpenSlot(k)'
  BY <1>1 DEF AllBatches
<1>2. ASSUME NEW m \in batchNet,
             batchNet' = batchNet \ {m},
             proposals' = [proposals EXCEPT ![m.to] = @ \cup {m.body}]
      PROVE  p \in AllBatches
  <2>1. \A k \in Nodes : proposals'[k] \subseteq proposals[k] \cup {m.body}
    BY <1>2, <1>a DEF TypeOK
  <2> QED
    BY <1>2, <2>1 DEF AllBatches
<1>3. ASSUME NEW k \in Nodes, ToPropose(k), p \notin AllBatches
      PROVE  /\ Shaped(p)
             /\ \A n \in Nodes : BatchReaches(n, p)'
             /\ Enters(k, "PROPOSE") /\ p.slot = slot[k] /\ UNCHANGED slot
  <2>0. ~UNCHANGED <<proposals, batchNet>>
    BY <1>3 DEF AllBatches
  <2>1. phase[k] = "SYNC" /\ phase'[k] = "PROPOSE" /\ UNCHANGED slot
    BY <1>3, <1>a, ProposeAdds DEF TypeOK
  <2>2. PICK q : /\ Shaped(q) /\ q.slot = slot[k]
                 /\ proposals' = [proposals EXCEPT ![k] = @ \cup {q}]
                 /\ batchNet' = batchNet \cup Publish(k, q)
    BY <1>3, <1>a, <2>0, ProposeAdds
  <2>3. \A j \in Nodes : proposals'[j] \subseteq proposals[j] \cup {q}
    BY <2>2, <1>a DEF TypeOK
  <2>4. \A m \in batchNet' : m \in batchNet \/ m.body = q
    BY <2>2 DEF Publish
  <2>5. p = q
    <3>1. CASE \E j \in Nodes : p \in proposals'[j]
      BY <1>3, <2>3, <3>1 DEF AllBatches
    <3>2. CASE \E m \in batchNet' : p = m.body
      BY <1>3, <2>4, <3>2 DEF AllBatches
    <3> QED
      BY <3>1, <3>2 DEF AllBatches
  <2>6. ASSUME NEW n \in Nodes PROVE BatchReaches(n, q)'
    <3>1. CASE n = k
      BY <2>2, <3>1, <1>a DEF BatchReaches, TypeOK
    <3>2. CASE n # k
      <4>1. [body |-> q, from |-> k, to |-> n, at |-> now] \in batchNet'
        BY <2>2, <3>2 DEF Publish
      <4> QED
        BY <4>1 DEF BatchReaches
    <3> QED
      BY <3>1, <3>2
  <2> QED
    BY <2>1, <2>2, <2>5, <2>6 DEF Enters
<1> QED
  BY <1>1, <1>2, <1>3, BatchChanges DEF Ground, Books, ProposalsTimely

\* No proposal is lost on its way to a node that has its slot open.
LEMMA BatchesSpreadInductive ==
  ASSUME Ground, BatchesSpread, [Next]_vars, ProposalsTimely
  PROVE  BatchesSpread'
<1> SUFFICES ASSUME NEW p \in AllBatches'
             PROVE  /\ Shaped(p)
                    /\ \A n \in Nodes : p.slot >= OpenSlot(n)' => BatchReaches(n, p)'
  BY DEF BatchesSpread
<1>1. CASE p \in AllBatches
  BY <1>1, BatchesKept DEF BatchesSpread
<1>2. CASE p \notin AllBatches
  BY <1>2, BatchSources
<1> QED
  BY <1>1, <1>2

-------------------------------------------------------------------------------
\* Histories.

\* A node has finalised every slot from 0 on that it does not have open.
FromZero == \A n \in Nodes : DOMAIN history[n] = 0 .. OpenSlot(n) - 1

\* Nodes that all start in slot 0 leave no slot out.
LEMMA FromZeroInductive ==
  ASSUME Ground, FromZero, LastStart < Genesis + BaseDelta, [Next]_vars
  PROVE  FromZero'
<1>a. TypeOK /\ WaitsInCollect /\ WaitsInSlot0
  BY DEF Ground, Books
<1> SUFFICES ASSUME NEW k \in Nodes PROVE DOMAIN history'[k] = 0 .. OpenSlot(k)' - 1
  BY DEF FromZero
<1> DEFINE Goal == DOMAIN history'[k] = 0 .. OpenSlot(k)' - 1
<1>b. slot[k] \in Nat /\ phase[k] \in Phases
  BY <1>a DEF TypeOK
<1>1. ASSUME history'[k] = history[k], OpenSlot(k)' = OpenSlot(k) PROVE Goal
  BY <1>1 DEF FromZero
<1>2. CASE UNCHANGED <<running, slot, phase, skips, history, stateRoot>>
  BY <1>1, <1>2 DEF OpenSlot
<1>3. ASSUME NEW n \in Nodes, StartSlotManager(n) PROVE Goal
  <2>1. CASE n = k
    <3>1. now \in Nat /\ now < Genesis + BaseDelta
      <4>1. now \in Nat /\ now <= LastStart
        BY <1>3, <1>a, <2>1 DEF StartSlotManager, WaitsInSlot0, TypeOK
      <4> QED
        BY <4>1, SequencerAssumption, TimingAssumption
    <3>2. WallSlot(Genesis, now) = 0
      BY <3>1, WallSlot0
    <3>3. OpenSlot(k) = 0 /\ OpenSlot(k)' = 0 /\ history' = history
      BY <1>3, <1>a, <2>1, <3>2 DEF StartSlotManager, WaitsInCollect, WaitsInSlot0, OpenSlot, TypeOK
    <3> QED
      BY <1>1, <3>3
  <2>2. CASE n # k
    BY <1>1, <1>3, <1>a, <2>2 DEF StartSlotManager, OpenSlot, TypeOK
  <2> QED
    BY <2>1, <2>2
<1>4. ASSUME NEW n \in Nodes, Proceeds(n) PROVE Goal
  <2>1. history' = history /\ OpenSlot(k)' = OpenSlot(k)
    BY <1>4, <1>a, <1>b DEF Proceeds, NextPhase, OpenSlot, TypeOK
  <2> QED
    BY <1>1, <2>1
<1>5. ASSUME NEW n \in Nodes, ToCollect(n) PROVE Goal
  <2>1. history' = history /\ OpenSlot(k)' = OpenSlot(k)
    BY <1>5, <1>a, <1>b DEF ToCollect, Leaves, NextPhase, OpenSlot, TypeOK
  <2> QED
    BY <1>1, <2>1
<1>6. ASSUME NEW n \in Nodes, NEW b, Finalises(n, b) PROVE Goal
  <2>1. CASE n = k
    <3>1. DOMAIN history'[k] = DOMAIN history[k] \cup {slot[k]}
      BY <1>6, <1>a, <2>1 DEF Finalises, Record, TypeOK
    <3>2. OpenSlot(k) = slot[k] /\ OpenSlot(k)' = slot[k] + 1
      BY <1>6, <1>a, <2>1 DEF Finalises, OpenSlot, TypeOK
    <3>3. DOMAIN history[k] = 0 .. slot[k] - 1
      BY <3>2 DEF FromZero
    <3> QED
      BY <1>b, <3>1, <3>2, <3>3
  <2>2. CASE n # k
    BY <1>1, <1>6, <1>a, <2>2 DEF Finalises, Record, OpenSlot, TypeOK
  <2> QED
    BY <2>1, <2>2
<1> QED
  BY <1>2, <1>3, <1>4, <1>5, <1>6, <1>a, BookSteps

\* Histories that are the same below slot s give s the same previous root.
LEMMA SamePrevRoot ==
  ASSUME NEW h, NEW g, NEW s \in Nat, DOMAIN h \subseteq Nat, DOMAIN g \subseteq Nat,
         \A i \in Nat : i < s => (i \in DOMAIN h <=> i \in DOMAIN g),
         \A i \in DOMAIN h \cap DOMAIN g : i < s => h[i] = g[i]
  PROVE  PrevRoot(h, s) = PrevRoot(g, s)
<1> DEFINE F(f) == {i \in DOMAIN f : i < s /\ f[i].root # EmptyRoot}
<1>1. F(g) = F(h)
  OBVIOUS
<1>2. CASE F(h) = {}
  BY <1>1, <1>2 DEF PrevRoot
<1>3. CASE F(h) # {}
  <2> DEFINE last == CHOOSE i \in F(h) : \A j \in F(h) : j <= i
  <2>1. PrevRoot(g, s) = g[last].root /\ PrevRoot(h, s) = h[last].root
    BY <1>1, <1>3 DEF PrevRoot
  <2>2. last \in F(h)
    <3>1. \E i \in F(h) : \A j \in F(h) : j <= i
      <4>1. F(h) \in SUBSET Nat /\ \A i \in F(h) : i <= s
        OBVIOUS
      <4> QED
        BY <1>3, <4>1, LastSlot
    <3> QED
      BY <3>1
  <2>3. h[last] = g[last]
    BY <1>1, <2>2
  <2> QED
    BY <2>1, <2>3
<1> QED
  BY <1>2, <1>3

-------------------------------------------------------------------------------
\* Decisions.

\* What FINALIZE makes of a set V of valid proposals of slot s.
IsDecision(b, s, V) ==
  \/ IsWinner(b, V)
  \/ V = {} /\ b = NullBatch(s)

\* The proposals of its slot that node n takes for valid, those under way to it
\* included.
ListenerChoices(n) == {p \in AllBatches : ValidProposal(p, slot[n], SeedOf(n), Common(n))}

\* The VRF outputs of the registry's nodes are numbers.
OutputsAreNumbers ==
  \A n \in Nodes, s \in Nat : \A r :
    VrfOutput([key |-> n, seed |-> Seed(r, s)]) \in Int

\* One set of valid proposals has one winner: scores are numbers, ties are broken
\* by the id, and a proposer can only make one valid proposal.
LEMMA OneDecision ==
  ASSUME OutputsAreNumbers, NEW s \in Nat, NEW r, NEW common, NEW V,
         \A p \in V : Shaped(p) /\ ValidProposal(p, s, Seed(r, s), common),
         NEW b, NEW c, IsDecision(b, s, V), IsDecision(c, s, V)
  PROVE  b = c
<1>1. CASE V = {}
  BY <1>1 DEF IsDecision, IsWinner
<1>2. CASE V # {}
  <2>1. b \in V /\ c \in V /\ Beats(b, c) /\ Beats(c, b)
    BY <1>2 DEF IsDecision, IsWinner
  <2>2. ASSUME NEW p \in V
        PROVE  /\ p.proposer \in Nodes /\ p.proposer \in Int
               /\ p.vrfProof = [key |-> p.proposer, seed |-> Seed(r, s)]
               /\ p.randomness = VrfOutput(p.vrfProof) /\ p.randomness \in Int
               /\ p.slot = s
               /\ p.txs = Order(common, p.randomness)
               /\ p.root = MerkleRoot(p.txs)
    <3>1. ValidProposal(p, s, Seed(r, s), common)
      OBVIOUS
    <3>2. /\ p.proposer \in Nodes /\ p.slot = s
          /\ p.vrfProof = [key |-> p.proposer, seed |-> Seed(r, s)]
          /\ p.randomness = VrfOutput(p.vrfProof)
          /\ p.root = MerkleRoot(p.txs)
          /\ TxSet(p) = common
          /\ p.txs = Order(TxSet(p), p.randomness)
      BY <3>1 DEF ValidProposal, Verify
    <3>3. p.randomness \in Int
      BY <3>2 DEF OutputsAreNumbers
    <3>4. p.proposer \in Int
      <4>1. Nodes \subseteq Int
        BY ConsensusAssumption
      <4> QED
        BY <3>2, <4>1
    <3> QED
      BY <3>2, <3>3, <3>4
  <2>3. b.randomness = c.randomness /\ b.proposer = c.proposer
    <3>1. /\ b.randomness \in Int /\ c.randomness \in Int
          /\ b.proposer \in Int /\ c.proposer \in Int
      BY <2>1, <2>2
    <3> QED
      BY <2>1, <3>1 DEF Beats
  <2>4. /\ b.slot = c.slot /\ b.vrfProof = c.vrfProof
        /\ b.txs = c.txs /\ b.root = c.root
    BY <2>1, <2>2, <2>3
  <2>5. Shaped(b) /\ Shaped(c)
    BY <2>1
  <2> QED
    BY <2>3, <2>4, <2>5 DEF Shaped
<1> QED
  BY <1>1, <1>2

\* Whoever has finalised a slot decided as those will that are still to do so.
Verdicts ==
  \A n, m \in Nodes :
    phase[m] = "PROPOSE" /\ slot[m] \in DOMAIN history[n]
      => IsDecision(history[n][slot[m]], slot[m], ListenerChoices(m))

Agreeing == DigestsSpread /\ BatchesSpread /\ FromZero /\ Verdicts /\ Agreement

\* Nodes that are about to finalise the same slot have the same choice.
LEMMA SameChoices ==
  ASSUME Ground, Agreeing, NEW n \in Nodes, NEW m \in Nodes,
         phase[n] = "PROPOSE", phase[m] = "PROPOSE", slot[n] = slot[m]
  PROVE  ListenerChoices(n) = ListenerChoices(m)
<1>a. TypeOK
  BY DEF Ground, Books
<1>b. slot[n] \in Nat
  BY <1>a DEF TypeOK
<1>1. Common(n) = Common(m)
  BY SameDigests DEF Agreeing
<1>2. PrevRoot(history[n], slot[n]) = PrevRoot(history[m], slot[n])
  <2>1. DOMAIN history[n] = 0 .. slot[n] - 1 /\ DOMAIN history[m] = 0 .. slot[n] - 1
    BY DEF Agreeing, FromZero, OpenSlot
  <2>2. \A i \in DOMAIN history[n] \cap DOMAIN history[m] : history[n][i] = history[m][i]
    BY DEF Agreeing, Agreement
  <2>3. DOMAIN history[n] \subseteq Nat /\ DOMAIN history[m] \subseteq Nat
    BY <1>a DEF TypeOK
  <2> QED
    BY <1>b, <2>1, <2>2, <2>3, SamePrevRoot
<1>3. SeedOf(n) = SeedOf(m)
  BY <1>2 DEF SeedOf
<1> QED
  BY <1>1, <1>3 DEF ListenerChoices

\* What the handler of FINALIZE chooses from.
LEMMA ValidIsChoices ==
  ASSUME Ground, BatchesSpread, NEW n \in Nodes, phase[n] = "PROPOSE",
         \A m \in batchNet : m.to = n => m.body.slot # slot[n]
  PROVE  Valid(n) = ListenerChoices(n)
<1>1. slot[n] \in Nat /\ OpenSlot(n) = slot[n]
  BY DEF Ground, Books, TypeOK, OpenSlot
<1>2. proposals[n] \subseteq AllBatches
  BY DEF AllBatches
<1>3. ASSUME NEW p \in AllBatches, p.slot = slot[n] PROVE p \in proposals[n]
  <2>1. BatchReaches(n, p)
    BY <1>1, <1>3 DEF BatchesSpread
  <2> QED
    BY <1>3, <2>1 DEF BatchReaches
<1>4. \A p : ValidProposal(p, slot[n], SeedOf(n), Common(n)) => p.slot = slot[n]
  BY DEF ValidProposal
<1> QED
  BY <1>2, <1>3, <1>4 DEF Valid, ListenerChoices

\* The digests of its slot do not change under a node that is in PROPOSE.
LEMMA VotesStable ==
  ASSUME Ground, DigestsSpread, [Next]_vars, NEW m \in Nodes,
         phase[m] = "PROPOSE", phase'[m] = "PROPOSE"
  PROVE  Common(m)' = Common(m)
<1>a. TypeOK /\ OneDigest
  BY DEF Ground, Books
<1>b. slot'[m] = slot[m] /\ OpenSlot(m)' = slot[m] /\ slot[m] \in Nat
  BY <1>a, OpenGrows DEF OpenSlot, TypeOK
<1>1. ASSUME digests'[m] \subseteq digests[m],
             \A d \in digests[m] : d \in digests'[m] \/ d.slot < OpenSlot(m)'
      PROVE  DigestsOf(digests'[m], slot[m]) = DigestsOf(digests[m], slot[m])
  BY <1>1, <1>b DEF DigestsOf
<1>2. ASSUME NEW e \in digestNet, digests' = [digests EXCEPT ![e.to] = @ \cup {e.body}]
      PROVE  DigestsOf(digests'[m], slot[m]) = DigestsOf(digests[m], slot[m])
  <2>1. digests'[m] = digests[m] \/ digests'[m] = digests[m] \cup {e.body}
    BY <1>2, <1>a DEF TypeOK
  <2>2. e.body.slot = slot[m] => e.body \in digests[m]
    BY <1>2 DEF DigestsSpread, AllDigests
  <2> QED
    BY <2>1, <2>2 DEF DigestsOf
<1>3. ASSUME NEW k \in Nodes, ToSync(k)
      PROVE  DigestsOf(digests'[m], slot[m]) = DigestsOf(digests[m], slot[m])
  <2>1. PICK c : /\ c.slot = slot[k]
                 /\ phase[k] = "FREEZE" /\ phase' = [phase EXCEPT ![k] = "SYNC"]
                 /\ digests' = [digests EXCEPT ![k] = @ \cup {c}]
    BY <1>3, <1>a, SyncAdds, SyncFresh
  <2>2. digests'[m] = digests[m]
    BY <2>1, <1>a DEF TypeOK
  <2> QED
    BY <2>2
<1>4. DigestsOf(digests'[m], slot[m]) = DigestsOf(digests[m], slot[m])
  BY <1>1, <1>2, <1>3, DigestChanges DEF Ground, Books, OneDigest
<1> QED
  BY <1>4, <1>b DEF Common, CommonSubset, TxCount

\* Nor do its choices, unless another node goes to PROPOSE of the same slot.
LEMMA ChoicesStable ==
  ASSUME Ground, Agreeing, [Next]_vars, ProposalsTimely, NEW m \in Nodes,
         phase[m] = "PROPOSE", phase'[m] = "PROPOSE",
         \A k \in Nodes : Enters(k, "PROPOSE") => slot[k] # slot[m]
  PROVE  ListenerChoices(m)' = ListenerChoices(m) /\ slot'[m] = slot[m]
<1>a. TypeOK
  BY DEF Ground, Books
<1>b. /\ slot'[m] = slot[m] /\ OpenSlot(m)' = slot[m] /\ slot[m] \in Nat
  BY <1>a, OpenGrows DEF OpenSlot, TypeOK
<1>1. Common(m)' = Common(m)
  BY VotesStable DEF Agreeing
<1>2. history'[m] = history[m]
  <2>1. ASSUME NEW n \in Nodes, NEW b, Finalises(n, b) PROVE history'[m] = history[m]
    BY <2>1, <1>a DEF Finalises, Record, TypeOK
  <2> QED
    BY <2>1, <1>a, BookSteps DEF StartSlotManager, Proceeds, ToCollect
<1>3. SeedOf(m)' = SeedOf(m)
  BY <1>2, <1>b DEF SeedOf
<1>4. ASSUME NEW p, p.slot = slot[m] PROVE p \in AllBatches' <=> p \in AllBatches
  <2>1. p \in AllBatches => p \in AllBatches'
    <3>1. p.slot >= OpenSlot(m)'
      BY <1>4, <1>b
    <3> QED
      BY <3>1, BatchesKept DEF Agreeing
  <2>2. ASSUME p \in AllBatches' PROVE p \in AllBatches
    BY <1>4, <2>2, BatchSources
  <2> QED
    BY <2>1, <2>2
<1>5. \A p : ValidProposal(p, slot[m], SeedOf(m), Common(m)) => p.slot = slot[m]
  BY DEF ValidProposal
<1>6. ListenerChoices(m)' = {p \in AllBatches' : ValidProposal(p, slot[m], SeedOf(m), Common(m))}
  BY <1>1, <1>3, <1>b DEF ListenerChoices
<1> QED
  BY <1>b, <1>4, <1>5, <1>6 DEF ListenerChoices

\* In a step that finalises, the handler has before it all there is to choose from.
LEMMA FinalisesChoice ==
  ASSUME Ground, BatchesSpread, ProposalsTimely, NEW n \in Nodes, NEW b, Finalises(n, b)
  PROVE  Valid(n) = ListenerChoices(n) /\ IsDecision(b, slot[n], ListenerChoices(n))
<1>1. phase[n] = "PROPOSE" /\ Enters(n, "FINALIZE")
  BY DEF Finalises, Enters, Ground, Books, TypeOK
<1>2. Valid(n) = ListenerChoices(n)
  BY <1>1, ValidIsChoices DEF ProposalsTimely
<1> QED
  BY <1>2 DEF Finalises, IsDecision

\* What a step leaves in the histories: what was there, and what is finalised.
LEMMA WhatIsFinal ==
  ASSUME TypeOK, [Next]_vars, NEW n \in Nodes, NEW s \in DOMAIN history'[n]
  PROVE  \/ s \in DOMAIN history[n] /\ history'[n][s] = history[n][s]
         \/ \E b : Finalises(n, b) /\ s = slot[n] /\ history'[n][s] = b
<1>1. ASSUME NEW k \in Nodes, NEW b, Finalises(k, b)
      PROVE  \/ s \in DOMAIN history[n] /\ history'[n][s] = history[n][s]
             \/ \E c : Finalises(n, c) /\ s = slot[n] /\ history'[n][s] = c
  <2>1. CASE k = n
    <3>1. history'[n] = [i \in DOMAIN history[n] \cup {slot[n]} |->
                           IF i = slot[n] THEN b ELSE history[n][i]]
      BY <1>1, <2>1 DEF Finalises, Record, TypeOK
    <3> QED
      BY <1>1, <2>1, <3>1
  <2>2. CASE k # n
    BY <1>1, <2>2 DEF Finalises, Record, TypeOK
  <2> QED
    BY <2>1, <2>2
<1> QED
  BY <1>1, BookSteps DEF StartSlotManager, Proceeds, ToCollect

\* Nobody changes what there is to choose from once somebody has chosen.
LEMMA VerdictsInductive ==
  ASSUME Ground, Agreeing, [Next]_vars, DigestsTimely, ProposalsTimely
  PROVE  Verdicts'
<1>a. TypeOK
  BY DEF Ground, Books
<1> SUFFICES ASSUME NEW n \in Nodes, NEW m \in Nodes,
                    phase'[m] = "PROPOSE", slot'[m] \in DOMAIN history'[n]
             PROVE  IsDecision(history'[n][slot'[m]], slot'[m], ListenerChoices(m)')
  BY DEF Verdicts
<1>b. /\ slot'[m] = slot[m] /\ phase[m] \in {"SYNC", "PROPOSE"}
      /\ slot[m] \in Nat
  BY <1>a, OpenGrows DEF TypeOK
<1>c. DOMAIN history[n] = 0 .. OpenSlot(n) - 1 /\ OpenSlot(n) \in Nat
  BY OpenGrows DEF Agreeing, FromZero
\* A slot that a node has just gone to PROPOSE in is nowhere finalised.
<1>1. CASE phase[m] = "SYNC"
  <2>1. Enters(m, "PROPOSE")
    BY <1>1 DEF Enters
  <2>2. OpenSlot(n) <= slot[m]
    BY <2>1 DEF ProposalsTimely
  <2>3. slot[m] \notin DOMAIN history[n]
    BY <1>b, <1>c, <2>2
  <2>4. PICK b : Finalises(n, b)
    BY <1>b, <2>3, WhatIsFinal DEF Ground, Books
  <2>5. phase[n] = "PROPOSE" /\ phase' = [phase EXCEPT ![n] = "FINALIZE"]
    BY <2>4 DEF Finalises
  <2> QED
    BY <1>1, <1>a, <2>5 DEF TypeOK
<1>2. CASE phase[m] = "PROPOSE"
  \* Nobody goes to PROPOSE of a slot that is finalised somewhere.
  <2>1. ASSUME slot[m] \in DOMAIN history[n] PROVE ListenerChoices(m)' = ListenerChoices(m)
    <3>1. OpenSlot(n) > slot[m]
      BY <1>b, <1>c, <2>1
    <3>2. \A k \in Nodes : Enters(k, "PROPOSE") => slot[k] # slot[m]
      BY <1>b, <1>c, <3>1 DEF ProposalsTimely
    <3> QED
      BY <1>2, <3>2, ChoicesStable
  <2>2. CASE slot[m] \in DOMAIN history[n] /\ history'[n][slot[m]] = history[n][slot[m]]
    BY <1>2, <1>b, <2>1, <2>2 DEF Agreeing, Verdicts
  <2>3. ASSUME NEW b, Finalises(n, b), slot[m] = slot[n], history'[n][slot[m]] = b
        PROVE  IsDecision(history'[n][slot'[m]], slot'[m], ListenerChoices(m)')
    <3>1. phase[n] = "PROPOSE" /\ phase' = [phase EXCEPT ![n] = "FINALIZE"]
      BY <2>3 DEF Finalises
    <3>2. \A k \in Nodes : ~Enters(k, "PROPOSE")
      BY <1>a, <3>1 DEF Enters, TypeOK
    <3>3. ListenerChoices(m)' = ListenerChoices(m)
      BY <1>2, <3>2, ChoicesStable
    <3>4. IsDecision(b, slot[n], ListenerChoices(n))
      BY <2>3, FinalisesChoice DEF Agreeing
    <3>5. ListenerChoices(n) = ListenerChoices(m)
      BY <1>2, <2>3, <3>1, SameChoices
    <3> QED
      BY <1>b, <2>3, <3>3, <3>4, <3>5
  <2> QED
    BY <1>b, <2>2, <2>3, WhatIsFinal DEF Ground, Books
<1> QED
  BY <1>b, <1>1, <1>2

\* Who finalises a slot later than others decides as they did.
LEMMA AgreementInductive ==
  ASSUME Ground, Agreeing, OutputsAreNumbers, [Next]_vars, ProposalsTimely
  PROVE  Agreement'
<1>a. TypeOK
  BY DEF Ground, Books
\* A node that finalises a slot decides as whoever has finalised it.
<1>1. ASSUME NEW n \in Nodes, NEW b, Finalises(n, b),
             NEW m \in Nodes, slot[n] \in DOMAIN history[m]
      PROVE  history[m][slot[n]] = b
  <2>1. phase[n] = "PROPOSE" /\ slot[n] \in Nat
    BY <1>1, <1>a DEF Finalises, TypeOK
  <2>2. IsDecision(history[m][slot[n]], slot[n], ListenerChoices(n))
    BY <1>1, <2>1 DEF Agreeing, Verdicts
  <2>3. IsDecision(b, slot[n], ListenerChoices(n))
    BY <1>1, FinalisesChoice DEF Agreeing
  <2> DEFINE r == PrevRoot(history[n], slot[n])
             c == history[m][slot[n]]
             V == ListenerChoices(n)
  <2>4. \A p \in V : Shaped(p) /\ ValidProposal(p, slot[n], Seed(r, slot[n]), Common(n))
    BY DEF ListenerChoices, SeedOf, Agreeing, BatchesSpread
  <2>5. IsDecision(b, slot[n], V) /\ IsDecision(c, slot[n], V)
    BY <2>2, <2>3
  <2> HIDE DEF r, c, V
  <2>6. c = b
    BY <2>1, <2>4, <2>5, OneDecision
  <2> QED
    BY <2>6 DEF c
<1>2. SUFFICES ASSUME NEW n \in Nodes, NEW m \in Nodes,
                      NEW s \in DOMAIN history'[n] \cap DOMAIN history'[m]
               PROVE  history'[n][s] = history'[m][s]
  BY DEF Agreement
<1>3. \/ s \in DOMAIN history[n] /\ history'[n][s] = history[n][s]
      \/ \E b : Finalises(n, b) /\ s = slot[n] /\ history'[n][s] = b
  BY WhatIsFinal DEF Ground, Books
<1>4. \/ s \in DOMAIN history[m] /\ history'[m][s] = history[m][s]
      \/ \E b : Finalises(m, b) /\ s = slot[m] /\ history'[m][s] = b
  BY WhatIsFinal DEF Ground, Books
<1>5. ASSUME NEW b, Finalises(n, b), NEW c, Finalises(m, c) PROVE n = m
  BY <1>5, <1>a DEF Finalises, TypeOK
<1>6. s \in DOMAIN history[n] \cap DOMAIN history[m] => history[n][s] = history[m][s]
  BY DEF Agreeing, Agreement
<1> QED
  BY <1>1, <1>3, <1>4, <1>5, <1>6

\* Nobody has decided anything to begin with.
LEMMA AgreeingInit ==
  ASSUME Init, LastStart < Genesis + BaseDelta
  PROVE  Agreeing
<1>1. WallSlot(Genesis, 0) = 0
  <2>1. 0 < Genesis + BaseDelta
    BY SequencerAssumption, TimingAssumption
  <2> QED
    BY <2>1, WallSlot0
<1>2. DigestsSpread /\ BatchesSpread
  BY DEF Init, DigestsSpread, AllDigests, BatchesSpread, AllBatches
<1>3. \A n \in Nodes : DOMAIN history[n] = {} /\ OpenSlot(n) = 0
  BY <1>1 DEF Init, OpenSlot
<1>4. FromZero
  <2>1. 0 .. 0 - 1 = {}
    OBVIOUS
  <2> QED
    BY <1>3, <2>1 DEF FromZero
<1>5. Verdicts /\ Agreement
  BY <1>3 DEF Verdicts, Agreement
<1> QED
  BY <1>2, <1>4, <1>5 DEF Agreeing

\* No step makes the nodes disagree.
LEMMA AgreeingInductive ==
  ASSUME LastStart < Genesis + BaseDelta, OutputsAreNumbers,
         Ground, Agreeing, [Next]_vars, DigestsTimely, ProposalsTimely
  PROVE  Agreeing'
<1>1. DigestsSpread' /\ BatchesSpread' /\ FromZero'
  BY DigestsSpreadInductive, BatchesSpreadInductive, FromZeroInductive DEF Agreeing
<1>2. Verdicts' /\ Agreement'
  BY VerdictsInductive, AgreementInductive
<1> QED
  BY <1>1, <1>2 DEF Agreeing

\* In a run in which the timetable gives digests and proposals their time, and whose
\* nodes have all started in slot 0, no two nodes finalise a slot differently.
THEOREM AgreementCorrect ==
  ASSUME LastStart < Genesis + BaseDelta, OutputsAreNumbers
  PROVE  Spec /\ DigestsInTime /\ ProposalsInTime => []Agreement
<1>1. Init => Agreeing
  BY AgreeingInit
<1>2. Ground /\ Agreeing /\ [Next]_vars /\ [DigestsTimely]_vars /\ [ProposalsTimely]_vars
        => Agreeing'
  BY AgreeingInductive, TimelyAlways
<1>3. Agreeing => Agreement
  BY DEF Agreeing
<1> QED
  BY <1>1, <1>2, <1>3, GroundCorrect, PTL DEF Spec, DigestsInTime, ProposalsInTime

-------------------------------------------------------------------------------
\* What is left behind.

\* A node that was up in slot 0 goes to the next slot by settling the one it has
\* open, and leaves SYNC of a slot by entering PROPOSE.
LEMMA OpenSteps ==
  ASSUME Ground, LastStart < Genesis + BaseDelta, [Next]_vars, NEW k \in Nodes
  PROVE  /\ \/ OpenSlot(k)' = OpenSlot(k)
            \/ /\ Enters(k, "FINALIZE")
               /\ OpenSlot(k) = slot[k] /\ OpenSlot(k)' = slot[k] + 1
         /\ \A s \in Nat : LeftSync(k, s)' =>
              LeftSync(k, s) \/ (Enters(k, "PROPOSE") /\ s = slot[k])
<1>a. TypeOK /\ WaitsInCollect /\ WaitsInSlot0
  BY DEF Ground, Books
<1>b. slot[k] \in Nat /\ phase[k] \in Phases
  BY <1>a DEF TypeOK
<1> DEFINE Goal == /\ \/ OpenSlot(k)' = OpenSlot(k)
                      \/ /\ Enters(k, "FINALIZE")
                         /\ OpenSlot(k) = slot[k] /\ OpenSlot(k)' = slot[k] + 1
                   /\ \A s \in Nat : LeftSync(k, s)' =>
                        LeftSync(k, s) \/ (Enters(k, "PROPOSE") /\ s = slot[k])
<1>1. ASSUME slot'[k] = slot[k], phase'[k] = phase[k] PROVE Goal
  BY <1>1 DEF OpenSlot, LeftSync
<1>2. ASSUME NEW n \in Nodes, StartSlotManager(n) PROVE Goal
  <2>1. CASE n = k
    <3>1. now \in Nat /\ now < Genesis + BaseDelta
      <4>1. now \in Nat /\ now <= LastStart
        BY <1>2, <1>a, <2>1 DEF StartSlotManager, WaitsInSlot0, TypeOK
      <4> QED
        BY <4>1, SequencerAssumption, TimingAssumption
    <3>2. WallSlot(Genesis, now) = 0
      BY <3>1, WallSlot0
    <3>3. slot'[k] = slot[k] /\ phase'[k] = phase[k]
      BY <1>2, <1>a, <2>1, <3>2 DEF StartSlotManager, WaitsInCollect, WaitsInSlot0, TypeOK
    <3> QED
      BY <1>1, <3>3
  <2>2. CASE n # k
    BY <1>1, <1>2, <1>a, <2>2 DEF StartSlotManager, TypeOK
  <2> QED
    BY <2>1, <2>2
<1>3. ASSUME NEW n \in Nodes, Proceeds(n) PROVE Goal
  <2>1. CASE n = k
    <3>1. slot'[k] = slot[k] /\ phase[k] \in {"COLLECT", "FREEZE", "SYNC"}
          /\ phase'[k] = NextPhase[phase[k]]
      BY <1>3, <1>a, <2>1 DEF Proceeds, TypeOK
    <3>2. OpenSlot(k)' = OpenSlot(k)
      BY <3>1 DEF OpenSlot, NextPhase
    <3>3. \A s \in Nat : LeftSync(k, s)' =>
            LeftSync(k, s) \/ (Enters(k, "PROPOSE") /\ s = slot[k])
      BY <3>1 DEF LeftSync, Enters, NextPhase
    <3> QED
      BY <3>2, <3>3
  <2>2. CASE n # k
    BY <1>1, <1>3, <1>a, <2>2 DEF Proceeds, TypeOK
  <2> QED
    BY <2>1, <2>2
<1>4. ASSUME NEW n \in Nodes, ToCollect(n) PROVE Goal
  <2>1. CASE n = k
    <3>1. phase[k] = "FINALIZE" /\ phase'[k] = "COLLECT" /\ slot'[k] = slot[k] + 1
      BY <1>4, <1>a, <2>1 DEF ToCollect, Leaves, NextPhase, TypeOK
    <3> QED
      BY <1>b, <3>1 DEF OpenSlot, LeftSync
  <2>2. CASE n # k
    BY <1>1, <1>4, <1>a, <2>2 DEF ToCollect, Leaves, TypeOK
  <2> QED
    BY <2>1, <2>2
<1>5. ASSUME NEW n \in Nodes, NEW b, Finalises(n, b) PROVE Goal
  <2>1. CASE n = k
    <3>1. phase[k] = "PROPOSE" /\ phase'[k] = "FINALIZE" /\ slot'[k] = slot[k]
      BY <1>5, <1>a, <2>1 DEF Finalises, TypeOK
    <3> QED
      BY <3>1 DEF OpenSlot, LeftSync, Enters
  <2>2. CASE n # k
    BY <1>1, <1>5, <1>a, <2>2 DEF Finalises, TypeOK
  <2> QED
    BY <2>1, <2>2
<1> QED
  BY <1>1, <1>2, <1>3, <1>4, <1>5, <1>a, BookSteps

\* Messages under way are for slots their receivers have not done with.
MessagesAhead ==
  /\ \A m \in digestNet : ~LeftSync(m.to, m.body.slot)
  /\ \A m \in batchNet  : m.body.slot >= OpenSlot(m.to)

\* Messages are delivered before their receivers have done with the slot.
LEMMA MessagesAheadInductive ==
  ASSUME Ground, MessagesAhead, LastStart < Genesis + BaseDelta, [Next]_vars,
         DigestsTimely, ProposalsTimely
  PROVE  MessagesAhead'
<1>a. TypeOK /\ OneDigest
  BY DEF Ground, Books
<1>1. ASSUME NEW m \in digestNet' PROVE ~LeftSync(m.to, m.body.slot)'
  <2>1. CASE m \in digestNet
    <3>1. m.to \in Nodes /\ m.body.slot \in Nat
      <4>1. m \in [body : Digest, from : Nodes, to : Nodes, at : Nat]
        BY <1>a, <2>1 DEF TypeOK, Messages
      <4> QED
        BY <4>1 DEF Digest
    <3>2. ~LeftSync(m.to, m.body.slot)
      BY <2>1 DEF MessagesAhead
    <3>3. ~(Enters(m.to, "PROPOSE") /\ m.body.slot = slot[m.to])
      BY <2>1, <3>1 DEF DigestsTimely
    <3> QED
      BY <3>1, <3>2, <3>3, OpenSteps
  <2>2. ASSUME NEW k \in Nodes, ToSync(k), m \notin digestNet PROVE ~LeftSync(m.to, m.body.slot)'
    <3>1. PICK c : /\ c.slot = slot[k]
                   /\ phase[k] = "FREEZE" /\ phase' = [phase EXCEPT ![k] = "SYNC"]
                   /\ slot' = slot
                   /\ digestNet' = digestNet \cup Publish(k, c)
      BY <2>2, <1>a, SyncAdds, SyncFresh
    <3>2. m.body = c /\ m.to \in Nodes \ {k}
      BY <2>2, <3>1 DEF Publish
    <3>3. ~LeftSync(m.to, slot[k])
      BY <3>1, <3>2, <1>a DEF DigestsTimely, Enters, TypeOK
    <3> QED
      BY <3>1, <3>2, <3>3, <1>a DEF LeftSync, TypeOK
  <2> QED
    BY <2>1, <2>2, DigestChanges DEF Ground, Books, OneDigest
<1>2. ASSUME NEW m \in batchNet' PROVE m.body.slot >= OpenSlot(m.to)'
  <2>1. CASE m \in batchNet
    <3>1. m.to \in Nodes /\ m.body.slot \in Nat
      BY <1>a, <2>1 DEF TypeOK, WellFormed
    <3>2. m.body.slot >= OpenSlot(m.to)
      BY <2>1 DEF MessagesAhead
    <3>3. Enters(m.to, "FINALIZE") => m.body.slot # slot[m.to]
      BY <2>1, <3>1 DEF ProposalsTimely
    <3>4. slot[m.to] \in Nat
      BY <3>1, <1>a DEF TypeOK
    <3> QED
      BY <3>1, <3>2, <3>3, <3>4, OpenSteps
  <2>2. ASSUME NEW k \in Nodes, ToPropose(k), m \notin batchNet
        PROVE  m.body.slot >= OpenSlot(m.to)'
    <3>0. ~UNCHANGED <<proposals, batchNet>>
      BY <2>2
    <3>1. /\ phase[k] = "SYNC" /\ phase' = [phase EXCEPT ![k] = "PROPOSE"]
          /\ UNCHANGED slot
      BY <2>2, <1>a, ProposeAdds
    <3>2. PICK q : /\ Shaped(q) /\ q.slot = slot[k]
                   /\ proposals' = [proposals EXCEPT ![k] = @ \cup {q}]
                   /\ batchNet' = batchNet \cup Publish(k, q)
      BY <2>2, <3>0, <1>a, ProposeAdds
    <3>3. m.body = q /\ m.to \in Nodes \ {k}
      BY <2>2, <3>2 DEF Publish
    <3>4. OpenSlot(m.to) <= slot[k] /\ OpenSlot(m.to)' = OpenSlot(m.to)
      BY <3>1, <3>3, <1>a DEF ProposalsTimely, Enters, OpenSlot, TypeOK
    <3> QED
      BY <3>2, <3>3, <3>4, OpenGrows, <1>a DEF TypeOK
  <2> QED
    BY <2>1, <2>2, BatchChanges DEF Ground, Books, ProposalsTimely
<1> QED
  BY <1>1, <1>2 DEF MessagesAhead

Tidy == MessagesAhead /\ NothingKeptOfPastSlots

\* A handler that finalises drops what it holds of its slot, now or after its await.
LEMMA NothingKeptInductive ==
  ASSUME Ground, MessagesAhead, NothingKeptOfPastSlots, LastStart < Genesis + BaseDelta,
         [Next]_vars, ProposalsTimely
  PROVE  NothingKeptOfPastSlots'
<1>a. TypeOK /\ OneDigest
  BY DEF Ground, Books
<1> SUFFICES ASSUME NEW k \in Nodes
             PROVE  /\ \A d \in digests'[k]   : d.slot >= OpenSlot(k)' \/ d.slot \in pending'[k]
                    /\ \A p \in proposals'[k] : p.slot >= OpenSlot(k)' \/ p.slot \in pending'[k]
  BY DEF NothingKeptOfPastSlots
<1> DEFINE Goal == /\ \A d \in digests'[k]   : d.slot >= OpenSlot(k)' \/ d.slot \in pending'[k]
                   /\ \A p \in proposals'[k] : p.slot >= OpenSlot(k)' \/ p.slot \in pending'[k]
<1>b. /\ \A d \in digests[k]   : d.slot \in Nat /\ (d.slot >= OpenSlot(k) \/ d.slot \in pending[k])
      /\ \A p \in proposals[k] : p.slot \in Nat /\ (p.slot >= OpenSlot(k) \/ p.slot \in pending[k])
      /\ slot[k] \in Nat
  <2>1. /\ \A d \in digests[k] : d.slot \in Nat
        /\ \A p \in proposals[k] : p.slot \in Nat
        /\ slot[k] \in Nat
    BY <1>a DEF TypeOK, Digest, WellFormed
  <2> QED
    BY <2>1 DEF NothingKeptOfPastSlots
<1>c. /\ OpenSlot(k) \in Nat /\ OpenSlot(k)' \in Nat
      /\ \/ OpenSlot(k)' = OpenSlot(k)
         \/ /\ Enters(k, "FINALIZE")
            /\ OpenSlot(k) = slot[k] /\ OpenSlot(k)' = slot[k] + 1
  BY OpenGrows, OpenSteps
\* What arrives, or is added, is of a slot that is not over.
<1>1. ASSUME \A d \in digests'[k] : d \in digests[k] \/ d.slot >= OpenSlot(k),
             \A p \in proposals'[k] : p \in proposals[k] \/ p.slot >= OpenSlot(k),
             pending'[k] = pending[k], OpenSlot(k)' = OpenSlot(k)
      PROVE  Goal
  BY <1>1, <1>b
<1>2. ASSUME digests'[k] = digests[k], proposals'[k] = proposals[k],
             pending'[k] = pending[k], ~Enters(k, "FINALIZE")
      PROVE  Goal
  BY <1>1, <1>2, <1>c
<1> USE DEF clockVars, nets
<1>3. ASSUME \/ \E n \in Nodes, tx \in Txs : Submit(n, tx)
             \/ \E m \in txNet : OnTx(m)
             \/ \E m \in batchNet : OnLateBatch(m)
             \/ \E m \in syncNet : OnMempoolSync(m)
             \/ \E n \in Nodes : StartSlotManager(n) \/ ToFreeze(n) \/ ToCollect(n)
             \/ Tick
             \/ Horizon
             \/ UNCHANGED vars
      PROVE  Goal
  <2>1. UNCHANGED <<digests, proposals, pending>>
    BY <1>3 DEF Submit, OnTx, OnLateBatch, OnMempoolSync, StartSlotManager, ToFreeze,
                ToCollect, Tick, Horizon, vars
  <2>2. ~Enters(k, "FINALIZE")
    BY <1>3, <1>a DEF Submit, OnTx, OnLateBatch, OnMempoolSync, StartSlotManager, ToFreeze,
                ToCollect, Leaves, NextPhase, Tick, Horizon, vars, Enters, TypeOK
  <2> QED
    BY <1>2, <2>1, <2>2
<1>4. ASSUME NEW m \in digestNet, OnDigest(m) PROVE Goal
  <2>1. UNCHANGED <<proposals, pending, phase>>
    BY <1>4 DEF OnDigest
  <2>2. ~Enters(k, "FINALIZE")
    BY <2>1 DEF Enters
  <2>3. CASE m.to # k
    <3>1. digests'[k] = digests[k]
      BY <1>4, <1>a, <2>3 DEF OnDigest, TypeOK
    <3> QED
      BY <1>2, <2>1, <2>2, <3>1
  <2>4. CASE m.to = k
    <3>1. digests'[k] = ReceiveDigest(digests[k], m.body)
      BY <1>4, <1>a, <2>4 DEF OnDigest, TypeOK
    <3>2. \A d \in digests'[k] : d \in digests[k] \/ d = m.body
      BY <3>1 DEF ReceiveDigest
    <3>3. m.body.slot >= OpenSlot(k)
      <4>1. m.body.slot \in Nat
        <5>1. m \in [body : Digest, from : Nodes, to : Nodes, at : Nat]
          BY <1>a DEF TypeOK, Messages
        <5> QED
          BY <5>1 DEF Digest
      <4>2. ~LeftSync(k, m.body.slot)
        BY <2>4 DEF MessagesAhead
      <4> QED
        BY <1>b, <4>1, <4>2 DEF LeftSync, OpenSlot
    <3> QED
      BY <1>1, <1>c, <2>1, <2>2, <3>2, <3>3
  <2> QED
    BY <2>3, <2>4
<1>5. ASSUME NEW m \in batchNet, OnBatch(m) PROVE Goal
  <2>1. UNCHANGED <<digests, pending, phase>>
    BY <1>5 DEF OnBatch
  <2>2. ~Enters(k, "FINALIZE")
    BY <2>1 DEF Enters
  <2>3. \A p \in proposals'[k] : p \in proposals[k] \/ (p = m.body /\ m.to = k)
    BY <1>5, <1>a DEF OnBatch, TypeOK
  <2>4. m.to = k => m.body.slot >= OpenSlot(k)
    BY DEF MessagesAhead
  <2> QED
    BY <1>1, <1>c, <2>1, <2>2, <2>3, <2>4
<1>6. ASSUME NEW n \in Nodes, ToSync(n) PROVE Goal
  <2>1. PICK c : /\ c.slot = slot[n]
                 /\ phase[n] = "FREEZE" /\ phase' = [phase EXCEPT ![n] = "SYNC"]
                 /\ digests' = [digests EXCEPT ![n] = @ \cup {c}]
    BY <1>6, <1>a, SyncAdds, SyncFresh
  <2>2. UNCHANGED <<proposals, pending>>
    BY <1>6 DEF ToSync
  <2>3. ~Enters(k, "FINALIZE")
    BY <2>1, <1>a DEF Enters, TypeOK
  <2>4. \A d \in digests'[k] : d \in digests[k] \/ (d = c /\ n = k)
    BY <2>1, <1>a DEF TypeOK
  <2>5. n = k => OpenSlot(k) = slot[k]
    BY <2>1 DEF OpenSlot
  <2> QED
    BY <1>1, <1>b, <1>c, <2>1, <2>2, <2>3, <2>4, <2>5
<1>7. ASSUME NEW n \in Nodes, ToPropose(n) PROVE Goal
  <2>1. UNCHANGED <<digests, pending>> /\ phase[n] = "SYNC"
        /\ phase' = [phase EXCEPT ![n] = "PROPOSE"]
    BY <1>7 DEF ToPropose, Leaves, NextPhase
  <2>2. ~Enters(k, "FINALIZE")
    BY <2>1, <1>a DEF Enters, TypeOK
  <2>3. \A p \in proposals'[k] : p \in proposals[k] \/ p.slot >= OpenSlot(k)
    <3>1. CASE UNCHANGED <<proposals, batchNet>>
      BY <3>1
    <3>2. ASSUME NEW q, q.slot = slot[n], proposals' = [proposals EXCEPT ![n] = @ \cup {q}]
          PROVE  \A p \in proposals'[k] : p \in proposals[k] \/ p.slot >= OpenSlot(k)
      <4>1. \A p \in proposals'[k] : p \in proposals[k] \/ (p = q /\ n = k)
        BY <3>2, <1>a DEF TypeOK
      <4>2. n = k => OpenSlot(k) = slot[k]
        BY <2>1 DEF OpenSlot
      <4> QED
        BY <3>2, <1>b, <4>1, <4>2
    <3> QED
      BY <1>7, <1>a, <3>1, <3>2, ProposeAdds
  <2> QED
    BY <1>1, <1>c, <2>1, <2>2, <2>3
<1>8. ASSUME NEW n \in Nodes, FinalizeWinner(n) \/ FinalizeSkip(n) PROVE Goal
  <2>1. /\ pending' = pending /\ \E P : Forget(n, slot[n], P)
        /\ phase' = [phase EXCEPT ![n] = "FINALIZE"]
    BY <1>8 DEF FinalizeWinner, FinalizeSkip, Skip, Leaves, NextPhase
  <2>2. CASE n = k
    <3>1. /\ digests'[k] = digests[k] \ {d \in digests[k] : d.slot = slot[k]}
          /\ proposals'[k] = {p \in proposals[k] : p.slot # slot[k]}
      BY <2>1, <2>2, <1>a DEF Forget, ClearSlot, DigestsOf, TypeOK
    <3> QED
      BY <1>b, <1>c, <2>1, <3>1
  <2>3. CASE n # k
    <3>1. digests'[k] = digests[k] /\ proposals'[k] = proposals[k] /\ ~Enters(k, "FINALIZE")
      BY <2>1, <2>3, <1>a DEF Forget, Enters, TypeOK
    <3> QED
      BY <1>2, <2>1, <3>1
  <2> QED
    BY <2>2, <2>3
<1>9. ASSUME NEW n \in Nodes, FinalizeEmergency(n) PROVE Goal
  <2>1. /\ UNCHANGED <<digests, proposals>>
        /\ pending' = [pending EXCEPT ![n] = @ \cup {slot[n]}]
        /\ phase' = [phase EXCEPT ![n] = "FINALIZE"]
    BY <1>9 DEF FinalizeEmergency, Skip, Leaves, NextPhase
  <2>2. CASE n = k
    <3>1. pending'[k] = pending[k] \cup {slot[k]}
      BY <2>1, <2>2, <1>a DEF TypeOK
    <3> QED
      BY <1>b, <1>c, <2>1, <3>1
  <2>3. CASE n # k
    <3>1. pending'[k] = pending[k] /\ ~Enters(k, "FINALIZE")
      BY <2>1, <2>3, <1>a DEF Enters, TypeOK
    <3> QED
      BY <1>2, <2>1, <3>1
  <2> QED
    BY <2>2, <2>3
<1>10. ASSUME NEW n \in Nodes, NEW s \in pending[n], FinishFinalize(n, s) PROVE Goal
  <2>1. /\ Forget(n, s, pool[n]) /\ pending' = [pending EXCEPT ![n] = @ \ {s}]
        /\ UNCHANGED phase
    BY <1>10 DEF FinishFinalize
  <2>2. ~Enters(k, "FINALIZE")
    BY <2>1 DEF Enters
  <2>3. CASE n = k
    <3>1. /\ digests'[k] = digests[k] \ {d \in digests[k] : d.slot = s}
          /\ proposals'[k] = {p \in proposals[k] : p.slot # s}
          /\ pending'[k] = pending[k] \ {s}
      BY <2>1, <2>3, <1>a DEF Forget, ClearSlot, DigestsOf, TypeOK
    <3> QED
      BY <1>b, <1>c, <2>2, <3>1
  <2>4. CASE n # k
    <3>1. digests'[k] = digests[k] /\ proposals'[k] = proposals[k] /\ pending'[k] = pending[k]
      BY <2>1, <2>4, <1>a DEF Forget, TypeOK
    <3> QED
      BY <1>2, <2>2, <3>1
  <2> QED
    BY <2>3, <2>4
<1> QED
  BY <1>3, <1>4, <1>5, <1>6, <1>7, <1>8, <1>9, <1>10 DEF Next

\* In a run of that kind a node keeps no digest or proposal of a slot it has settled,
\* but for the slots whose publishMempoolSync is slow or has thrown.
THEOREM NothingKeptCorrect ==
  ASSUME LastStart < Genesis + BaseDelta
  PROVE  Spec /\ DigestsInTime /\ ProposalsInTime => []NothingKeptOfPastSlots
<1>1. Init => Tidy
  BY DEF Init, Tidy, MessagesAhead, NothingKeptOfPastSlots
<1>2. Ground /\ Tidy /\ [Next]_vars /\ [DigestsTimely]_vars /\ [ProposalsTimely]_vars => Tidy'
  <2> SUFFICES ASSUME Ground, Tidy, [Next]_vars, DigestsTimely, ProposalsTimely
               PROVE  Tidy'
    BY TimelyAlways
  <2> QED
    BY MessagesAheadInductive, NothingKeptInductive DEF Tidy
<1>3. Tidy => NothingKeptOfPastSlots
  BY DEF Tidy
<1> QED
  BY <1>1, <1>2, <1>3, GroundCorrect, PTL DEF Spec, DigestsInTime, ProposalsInTime

-------------------------------------------------------------------------------
\* The timetable.

\* What the timetable must leave: time for a digest between FREEZE and the end of
\* SYNC, and for a proposal in PROPOSE, however late timers and messages are; a slot
\* whose last phases end before the freeze of the next; and starts before the first
\* freeze.
TimetableFits ==
  /\ MaxLag + MaxDelay < Epsilon
  /\ MaxLag + MaxDelay < ProposeWindow
  /\ ProposeWindow + FinalizeWindow <= BaseDelta - Epsilon
  /\ LastStart <= Genesis + BaseDelta - Epsilon

\* No node has a stretched slot before it.
Unstretched == \A n \in Nodes : effectiveDelta[n] = BaseDelta

\* A node is in a phase neither before its time nor long after it, by the timetable
\* of a slot that is not stretched.
Punctual(n) ==
  running[n] =>
    /\ slot[n] = 0 \/ now >= FinalizeEnd(Genesis, slot[n] - 1, BaseDelta)
    /\ phase[n] = "PROPOSE"  => now >= SyncEnd(Genesis, slot[n], BaseDelta)
    /\ phase[n] = "FINALIZE" => now >= ProposeEnd(Genesis, slot[n], BaseDelta)
    /\ now <= LeaveTime(phase[n], Genesis, slot[n], BaseDelta) + MaxLag

\* Messages under way were sent in time, and are not overdue.
Prompt ==
  /\ \A m \in digestNet : /\ m.at \in Nat
                          /\ m.at <= Freeze(Genesis, m.body.slot, BaseDelta) + MaxLag
                          /\ now <= m.at + MaxDelay
  /\ \A m \in batchNet  : /\ m.at \in Nat
                          /\ m.at <= SyncEnd(Genesis, m.body.slot, BaseDelta) + MaxLag
                          /\ now <= m.at + MaxDelay

Timetable == (\A n \in Nodes : Punctual(n)) /\ Prompt

\* Slots start one after the other.
LEMMA StartsGrow ==
  ASSUME NEW s \in Nat, NEW t \in Nat
  PROVE  /\ Start(Genesis, s) \in Int
         /\ Start(Genesis, s + 1) = Start(Genesis, s) + BaseDelta
         /\ s <= t => Start(Genesis, s) <= Start(Genesis, t)
<1>1. Genesis \in Int /\ BaseDelta \in Nat
  BY SequencerAssumption, TimingAssumption
<1>2. (s + 1) * BaseDelta = s * BaseDelta + BaseDelta /\ s * BaseDelta \in Int
      /\ t * BaseDelta \in Int
  BY <1>1, SMTT(30)
<1>3. s <= t => s * BaseDelta <= t * BaseDelta
  BY TimesMonotonic
<1> QED
  BY <1>1, <1>2, <1>3 DEF Start

\* When the phases of a slot that is not stretched are left.
LEMMA LeaveTimes ==
  ASSUME NEW s
  PROVE  /\ LeaveTime("COLLECT", Genesis, s, BaseDelta) = Freeze(Genesis, s, BaseDelta)
         /\ LeaveTime("FREEZE", Genesis, s, BaseDelta) = Freeze(Genesis, s, BaseDelta)
         /\ LeaveTime("SYNC", Genesis, s, BaseDelta) = SyncEnd(Genesis, s, BaseDelta)
         /\ LeaveTime("PROPOSE", Genesis, s, BaseDelta) = ProposeEnd(Genesis, s, BaseDelta)
         /\ LeaveTime("FINALIZE", Genesis, s, BaseDelta) = FinalizeEnd(Genesis, s, BaseDelta)
BY DEF LeaveTime

\* A phase is entered from the one before it, by a timer that is due.
LEMMA Entering ==
  ASSUME TypeOK, [Next]_vars, NEW n \in Nodes
  PROVE  /\ Enters(n, "SYNC")     => running[n] /\ phase[n] = "FREEZE" /\ now >= Due(n)
         /\ Enters(n, "PROPOSE")  => running[n] /\ phase[n] = "SYNC" /\ now >= Due(n)
         /\ Enters(n, "FINALIZE") => running[n] /\ phase[n] = "PROPOSE" /\ now >= Due(n)
<1> DEFINE Goal ==
             /\ Enters(n, "SYNC")     => running[n] /\ phase[n] = "FREEZE" /\ now >= Due(n)
             /\ Enters(n, "PROPOSE")  => running[n] /\ phase[n] = "SYNC" /\ now >= Due(n)
             /\ Enters(n, "FINALIZE") => running[n] /\ phase[n] = "PROPOSE" /\ now >= Due(n)
<1>1. ASSUME phase'[n] = phase[n] \/ phase'[n] = "COLLECT" PROVE Goal
  BY <1>1 DEF Enters
<1>2. ASSUME NEW k \in Nodes, k # n,
             StartSlotManager(k) \/ Proceeds(k) \/ ToCollect(k) \/ \E b : Finalises(k, b)
      PROVE  Goal
  BY <1>1, <1>2 DEF StartSlotManager, Proceeds, ToCollect, Leaves, Finalises, TypeOK
<1>3. CASE StartSlotManager(n) \/ ToCollect(n)
  BY <1>1, <1>3 DEF StartSlotManager, ToCollect, Leaves, NextPhase, TypeOK
<1>4. CASE Proceeds(n)
  <2>1. /\ running[n] /\ now >= Due(n)
        /\ \/ phase[n] = "COLLECT" /\ phase'[n] = "FREEZE"
           \/ phase[n] = "FREEZE" /\ phase'[n] = "SYNC"
           \/ phase[n] = "SYNC" /\ phase'[n] = "PROPOSE"
    BY <1>4 DEF Proceeds, NextPhase, TypeOK
  <2> QED
    BY <2>1 DEF Enters
<1>5. ASSUME NEW b, Finalises(n, b) PROVE Goal
  <2>1. running[n] /\ now >= Due(n) /\ phase[n] = "PROPOSE" /\ phase'[n] = "FINALIZE"
    BY <1>5 DEF Finalises, TypeOK
  <2> QED
    BY <2>1 DEF Enters
<1> QED
  BY <1>1, <1>2, <1>3, <1>4, <1>5, BookSteps

\* On that timetable digests and proposals have their time.
LEMMA TimetableSuffices ==
  ASSUME TimetableFits, Ground, Timetable, Unstretched, [Next]_vars
  PROVE  DigestsTimely /\ ProposalsTimely
<1>a. TypeOK /\ WaitsInCollect /\ WaitsInSlot0
  BY DEF Ground, Books
<1>b. /\ Genesis \in Int /\ BaseDelta \in Nat /\ Epsilon \in Nat /\ ProposeWindow \in Nat
      /\ FinalizeWindow \in Nat /\ MaxLag \in Nat /\ MaxDelay \in Nat /\ now \in Int
  BY <1>a, SequencerAssumption, TimingAssumption DEF TypeOK
<1>c. /\ MaxLag + MaxDelay < Epsilon /\ MaxLag + MaxDelay < ProposeWindow
      /\ MaxLag < Epsilon /\ MaxLag < ProposeWindow
  BY <1>b DEF TimetableFits
<1>d. ASSUME NEW n \in Nodes
      PROVE  /\ slot[n] \in Nat /\ Start(Genesis, slot[n]) \in Int
             /\ Due(n) = LeaveTime(phase[n], Genesis, slot[n], BaseDelta)
             /\ Punctual(n)
  BY <1>a, StartsGrow DEF Due, Unstretched, Timetable, TypeOK
\* A node that is past a phase has seen its end.
<1>e. ASSUME NEW k \in Nodes, NEW s \in Nat
      PROVE  /\ LeftSync(k, s)  => now >= SyncEnd(Genesis, s, BaseDelta)
             /\ OpenSlot(k) > s => now >= ProposeEnd(Genesis, s, BaseDelta)
  <2>1. CASE slot[k] > s
    <3>1. running[k] /\ slot[k] - 1 \in Nat /\ s <= slot[k] - 1
      BY <2>1, <1>a, <1>d DEF WaitsInSlot0
    <3>2. now >= FinalizeEnd(Genesis, slot[k] - 1, BaseDelta)
      BY <2>1, <3>1, <1>d DEF Punctual
    <3>3. /\ Start(Genesis, s) \in Int /\ Start(Genesis, slot[k] - 1) \in Int
          /\ Start(Genesis, s) <= Start(Genesis, slot[k] - 1)
      BY <3>1, StartsGrow
    <3> QED
      BY <3>2, <3>3, <1>b DEF FinalizeEnd, ProposeEnd, SyncEnd
  <2>2. CASE slot[k] = s /\ phase[k] \in {"PROPOSE", "FINALIZE"}
    <3>1. running[k]
      BY <2>2, <1>a DEF WaitsInCollect
    <3> QED
      BY <2>2, <3>1, <1>b, <1>d DEF Punctual, ProposeEnd, SyncEnd, OpenSlot
  <2>3. CASE ~(slot[k] > s) /\ ~(slot[k] = s /\ phase[k] \in {"PROPOSE", "FINALIZE"})
    BY <2>3, <1>d DEF LeftSync, OpenSlot
  <2> QED
    BY <2>1, <2>2, <2>3
<1>1. ASSUME NEW n \in Nodes, Enters(n, "PROPOSE"), NEW m \in digestNet,
             m.body.slot = slot[n]
      PROVE  FALSE
  <2>1. now >= Start(Genesis, slot[n]) + BaseDelta
    <3>1. phase[n] = "SYNC" /\ now >= Due(n)
      BY <1>1, <1>a, Entering
    <3> QED
      BY <3>1, <1>d, LeaveTimes DEF SyncEnd
  <2>2. /\ m.at \in Nat /\ now <= m.at + MaxDelay
        /\ m.at <= Start(Genesis, slot[n]) + BaseDelta - Epsilon + MaxLag
    BY <1>1 DEF Timetable, Prompt, Freeze
  <2> QED
    BY <2>1, <2>2, <1>b, <1>c, <1>d
<1>2. ASSUME NEW n \in Nodes, Enters(n, "SYNC"), NEW k \in Nodes, LeftSync(k, slot[n])
      PROVE  FALSE
  <2>1. running[n] /\ phase[n] = "FREEZE"
    BY <1>2, <1>a, Entering
  <2>2. now <= Start(Genesis, slot[n]) + BaseDelta - Epsilon + MaxLag
    BY <2>1, <1>d, LeaveTimes DEF Punctual, Freeze
  <2>3. now >= Start(Genesis, slot[n]) + BaseDelta
    BY <1>2, <1>d, <1>e DEF SyncEnd
  <2> QED
    BY <2>2, <2>3, <1>b, <1>c, <1>d
<1>3. ASSUME NEW n \in Nodes, Enters(n, "FINALIZE"), NEW m \in batchNet,
             m.body.slot = slot[n]
      PROVE  FALSE
  <2>1. now >= Start(Genesis, slot[n]) + BaseDelta + ProposeWindow
    <3>1. phase[n] = "PROPOSE" /\ now >= Due(n)
      BY <1>3, <1>a, Entering
    <3> QED
      BY <3>1, <1>d, LeaveTimes DEF ProposeEnd, SyncEnd
  <2>2. /\ m.at \in Nat /\ now <= m.at + MaxDelay
        /\ m.at <= Start(Genesis, slot[n]) + BaseDelta + MaxLag
    BY <1>3 DEF Timetable, Prompt, SyncEnd
  <2> QED
    BY <2>1, <2>2, <1>b, <1>c, <1>d
<1>4. ASSUME NEW n \in Nodes, Enters(n, "PROPOSE"), NEW k \in Nodes
      PROVE  OpenSlot(k) <= slot[n]
  <2>1. SUFFICES ASSUME OpenSlot(k) > slot[n] PROVE FALSE
    BY <1>d, OpenGrows
  <2>2. running[n] /\ phase[n] = "SYNC"
    BY <1>4, <1>a, Entering
  <2>3. now <= Start(Genesis, slot[n]) + BaseDelta + MaxLag
    BY <2>2, <1>d, LeaveTimes DEF Punctual, SyncEnd
  <2>4. now >= Start(Genesis, slot[n]) + BaseDelta + ProposeWindow
    BY <2>1, <1>d, <1>e DEF ProposeEnd, SyncEnd
  <2> QED
    BY <2>3, <2>4, <1>b, <1>c, <1>d
<1>5. ASSUME NEW m \in batchNet, OnLateBatch(m) PROVE FALSE
  <2>1. m.to \in Nodes /\ m.body.slot \in Nat
    BY <1>a DEF TypeOK, WellFormed
  <2>2. now > Start(Genesis, m.body.slot) + BaseDelta + ProposeWindow
    BY <1>5, <2>1 DEF OnLateBatch, Late, Unstretched, ProposeEnd, SyncEnd
  <2>3. /\ m.at \in Nat /\ now <= m.at + MaxDelay
        /\ m.at <= Start(Genesis, m.body.slot) + BaseDelta + MaxLag
    BY DEF Timetable, Prompt, SyncEnd
  <2>4. Start(Genesis, m.body.slot) \in Int
    BY <2>1, StartsGrow
  <2> QED
    BY <2>2, <2>3, <2>4, <1>b, <1>c
<1> QED
  BY <1>1, <1>2, <1>3, <1>4, <1>5 DEF DigestsTimely, ProposalsTimely

\* The clock moves when nothing is overdue, and nothing else moves with it.
LEMMA ClockSteps == ASSUME [Next]_vars PROVE now' = now \/ Tick
<1> USE DEF clockVars, nets
<1>1. ASSUME \/ \E n \in Nodes, tx \in Txs : Submit(n, tx)
             \/ \E m \in txNet : OnTx(m)
             \/ \E m \in digestNet : OnDigest(m)
             \/ \E m \in batchNet : OnBatch(m)
             \/ \E m \in batchNet : OnLateBatch(m)
             \/ \E m \in syncNet : OnMempoolSync(m)
             \/ \E n \in Nodes : \/ StartSlotManager(n) \/ ToFreeze(n) \/ ToSync(n)
                                 \/ ToPropose(n) \/ FinalizeWinner(n) \/ FinalizeSkip(n)
                                 \/ FinalizeEmergency(n) \/ ToCollect(n)
                                 \/ \E s \in pending[n] : FinishFinalize(n, s)
             \/ Horizon
             \/ UNCHANGED vars
      PROVE  now' = now
  BY <1>1 DEF Submit, OnTx, OnDigest, OnBatch, OnLateBatch, OnMempoolSync, StartSlotManager,
              ToFreeze, ToSync, ToPropose, FinalizeWinner, FinalizeSkip, Skip,
              FinalizeEmergency, ToCollect, FinishFinalize, Leaves, Horizon, vars
<1> QED
  BY <1>1 DEF Next

\* Every phase is left before the next is due.
LEMMA PunctualInductive ==
  ASSUME TimetableFits, Ground, Timetable, Unstretched, [Next]_vars, NEW k \in Nodes
  PROVE  Punctual(k)'
<1>a. TypeOK /\ WaitsInCollect /\ WaitsInSlot0
  BY DEF Ground, Books
<1>b. /\ Genesis \in Int /\ BaseDelta \in Nat /\ Epsilon \in Nat /\ ProposeWindow \in Nat
      /\ FinalizeWindow \in Nat /\ MaxLag \in Nat /\ MaxDelay \in Nat /\ now \in Int
      /\ LastStart \in Nat
  BY <1>a, SequencerAssumption, TimingAssumption DEF TypeOK
<1>c. /\ ProposeWindow + FinalizeWindow <= BaseDelta - Epsilon
      /\ LastStart <= Genesis + BaseDelta - Epsilon /\ Epsilon > 0
  BY <1>b DEF TimetableFits
<1>d. /\ slot[k] \in Nat /\ Start(Genesis, slot[k]) \in Int
      /\ Start(Genesis, slot[k] + 1) = Start(Genesis, slot[k]) + BaseDelta
      /\ Due(k) = LeaveTime(phase[k], Genesis, slot[k], BaseDelta)
      /\ Punctual(k)
  BY <1>a, StartsGrow DEF Due, Unstretched, Timetable, TypeOK
<1>1. ASSUME now' = now, running'[k] = running[k], slot'[k] = slot[k], phase'[k] = phase[k]
      PROVE  Punctual(k)'
  BY <1>1, <1>d DEF Punctual
<1>2. CASE Tick
  <2>1. /\ now' = now + 1 /\ UNCHANGED <<running, slot, phase>>
        /\ running[k] => now < LeaveTime(phase[k], Genesis, slot[k], BaseDelta) + MaxLag
    BY <1>2, <1>d DEF Tick, clockVars
  <2>2. phase[k] \in Phases
    BY <1>a DEF TypeOK
  <2>3. LeaveTime(phase[k], Genesis, slot[k], BaseDelta) \in Int
    <3>1. /\ Freeze(Genesis, slot[k], BaseDelta) \in Int
          /\ SyncEnd(Genesis, slot[k], BaseDelta) \in Int
          /\ ProposeEnd(Genesis, slot[k], BaseDelta) \in Int
          /\ FinalizeEnd(Genesis, slot[k], BaseDelta) \in Int
      BY <1>b, <1>d DEF Freeze, SyncEnd, ProposeEnd, FinalizeEnd
    <3> QED
      BY <2>2, <3>1, LeaveTimes DEF Phases
  <2>4. ASSUME running[k], slot[k] # 0
        PROVE  /\ now >= FinalizeEnd(Genesis, slot[k] - 1, BaseDelta)
               /\ FinalizeEnd(Genesis, slot[k] - 1, BaseDelta) \in Int
    <3>1. Start(Genesis, slot[k] - 1) \in Int
      BY <1>d, <2>4, StartsGrow
    <3> QED
      BY <2>4, <3>1, <1>b, <1>d DEF Punctual, FinalizeEnd, ProposeEnd, SyncEnd
  <2>5. /\ running[k] /\ phase[k] = "PROPOSE"  => now >= SyncEnd(Genesis, slot[k], BaseDelta)
        /\ running[k] /\ phase[k] = "FINALIZE" => now >= ProposeEnd(Genesis, slot[k], BaseDelta)
        /\ SyncEnd(Genesis, slot[k], BaseDelta) \in Int
        /\ ProposeEnd(Genesis, slot[k], BaseDelta) \in Int
    BY <1>b, <1>d DEF Punctual, SyncEnd, ProposeEnd
  <2> QED
    BY <2>1, <2>3, <2>4, <2>5, <1>b DEF Punctual
<1>3. ASSUME NEW n \in Nodes, n # k, now' = now,
             StartSlotManager(n) \/ Proceeds(n) \/ ToCollect(n) \/ \E b : Finalises(n, b)
      PROVE  Punctual(k)'
  BY <1>1, <1>3, <1>a DEF StartSlotManager, Proceeds, ToCollect, Leaves, Finalises, TypeOK
<1>4. CASE StartSlotManager(k)
  <2>1. now \in Nat /\ now <= LastStart /\ now < Genesis + BaseDelta
    BY <1>4, <1>a, <1>b, <1>c DEF StartSlotManager, WaitsInSlot0, TypeOK
  <2>2. slot'[k] = 0 /\ phase'[k] = "COLLECT" /\ now' = now
    BY <1>4, <1>a, <2>1, WallSlot0 DEF StartSlotManager, TypeOK
  <2>3. Start(Genesis, 0) = Genesis
    BY <1>b DEF Start
  <2>4. now <= Freeze(Genesis, 0, BaseDelta) + MaxLag
    BY <1>b, <1>c, <2>1, <2>3 DEF Freeze
  <2> QED
    BY <2>2, <2>4, LeaveTimes DEF Punctual
<1>5. CASE Proceeds(k)
  <2>1. /\ running[k] /\ running'[k] /\ now' = now /\ slot'[k] = slot[k]
        /\ now >= LeaveTime(phase[k], Genesis, slot[k], BaseDelta)
        /\ now <= LeaveTime(phase[k], Genesis, slot[k], BaseDelta) + MaxLag
        /\ slot[k] = 0 \/ now >= FinalizeEnd(Genesis, slot[k] - 1, BaseDelta)
    BY <1>5, <1>d DEF Proceeds, Punctual
  <2>2. \/ phase[k] = "COLLECT" /\ phase'[k] = "FREEZE"
        \/ phase[k] = "FREEZE" /\ phase'[k] = "SYNC"
        \/ phase[k] = "SYNC" /\ phase'[k] = "PROPOSE"
    BY <1>5, <1>a DEF Proceeds, NextPhase, TypeOK
  <2>3. CASE phase[k] = "COLLECT" /\ phase'[k] = "FREEZE"
    BY <2>1, <2>3, LeaveTimes DEF Punctual
  <2>4. CASE phase[k] = "FREEZE" /\ phase'[k] = "SYNC"
    <3>1. now <= SyncEnd(Genesis, slot[k], BaseDelta) + MaxLag
      BY <2>1, <2>4, <1>b, <1>d, LeaveTimes DEF Freeze, SyncEnd
    <3> QED
      BY <2>1, <2>4, <3>1, LeaveTimes DEF Punctual
  <2>5. CASE phase[k] = "SYNC" /\ phase'[k] = "PROPOSE"
    <3>1. /\ now >= SyncEnd(Genesis, slot[k], BaseDelta)
          /\ now <= ProposeEnd(Genesis, slot[k], BaseDelta) + MaxLag
      BY <2>1, <2>5, <1>b, <1>d, LeaveTimes DEF SyncEnd, ProposeEnd
    <3> QED
      BY <2>1, <2>5, <3>1, LeaveTimes DEF Punctual
  <2> QED
    BY <2>2, <2>3, <2>4, <2>5
<1>6. ASSUME NEW b, Finalises(k, b) PROVE Punctual(k)'
  <2>1. /\ running'[k] /\ now' = now /\ slot'[k] = slot[k] /\ phase'[k] = "FINALIZE"
        /\ now >= ProposeEnd(Genesis, slot[k], BaseDelta)
        /\ now <= ProposeEnd(Genesis, slot[k], BaseDelta) + MaxLag
        /\ slot[k] = 0 \/ now >= FinalizeEnd(Genesis, slot[k] - 1, BaseDelta)
    BY <1>6, <1>a, <1>d, LeaveTimes DEF Finalises, Punctual, TypeOK
  <2>2. now <= FinalizeEnd(Genesis, slot[k], BaseDelta) + MaxLag
    BY <2>1, <1>b, <1>d DEF FinalizeEnd, ProposeEnd, SyncEnd
  <2> QED
    BY <2>1, <2>2, LeaveTimes DEF Punctual
<1>7. CASE ToCollect(k)
  <2>1. /\ now' = now /\ slot'[k] = slot[k] + 1 /\ phase'[k] = "COLLECT" /\ running[k]
        /\ phase[k] = "FINALIZE"
        /\ now >= FinalizeEnd(Genesis, slot[k], BaseDelta)
        /\ now <= FinalizeEnd(Genesis, slot[k], BaseDelta) + MaxLag
    BY <1>7, <1>a, <1>d, LeaveTimes DEF ToCollect, Leaves, NextPhase, Punctual, TypeOK
  <2>2. now <= Freeze(Genesis, slot[k] + 1, BaseDelta) + MaxLag
    BY <2>1, <1>b, <1>c, <1>d DEF FinalizeEnd, ProposeEnd, SyncEnd, Freeze
  <2>3. slot'[k] - 1 = slot[k]
    BY <2>1, <1>d
  <2> QED
    BY <2>1, <2>2, <2>3, LeaveTimes DEF Punctual
<1>8. ASSUME now' = now, UNCHANGED <<running, slot, phase>> PROVE Punctual(k)'
  BY <1>1, <1>8
<1>9. CASE now' = now
  BY <1>3, <1>4, <1>5, <1>6, <1>7, <1>8, <1>9, <1>a, BookSteps
<1> QED
  BY <1>2, <1>9, ClockSteps

\* What is published is published in time, and nothing stays under way for long.
LEMMA PromptInductive ==
  ASSUME TimetableFits, Ground, Timetable, Unstretched, [Next]_vars
  PROVE  Prompt'
<1>a. TypeOK /\ OneDigest /\ WaitsInCollect
  BY DEF Ground, Books
<1>b. now \in Nat /\ MaxDelay \in Nat
  BY <1>a, SequencerAssumption DEF TypeOK
<1>c. ProposalsTimely
  BY TimetableSuffices
<1> DEFINE DigestPrompt(m) == /\ m.at \in Nat
                              /\ m.at <= Freeze(Genesis, m.body.slot, BaseDelta) + MaxLag
           BatchPrompt(m)  == /\ m.at \in Nat
                              /\ m.at <= SyncEnd(Genesis, m.body.slot, BaseDelta) + MaxLag
<1>1. ASSUME NEW m \in digestNet' PROVE DigestPrompt(m) /\ now' <= m.at + MaxDelay
  <2>1. CASE m \in digestNet
    <3>1. DigestPrompt(m) /\ now <= m.at + MaxDelay
      BY <2>1 DEF Timetable, Prompt
    <3>2. Tick => now' = now + 1 /\ now < m.at + MaxDelay
      BY <2>1 DEF Tick, InTime
    <3> QED
      BY <3>1, <3>2, <1>b, ClockSteps
  <2>2. ASSUME NEW k \in Nodes, ToSync(k), m \notin digestNet
        PROVE  DigestPrompt(m) /\ now' <= m.at + MaxDelay
    <3>1. PICK c : /\ c.slot = slot[k] /\ running[k]
                   /\ phase[k] = "FREEZE" /\ phase' = [phase EXCEPT ![k] = "SYNC"]
                   /\ digestNet' = digestNet \cup Publish(k, c)
      BY <2>2, <1>a, SyncAdds, SyncFresh
    <3>2. m.body = c /\ m.at = now
      BY <2>2, <3>1 DEF Publish
    <3>3. now <= Freeze(Genesis, slot[k], BaseDelta) + MaxLag
      BY <3>1, LeaveTimes DEF Timetable, Punctual
    <3>4. now' = now
      BY <2>2 DEF ToSync, Leaves
    <3> QED
      BY <3>1, <3>2, <3>3, <3>4, <1>b
  <2> QED
    BY <2>1, <2>2, DigestChanges DEF Ground, Books, OneDigest
<1>2. ASSUME NEW m \in batchNet' PROVE BatchPrompt(m) /\ now' <= m.at + MaxDelay
  <2>1. CASE m \in batchNet
    <3>1. BatchPrompt(m) /\ now <= m.at + MaxDelay
      BY <2>1 DEF Timetable, Prompt
    <3>2. Tick => now' = now + 1 /\ now < m.at + MaxDelay
      BY <2>1 DEF Tick, InTime
    <3> QED
      BY <3>1, <3>2, <1>b, ClockSteps
  <2>2. ASSUME NEW k \in Nodes, ToPropose(k), m \notin batchNet
        PROVE  BatchPrompt(m) /\ now' <= m.at + MaxDelay
    <3>0. ~UNCHANGED <<proposals, batchNet>>
      BY <2>2
    <3>1. PICK q : /\ Shaped(q) /\ q.slot = slot[k]
                   /\ proposals' = [proposals EXCEPT ![k] = @ \cup {q}]
                   /\ batchNet' = batchNet \cup Publish(k, q)
      BY <2>2, <3>0, <1>a, ProposeAdds
    <3>2. m.body = q /\ m.at = now
      BY <2>2, <3>1 DEF Publish
    <3>3. running[k] /\ phase[k] = "SYNC" /\ now' = now
      BY <2>2 DEF ToPropose, Leaves
    <3>4. now <= SyncEnd(Genesis, slot[k], BaseDelta) + MaxLag
      BY <3>3, LeaveTimes DEF Timetable, Punctual
    <3> QED
      BY <3>1, <3>2, <3>3, <3>4, <1>b
  <2> QED
    BY <2>1, <2>2, <1>c, BatchChanges DEF Ground, Books, ProposalsTimely
<1> QED
  BY <1>1, <1>2 DEF Prompt

\* The timetable holds to begin with.
LEMMA TimetableInit == Init => Timetable
<1> SUFFICES ASSUME Init PROVE Timetable
  OBVIOUS
<1> QED
  BY DEF Init, Timetable, Punctual, Prompt

\* No step up to the first skip breaks it.
LEMMA TimetableInductive ==
  ASSUME TimetableFits
  PROVE  Ground /\ Timetable /\ [Next]_vars /\ [Unstretched]_vars => Timetable'
<1>1. CASE UNCHANGED vars
  BY <1>1 DEF vars, clockVars, nets, Timetable, Punctual, Prompt
<1>2. CASE Unstretched
  BY <1>2, PunctualInductive, PromptInductive DEF Timetable
<1> QED
  BY <1>1, <1>2

\* Up to the first skipped slot, whatever happens to transactions and mempools, the
\* timetable alone gives digests and proposals the time they need: nodes need not wait
\* for each other, as the code does not.
THEOREM TimetableGivesTime ==
  ASSUME TimetableFits
  PROVE  Spec /\ [][Unstretched]_vars => DigestsInTime /\ ProposalsInTime
<1>1. Ground /\ Timetable /\ [Next]_vars /\ [Unstretched]_vars
        => Timetable' /\ [DigestsTimely]_vars /\ [ProposalsTimely]_vars
  BY TimetableInductive, TimetableSuffices
<1> QED
  BY <1>1, TimetableInit, GroundCorrect, PTL DEF Spec, DigestsInTime, ProposalsInTime

\* So, up to the first skipped slot, on such a timetable, the nodes agree on common
\* subsets and on batches, and keep nothing of past slots.
THEOREM AgreementOnTimetable ==
  ASSUME TimetableFits, OutputsAreNumbers
  PROVE  Spec /\ [][Unstretched]_vars
           => [](CommonSubsetAgreement /\ Agreement /\ NothingKeptOfPastSlots)
<1>1. LastStart < Genesis + BaseDelta
  <2>1. /\ Genesis \in Nat /\ BaseDelta \in Nat /\ Epsilon \in Nat /\ LastStart \in Nat
        /\ MaxLag \in Nat /\ MaxDelay \in Nat
    BY SequencerAssumption, TimingAssumption
  <2> QED
    BY <2>1 DEF TimetableFits
<1>2. Spec /\ [][Unstretched]_vars => DigestsInTime /\ ProposalsInTime
  BY TimetableGivesTime
<1>3. Spec /\ DigestsInTime /\ ProposalsInTime => []Agreement
  BY <1>1, AgreementCorrect
<1>4. Spec /\ DigestsInTime /\ ProposalsInTime => []NothingKeptOfPastSlots
  BY <1>1, NothingKeptCorrect
<1> QED
  BY <1>2, <1>3, <1>4, CommonSubsetCorrect, PTL

-------------------------------------------------------------------------------
\* Sequenced once.

\* What is asked of the emergency resync: it brings nobody anything new, for
\* example because nobody skips three slots in a row.
ResyncBringsNothing == \A m \in syncNet : OnMempoolSync(m) => pool' = pool

Known(tx) == \E e \in submitted : e.tx = tx

\* Whatever is anywhere was submitted.
AllKnown ==
  /\ IsFiniteSet(submitted)
  /\ \A n \in Nodes : \A e \in pool[n] : Known(e[2])
  /\ \A m \in txNet : Known(m.body)
  /\ \A d \in AllDigests : \A tx \in d.hashes : Known(tx)
  /\ \A n \in Nodes : \A s \in DOMAIN history[n] : \A tx \in TxSet(history[n][s]) : Known(tx)

\* A transaction comes to a node once, and is then in one bucket the node is not
\* done with, or in that of its slot and the next while the slot is decided
\* without it.
OneArrival ==
  \A m \in txNet :
    /\ \A k \in txNet : k.to = m.to /\ k.body = m.body => k = m
    /\ \A e \in pool[m.to] : e[2] # m.body
    /\ \A d \in AllDigests : d.nodeId = m.to => m.body \notin d.hashes

OneBucket ==
  \A n \in Nodes : \A e, f \in pool[n] :
    e[2] = f[2] /\ e[1] >= OpenSlot(n) /\ f[1] >= OpenSlot(n) /\ e # f
      => phase[n] = "PROPOSE" /\ slot[n] \in {e[1], f[1]} /\ e[2] \notin Common(n)

\* A node holds what it votes for, in the bucket it votes on.
Backed ==
  \A d \in AllDigests : d.slot = OpenSlot(d.nodeId) =>
    \A tx \in d.hashes : \E e \in pool[d.nodeId] : e[1] = d.slot /\ e[2] = tx

\* Node v will not vote for tx after slot s.
Freed(v, tx, s) ==
  /\ \A m \in txNet : m.to = v => m.body # tx
  /\ \A e \in pool[v] : e[2] = tx /\ e[1] >= OpenSlot(v) => e[1] = s
  /\ \A d \in AllDigests : d.nodeId = v /\ tx \in d.hashes => d.slot <= s

\* A majority will not vote again for what has been sequenced.
Spent ==
  \A n \in Nodes : \A s \in DOMAIN history[n] : \A tx \in TxSet(history[n][s]) :
    \E V \in SUBSET Nodes : /\ Cardinality(V) >= Threshold(Cardinality(Nodes))
                            /\ \A v \in V : Freed(v, tx, s)

Accounted == AllKnown /\ OneArrival /\ OneBucket /\ Backed /\ Spent /\ SequencedOnce

\* A transaction comes to node k, from a client or a peer.
Receives(k, tx) ==
  /\ Submit(k, tx) \/ \E m \in txNet : OnTx(m) /\ m.to = k /\ m.body = tx
  /\ tx \in Txs

\* What a step does to the mempool of one node.
LEMMA CopySteps ==
  ASSUME Ground, [Next]_vars, ResyncBringsNothing, NEW k \in Nodes
  PROVE  \/ /\ pool'[k] \subseteq pool[k]
            /\ phase[k] = "PROPOSE" => phase'[k] = "PROPOSE"
         \/ ToPropose(k)
         \/ FinalizeWinner(k) \/ FinalizeSkip(k) \/ FinalizeEmergency(k)
         \/ \E tx : Receives(k, tx)
<1>a. TypeOK
  BY DEF Ground, Books
<1> USE DEF clockVars, nets
<1> DEFINE Same == /\ pool'[k] \subseteq pool[k]
                   /\ phase[k] = "PROPOSE" => phase'[k] = "PROPOSE"
<1>1. ASSUME \/ \E m \in digestNet : OnDigest(m)
             \/ \E m \in batchNet : OnBatch(m)
             \/ \E m \in batchNet : OnLateBatch(m)
             \/ \E m \in syncNet : OnMempoolSync(m)
             \/ Tick \/ Horizon \/ UNCHANGED vars
      PROVE  Same
  <2>1. UNCHANGED phase /\ pool' = pool
    BY <1>1 DEF OnDigest, OnBatch, OnLateBatch, OnMempoolSync, ResyncBringsNothing, Tick,
                Horizon, vars
  <2> QED
    BY <2>1
<1>2. ASSUME NEW n \in Nodes, \/ StartSlotManager(n) \/ ToFreeze(n) \/ ToSync(n)
                              \/ ToCollect(n)
      PROVE  Same
  <2>1. pool' = pool
    BY <1>2 DEF StartSlotManager, ToFreeze, ToSync, ToCollect
  <2>2. phase[k] = "PROPOSE" => phase'[k] = "PROPOSE"
    BY <1>2, <1>a DEF StartSlotManager, ToFreeze, ToSync, ToCollect, Leaves, NextPhase,
       TypeOK, Ground, Books, WaitsInCollect
  <2> QED
    BY <2>1, <2>2
<1>3. ASSUME NEW n \in Nodes, NEW s \in pending[n], FinishFinalize(n, s) PROVE Same
  <2>1. phase' = phase /\ pool' = [pool EXCEPT ![n] = Evict(pool[n], s)]
    BY <1>3 DEF FinishFinalize, Forget
  <2> QED
    BY <2>1, <1>a DEF Evict, TypeOK
<1>4. ASSUME NEW n \in Nodes, n # k, \/ ToPropose(n)
                              \/ FinalizeWinner(n) \/ FinalizeSkip(n) \/ FinalizeEmergency(n)
      PROVE  Same
  <2>1. pool'[k] = pool[k]
    BY <1>4, <1>a DEF ToPropose, FinalizeWinner, FinalizeSkip, FinalizeEmergency, Forget, TypeOK
  <2>2. phase'[k] = phase[k]
    BY <1>4, <1>a DEF ToPropose, FinalizeWinner, FinalizeSkip, FinalizeEmergency, Skip,
       Leaves, TypeOK
  <2> QED
    BY <2>1, <2>2
<1>5. ASSUME NEW n \in Nodes, NEW tx \in Txs, Submit(n, tx) PROVE Same \/ Receives(k, tx)
  <2>1. CASE n = k
    BY <1>5, <2>1 DEF Receives
  <2>2. CASE n # k
    BY <1>5, <2>2, <1>a DEF Submit, TypeOK
  <2> QED
    BY <2>1, <2>2
<1>6. ASSUME NEW m \in txNet, OnTx(m) PROVE Same \/ Receives(k, m.body)
  <2>1. m.body \in Txs /\ m.to \in Nodes
    BY <1>a DEF TypeOK, Messages
  <2>2. CASE m.to = k
    BY <1>6, <2>1, <2>2 DEF Receives
  <2>3. CASE m.to # k
    BY <1>6, <2>1, <2>3, <1>a DEF OnTx, TypeOK
  <2> QED
    BY <2>2, <2>3
<1> QED
  BY <1>1, <1>2, <1>3, <1>4, <1>5, <1>6 DEF Next

\* What is in a mempool after a transaction has come.
LEMMA ReceiveCopies ==
  ASSUME Ground, NEW k \in Nodes, NEW tx, Receives(k, tx)
  PROVE  /\ \A e \in pool'[k] : e \in pool[k] \/ e[2] = tx
         /\ \A e, f \in pool'[k] : e \notin pool[k] /\ f \notin pool[k] => e = f
         /\ pool[k] \subseteq pool'[k]
         /\ UNCHANGED <<slot, phase, running, history, digests, digestNet>>
<1>a. TypeOK
  BY DEF Ground, Books
<1> USE DEF clockVars, nets
<1>1. pool' = [pool EXCEPT ![k] = @ \cup {<<AssignTransactionToSlot(Genesis, now), tx>>}]
  BY DEF Receives, Submit, OnTx, Add
<1>2. UNCHANGED <<slot, phase, running, history, digests, digestNet>>
  BY DEF Receives, Submit, OnTx
<1>3. pool'[k] = pool[k] \cup {<<AssignTransactionToSlot(Genesis, now), tx>>}
  BY <1>1, <1>a DEF TypeOK
<1>4. <<AssignTransactionToSlot(Genesis, now), tx>>[2] = tx
  OBVIOUS
<1> QED
  BY <1>2, <1>3, <1>4

\* What is in a mempool after the carry of PROPOSE.
LEMMA ProposeCopies ==
  ASSUME TypeOK, NEW k \in Nodes, ToPropose(k)
  PROVE  /\ \A e \in pool'[k] : \/ e \in pool[k]
                                \/ /\ e = <<slot[k] + 1, e[2]>>
                                   /\ e[2] \in Local(k) /\ e[2] \notin Common(k)
         /\ pool[k] \subseteq pool'[k]
         /\ phase[k] = "SYNC" /\ phase'[k] = "PROPOSE" /\ slot' = slot /\ digests' = digests
<1>1. pool' = [pool EXCEPT ![k] = CarryForward(@, Excluded(k), slot[k] + 1)]
  BY DEF ToPropose
<1>2. pool'[k] = pool[k] \cup ({slot[k] + 1} \X Excluded(k))
  BY <1>1 DEF CarryForward, TypeOK
<1>3. phase[k] = "SYNC" /\ phase'[k] = "PROPOSE" /\ slot' = slot /\ digests' = digests
  BY DEF ToPropose, Leaves, NextPhase, TypeOK
<1>4. \A e \in {slot[k] + 1} \X Excluded(k) :
        e = <<slot[k] + 1, e[2]>> /\ e[2] \in Local(k) /\ e[2] \notin Common(k)
  BY DEF Excluded
<1> QED
  BY <1>2, <1>3, <1>4

\* What is in a mempool after FINALIZE.
LEMMA FinalizeCopies ==
  ASSUME TypeOK, NEW k \in Nodes, FinalizeWinner(k) \/ FinalizeSkip(k) \/ FinalizeEmergency(k)
  PROVE  /\ \A e \in pool'[k] : \/ e \in pool[k]
                                \/ /\ e = <<slot[k] + 1, e[2]>>
                                   /\ e[2] \in Local(k) /\ e[2] \in Common(k)
                                   /\ Valid(k) = {}
         /\ \A e \in pool[k] : e \in pool'[k] \/ e[1] = slot[k]
         /\ phase[k] = "PROPOSE" /\ phase'[k] = "FINALIZE" /\ slot' = slot
<1>1. phase[k] = "PROPOSE" /\ phase'[k] = "FINALIZE" /\ slot' = slot
  BY DEF FinalizeWinner, FinalizeSkip, FinalizeEmergency, Skip, Leaves, NextPhase, TypeOK
<1>2. CarriedPool(k) = pool[k] \cup ({slot[k] + 1} \X (Local(k) \cap Common(k)))
  BY DEF CarriedPool, CarryForward
<1>3. \A e \in {slot[k] + 1} \X (Local(k) \cap Common(k)) :
        e = <<slot[k] + 1, e[2]>> /\ e[2] \in Local(k) /\ e[2] \in Common(k)
  OBVIOUS
<1>4. CASE FinalizeWinner(k)
  <2>1. pool'[k] = Evict(pool[k], slot[k])
    BY <1>4 DEF FinalizeWinner, Forget, TypeOK
  <2> QED
    BY <1>1, <2>1 DEF Evict, Bucket
<1>5. CASE FinalizeSkip(k)
  <2>1. pool'[k] = Evict(CarriedPool(k), slot[k]) /\ Valid(k) = {}
    BY <1>5 DEF FinalizeSkip, Skip, Forget, TypeOK
  <2> QED
    BY <1>1, <1>2, <1>3, <2>1 DEF Evict, Bucket
<1>6. CASE FinalizeEmergency(k)
  <2>1. pool'[k] = CarriedPool(k) /\ Valid(k) = {}
    BY <1>6 DEF FinalizeEmergency, Skip, TypeOK
  <2> QED
    BY <1>1, <1>2, <1>3, <2>1
<1> QED
  BY <1>4, <1>5, <1>6

\* A node keeps what it holds in the buckets it has not settled.
LEMMA CopiesKept ==
  ASSUME TypeOK, PendingOver, [Next]_vars, NEW k \in Nodes,
         OpenSlot(k) \in Nat, OpenSlot(k)' \in Nat, OpenSlot(k)' >= OpenSlot(k),
         NEW e \in pool[k], e[1] >= OpenSlot(k)'
  PROVE  e \in pool'[k]
<1>b. e[1] \in Nat
  BY DEF TypeOK
<1> USE DEF clockVars, nets
<1>1. ASSUME \/ \E m \in digestNet : OnDigest(m)
             \/ \E m \in batchNet : OnBatch(m)
             \/ \E m \in batchNet : OnLateBatch(m)
             \/ \E n \in Nodes : StartSlotManager(n) \/ ToFreeze(n) \/ ToSync(n) \/ ToCollect(n)
             \/ Tick \/ Horizon \/ UNCHANGED vars
      PROVE  pool' = pool
  BY <1>1 DEF OnDigest, OnBatch, OnLateBatch, Tick,
              Horizon, vars, StartSlotManager, ToFreeze, ToSync, ToCollect
<1>2. ASSUME NEW n \in Nodes, NEW s \in pending[n], FinishFinalize(n, s)
      PROVE  e \in pool'[k]
  <2>1. pool' = [pool EXCEPT ![n] = Evict(pool[n], s)]
    BY <1>2 DEF FinishFinalize, Forget
  <2>2. CASE n = k
    <3>1. s < OpenSlot(k) /\ s \in Nat
      BY <2>2 DEF PendingOver, TypeOK
    <3>2. pool'[k] = Evict(pool[k], s)
      BY <2>1, <2>2 DEF TypeOK
    <3> QED
      BY <3>1, <3>2, <1>b DEF Evict, Bucket
  <2>3. CASE n # k
    BY <2>1, <2>3 DEF TypeOK
  <2> QED
    BY <2>2, <2>3
<1>3. ASSUME NEW n \in Nodes, ToPropose(n) PROVE e \in pool'[k]
  <2>1. CASE n = k
    BY <1>3, <2>1, ProposeCopies
  <2>2. CASE n # k
    BY <1>3, <2>2 DEF ToPropose, TypeOK
  <2> QED
    BY <2>1, <2>2
<1>4. ASSUME NEW n \in Nodes, FinalizeWinner(n) \/ FinalizeSkip(n) \/ FinalizeEmergency(n)
      PROVE  e \in pool'[k]
  <2>1. CASE n = k
    <3>1. phase'[k] = "FINALIZE" /\ slot' = slot
      BY <1>4, <2>1, FinalizeCopies
    <3>2. e[1] # slot[k]
      BY <3>1, <1>b DEF OpenSlot, TypeOK
    <3> QED
      BY <1>4, <2>1, <3>2, FinalizeCopies
  <2>2. CASE n # k
    BY <1>4, <2>2 DEF FinalizeWinner, FinalizeSkip, FinalizeEmergency, Forget, TypeOK
  <2> QED
    BY <2>1, <2>2
<1>5. ASSUME NEW n \in Nodes, NEW tx \in Txs, Submit(n, tx) PROVE e \in pool'[k]
  BY <1>5 DEF Submit, Add, TypeOK
<1>6. ASSUME NEW m \in txNet, OnTx(m) PROVE e \in pool'[k]
  BY <1>6 DEF OnTx, Add, TypeOK
<1>7. ASSUME NEW m \in syncNet, OnMempoolSync(m) PROVE e \in pool'[k]
  BY <1>7 DEF OnMempoolSync, CarryForward, TypeOK
<1> QED
  BY <1>1, <1>2, <1>3, <1>4, <1>5, <1>6, <1>7 DEF Next

\* How a transaction comes into a bucket of node k: it reaches the node, or is carried
\* at the start or at the end of PROPOSE.
CarriedOut(k, e) ==
  /\ Enters(k, "PROPOSE") /\ UNCHANGED <<slot, digests>>
  /\ e = <<slot[k] + 1, e[2]>> /\ e[2] \in Local(k) /\ e[2] \notin Common(k)

CarriedOn(k, e) ==
  /\ Enters(k, "FINALIZE") /\ phase[k] = "PROPOSE" /\ UNCHANGED slot
  /\ e = <<slot[k] + 1, e[2]>> /\ e[2] \in Local(k) /\ e[2] \in Common(k)
  /\ Valid(k) = {}

\* Nothing else comes into a bucket.
LEMMA NewCopies ==
  ASSUME Ground, [Next]_vars, ResyncBringsNothing, NEW k \in Nodes,
         NEW e \in pool'[k], e \notin pool[k]
  PROVE  Receives(k, e[2]) \/ CarriedOut(k, e) \/ CarriedOn(k, e)
<1>a. TypeOK
  BY DEF Ground, Books
<1>1. CASE ToPropose(k)
  BY <1>1, <1>a, ProposeCopies DEF CarriedOut, Enters
<1>2. CASE FinalizeWinner(k) \/ FinalizeSkip(k) \/ FinalizeEmergency(k)
  BY <1>2, <1>a, FinalizeCopies DEF CarriedOn, Enters
<1>3. ASSUME NEW tx, Receives(k, tx) PROVE Receives(k, e[2])
  BY <1>3, ReceiveCopies
<1> QED
  BY <1>1, <1>2, <1>3, CopySteps

\* A digest that was not there before.
LEMMA NewDigests ==
  ASSUME Ground, [Next]_vars, NEW d \in AllDigests', d \notin AllDigests
  PROVE  /\ d.nodeId \in Nodes /\ d.slot = slot[d.nodeId] /\ d.hashes = Local(d.nodeId)
         /\ ToSync(d.nodeId)
         /\ phase[d.nodeId] = "FREEZE"
<1>a. TypeOK /\ OneDigest
  BY DEF Ground, Books
<1>1. PICK n \in Nodes : ToSync(n)
  BY <1>a, DigestSteps DEF OneDigest
<1> DEFINE new == [slot |-> slot[n], nodeId |-> n, hashes |-> Snapshot(pool[n], slot[n])]
<1>2. digestNet' = digestNet \cup Publish(n, new) /\ phase[n] = "FREEZE"
  BY <1>1 DEF ToSync, Leaves
<1>3. digests' = [digests EXCEPT ![n] = ReceiveDigest(@, new)]
  BY <1>1 DEF ToSync
<1>4. \A m \in Publish(n, new) : m.body = new
  BY DEF Publish
<1>5. \A k \in Nodes : digests'[k] \subseteq digests[k] \cup {new}
  BY <1>3, <1>a DEF TypeOK, ReceiveDigest
<1>6. d = new
  <2>1. CASE \E k \in Nodes : d \in digests'[k]
    BY <2>1, <1>5 DEF AllDigests
  <2>2. CASE \E m \in digestNet' : d = m.body
    BY <2>2, <1>2, <1>4 DEF AllDigests
  <2> QED
    BY <2>1, <2>2 DEF AllDigests
<1> HIDE DEF new
<1>7. new.nodeId = n /\ new.slot = slot[n] /\ new.hashes = Local(n)
  BY DEF new, Local
<1> QED
  BY <1>1, <1>2, <1>6, <1>7

\* What a node sequences is common, and so in a digest it holds.
LEMMA WhatIsSequenced ==
  ASSUME Ground, NEW n \in Nodes, NEW b, Finalises(n, b), NEW tx \in TxSet(b)
  PROVE  /\ b \in Valid(n) /\ TxSet(b) = Common(n)
         /\ \E d \in digests[n] : d.slot = slot[n] /\ tx \in d.hashes
<1>1. TxSet(NullBatch(slot[n])) = {}
  BY DEF TxSet, NullBatch
<1>2. b \in Valid(n)
  BY <1>1 DEF Finalises
<1>3. TxSet(b) = Common(n)
  BY <1>2 DEF Valid, ValidProposal
<1>4. tx \in Common(n)
  BY <1>3
<1>5. \E d \in digests[n] : d.slot = slot[n] /\ tx \in d.hashes
  BY <1>4 DEF Common, CommonSubset, DigestsOf
<1> QED
  BY <1>2, <1>3, <1>5

\* Transactions under way, and what is known, change by submissions.
LEMMA TxSteps ==
  ASSUME [Next]_vars
  PROVE  \/ submitted' = submitted /\ txNet' \subseteq txNet
         \/ \E n \in Nodes, tx \in Txs :
              /\ Submit(n, tx)
              /\ ~Known(tx)
              /\ submitted' = submitted \cup {[tx |-> tx, at |-> now]}
              /\ txNet' = txNet \cup Publish(n, tx)
<1> USE DEF nets
<1>1. ASSUME NEW n \in Nodes, NEW tx \in Txs, Submit(n, tx)
      PROVE  /\ ~Known(tx)
             /\ submitted' = submitted \cup {[tx |-> tx, at |-> now]}
             /\ txNet' = txNet \cup Publish(n, tx)
  BY <1>1 DEF Submit, Known
<1>2. ASSUME NEW n \in Nodes,
             \/ StartSlotManager(n) \/ ToFreeze(n) \/ ToSync(n) \/ ToCollect(n) \/ ToPropose(n)
             \/ FinalizeWinner(n) \/ FinalizeSkip(n) \/ FinalizeEmergency(n)
             \/ \E s \in pending[n] : FinishFinalize(n, s)
      PROVE  submitted' = submitted /\ txNet' \subseteq txNet
  BY <1>2 DEF StartSlotManager, ToFreeze, ToSync, ToCollect, ToPropose, FinalizeWinner,
     FinalizeSkip, FinalizeEmergency, Skip, FinishFinalize, Leaves
<1>3. ASSUME \/ \E m \in txNet : OnTx(m)
             \/ \E m \in digestNet : OnDigest(m)
             \/ \E m \in batchNet : OnBatch(m)
             \/ \E m \in batchNet : OnLateBatch(m)
             \/ \E m \in syncNet : OnMempoolSync(m)
             \/ Tick \/ Horizon \/ UNCHANGED vars
      PROVE  submitted' = submitted /\ txNet' \subseteq txNet
  BY <1>3 DEF OnTx, OnDigest, OnBatch, OnLateBatch, OnMempoolSync, Tick, Horizon, vars
<1> QED
  BY <1>1, <1>2, <1>3 DEF Next

\* A transaction that is submitted is known from then on.
LEMMA KnownGrows ==
  ASSUME [Next]_vars
  PROVE  /\ \A tx : Known(tx) => Known(tx)'
         /\ IsFiniteSet(submitted) => IsFiniteSet(submitted)'
         /\ \A n \in Nodes, tx \in Txs : Submit(n, tx) => Known(tx)'
<1>1. submitted \subseteq submitted'
  BY TxSteps
<1>2. \A tx : Known(tx) => Known(tx)'
  BY <1>1 DEF Known
<1>3. ASSUME IsFiniteSet(submitted) PROVE IsFiniteSet(submitted')
  <2>1. ASSUME NEW x, submitted' = submitted \cup {x} PROVE IsFiniteSet(submitted')
    BY <1>3, <2>1, FS_AddElement
  <2>2. submitted' = submitted \/ \E x : submitted' = submitted \cup {x}
    BY TxSteps
  <2> QED
    BY <1>3, <2>1, <2>2
<1>4. ASSUME NEW n \in Nodes, NEW tx \in Txs, Submit(n, tx) PROVE Known(tx)'
  <2>1. [tx |-> tx, at |-> now] \in submitted'
    BY <1>4 DEF Submit
  <2> QED
    BY <2>1 DEF Known
<1> QED
  BY <1>2, <1>3, <1>4

\* What is held, sent or sequenced comes from clients.
LEMMA AllKnownInductive ==
  ASSUME Ground, AllKnown, [Next]_vars, ResyncBringsNothing
  PROVE  AllKnown'
<1>a. TypeOK
  BY DEF Ground, Books
<1>b. \A tx : Known(tx) => Known(tx)'
  BY KnownGrows
<1>1. IsFiniteSet(submitted)'
  BY KnownGrows DEF AllKnown
<1>2. ASSUME NEW n \in Nodes, NEW e \in pool'[n] PROVE Known(e[2])'
  <2>1. CASE e \in pool[n]
    BY <2>1, <1>b DEF AllKnown
  <2>2. CASE e[2] \in Local(n)
    <3>1. \E f \in pool[n] : f[2] = e[2]
      BY <2>2, InLocal
    <3> QED
      BY <3>1, <1>b DEF AllKnown
  <2>3. CASE Receives(n, e[2])
    <3>1. CASE Submit(n, e[2])
      BY <2>3, <3>1, KnownGrows DEF Receives
    <3>2. CASE \E m \in txNet : m.body = e[2]
      BY <3>2, <1>b DEF AllKnown
    <3> QED
      BY <2>3, <3>1, <3>2 DEF Receives
  <2> QED
    BY <2>1, <2>2, <2>3, NewCopies DEF CarriedOut, CarriedOn
<1>3. ASSUME NEW m \in txNet' PROVE Known(m.body)'
  <2>1. CASE m \in txNet
    BY <2>1, <1>b DEF AllKnown
  <2>2. CASE m \notin txNet
    <3>1. PICK n \in Nodes, tx \in Txs : Submit(n, tx) /\ m \in Publish(n, tx)
      BY <2>2, TxSteps
    <3>2. m.body = tx
      BY <3>1 DEF Publish
    <3> QED
      BY <3>1, <3>2, KnownGrows
  <2> QED
    BY <2>1, <2>2
<1>4. ASSUME NEW d \in AllDigests', NEW tx \in d.hashes PROVE Known(tx)'
  <2>1. CASE d \in AllDigests
    BY <2>1, <1>b DEF AllKnown
  <2>2. CASE d \notin AllDigests
    <3>1. d.nodeId \in Nodes /\ tx \in Local(d.nodeId)
      BY <2>2, NewDigests
    <3>2. \E f \in pool[d.nodeId] : f[2] = tx
      BY <3>1, InLocal
    <3> QED
      BY <3>1, <3>2, <1>b DEF AllKnown
  <2> QED
    BY <2>1, <2>2
<1>5. ASSUME NEW n \in Nodes, NEW s \in DOMAIN history'[n], NEW tx \in TxSet(history'[n][s])
      PROVE  Known(tx)'
  <2>1. CASE s \in DOMAIN history[n] /\ history'[n][s] = history[n][s]
    <3>1. Known(tx)
      BY <2>1 DEF AllKnown
    <3> QED
      BY <3>1, <1>b
  <2>2. ASSUME NEW b, Finalises(n, b), history'[n][s] = b PROVE Known(tx)'
    <3>1. PICK d \in digests[n] : tx \in d.hashes
      BY <2>2, WhatIsSequenced
    <3>2. d \in AllDigests
      BY DEF AllDigests
    <3>3. Known(tx)
      BY <3>1, <3>2 DEF AllKnown
    <3> QED
      BY <3>3, <1>b
  <2> QED
    BY <2>1, <2>2, WhatIsFinal DEF Ground, Books
<1> QED
  BY <1>1, <1>2, <1>3, <1>4, <1>5 DEF AllKnown

\* A transaction that is under way to a node has not been there.
LEMMA OneArrivalInductive ==
  ASSUME Ground, AllKnown, OneArrival, [Next]_vars, ResyncBringsNothing
  PROVE  OneArrival'
<1>a. TypeOK
  BY DEF Ground, Books
<1> SUFFICES ASSUME NEW m \in txNet'
             PROVE  /\ \A k \in txNet' : k.to = m.to /\ k.body = m.body => k = m
                    /\ \A e \in pool'[m.to] : e[2] # m.body
                    /\ \A d \in AllDigests' : d.nodeId = m.to => m.body \notin d.hashes
  BY DEF OneArrival
\* The transaction was under way, or it is submitted in this step.
<1>1. ASSUME m \notin txNet
      PROVE  \E n \in Nodes : \E tx \in Txs :
               Submit(n, tx) /\ m \in Publish(n, tx) /\ txNet' = txNet \cup Publish(n, tx)
  BY <1>1, TxSteps
<1>2. CASE m \notin txNet
  <2>1. PICK n \in Nodes, tx \in Txs :
               Submit(n, tx) /\ m \in Publish(n, tx) /\ txNet' = txNet \cup Publish(n, tx)
    BY <1>1, <1>2
  <2>2. ~Known(tx)
    BY <2>1 DEF Submit, Known
  <2>3. m.body = tx /\ m.to # n /\ m.to \in Nodes
    BY <2>1 DEF Publish
  <2>4. \A k \in txNet' : k.to = m.to /\ k.body = m.body => k = m
    <3>1. \A k \in txNet : k.body # tx
      BY <2>2 DEF AllKnown
    <3>2. \A k \in Publish(n, tx) : k.to = m.to => k = m
      BY <2>1 DEF Publish
    <3> QED
      BY <2>1, <2>3, <3>1, <3>2
  <2>5. pool'[m.to] = pool[m.to] /\ AllDigests' = AllDigests
    <3>1. UNCHANGED <<digests, digestNet>> /\ pool' = [pool EXCEPT ![n] = Add(@, tx, Genesis, now)]
      BY <2>1 DEF Submit
    <3>2. AllDigests' = AllDigests
      BY <3>1 DEF AllDigests
    <3> QED
      BY <3>1, <3>2, <2>3, <1>a DEF TypeOK
  <2> QED
    BY <2>2, <2>3, <2>4, <2>5 DEF AllKnown
<1>3. CASE m \in txNet
  <2>1. m.to \in Nodes /\ Known(m.body)
    BY <1>3, <1>a DEF AllKnown, TypeOK, Messages
  <2>2. \A k \in txNet' : k.to = m.to /\ k.body = m.body => k = m
    <3> SUFFICES ASSUME NEW k \in txNet', k.to = m.to, k.body = m.body, k \notin txNet
                 PROVE  FALSE
      BY <1>3 DEF OneArrival
    <3>1. PICK n \in Nodes, tx \in Txs : ~Known(tx) /\ k \in Publish(n, tx)
      BY TxSteps
    <3> QED
      BY <3>1, <2>1 DEF Publish
  <2>3. \A e \in pool'[m.to] : e[2] # m.body
    <3> SUFFICES ASSUME NEW e \in pool'[m.to], e[2] = m.body PROVE FALSE
      OBVIOUS
    <3>1. e \notin pool[m.to] /\ \A f \in pool[m.to] : f[2] # e[2]
      BY <1>3 DEF OneArrival
    <3>2. e[2] \notin Local(m.to)
      BY <3>1, InLocal
    <3>3. Receives(m.to, e[2])
      BY <2>1, <3>1, <3>2, NewCopies DEF CarriedOut, CarriedOn
    <3>4. CASE Submit(m.to, m.body)
      BY <2>1, <3>4 DEF Submit, Known
    <3>5. ASSUME NEW k \in txNet, OnTx(k), k.to = m.to, k.body = m.body PROVE FALSE
      <4>1. k = m
        BY <3>5, <1>3 DEF OneArrival
      <4>2. m \notin txNet'
        BY <3>5, <4>1 DEF OnTx
      <4> QED
        BY <4>2
    <3> QED
      BY <3>3, <3>4, <3>5 DEF Receives
  <2>4. \A d \in AllDigests' : d.nodeId = m.to => m.body \notin d.hashes
    <3> SUFFICES ASSUME NEW d \in AllDigests', d.nodeId = m.to, m.body \in d.hashes
                 PROVE  FALSE
      OBVIOUS
    <3>1. d \notin AllDigests
      BY <1>3 DEF OneArrival
    <3>2. m.body \in Local(m.to)
      BY <3>1, NewDigests
    <3>3. \E f \in pool[m.to] : f[2] = m.body
      BY <3>2, InLocal
    <3> QED
      BY <3>3, <1>3 DEF OneArrival
  <2> QED
    BY <2>2, <2>3, <2>4
<1> QED
  BY <1>2, <1>3

\* What a node votes for stays in the bucket it votes on until that is settled.
LEMMA BackedInductive ==
  ASSUME Ground, Backed, [Next]_vars, ResyncBringsNothing
  PROVE  Backed'
<1>a. TypeOK /\ OneDigest
  BY DEF Ground, Books
<1> SUFFICES ASSUME NEW d \in AllDigests', d.slot = OpenSlot(d.nodeId)', NEW tx \in d.hashes
             PROVE  \E e \in pool'[d.nodeId] : e[1] = d.slot /\ e[2] = tx
  BY DEF Backed
<1>1. \E e \in pool[d.nodeId] : e[1] = d.slot /\ e[2] = tx
  <2>1. CASE d \notin AllDigests
    BY <2>1, NewDigests, InLocal
  <2>2. CASE d \in AllDigests
    <3>1. Sent(d) /\ d.nodeId \in Nodes /\ d.slot \in Nat
      BY <2>2, <1>a, DigestsTyped DEF OneDigest, UniqueDigests, Digest
    <3>2. OpenSlot(d.nodeId) <= d.slot /\ OpenSlot(d.nodeId) \in Nat
      BY <3>1, OpenGrows
    <3>3. slot[d.nodeId] \in Nat
      BY <3>1, <1>a DEF TypeOK
    <3>4. d.slot = OpenSlot(d.nodeId)
      BY <3>1, <3>2, <3>3 DEF Sent, OpenSlot
    <3> QED
      BY <2>2, <3>4 DEF Backed
  <2> QED
    BY <2>1, <2>2
<1>2. d.nodeId \in Nodes /\ d.slot \in Nat
  <2>1. CASE d \notin AllDigests
    BY <2>1, NewDigests, <1>a DEF TypeOK
  <2>2. CASE d \in AllDigests
    BY <2>2, <1>a, DigestsTyped DEF Digest
  <2> QED
    BY <2>1, <2>2
<1>3. PICK e \in pool[d.nodeId] : e[1] = d.slot /\ e[2] = tx
  BY <1>1
<1>4. e \in pool'[d.nodeId]
  <2>1. /\ OpenSlot(d.nodeId) \in Nat /\ OpenSlot(d.nodeId)' \in Nat
        /\ OpenSlot(d.nodeId)' >= OpenSlot(d.nodeId)
    BY <1>2, OpenGrows
  <2> QED
    BY <1>2, <1>3, <2>1, CopiesKept DEF Ground, Books
<1> QED
  BY <1>3, <1>4

\* A carry leaves a second copy only behind, or in the slot that is about to end.
LEMMA OneBucketInductive ==
  ASSUME Ground, AllKnown, OneArrival, OneBucket, DigestsSpread, [Next]_vars,
         ResyncBringsNothing
  PROVE  OneBucket'
<1>a. TypeOK
  BY DEF Ground, Books
<1> SUFFICES ASSUME NEW n \in Nodes, NEW e \in pool'[n], NEW f \in pool'[n],
                    e[2] = f[2], e[1] >= OpenSlot(n)', f[1] >= OpenSlot(n)', e # f
             PROVE  phase'[n] = "PROPOSE" /\ slot'[n] \in {e[1], f[1]} /\ e[2] \notin Common(n)'
  BY DEF OneBucket
<1>1. OpenSlot(n) \in Nat /\ OpenSlot(n)' \in Nat /\ OpenSlot(n)' >= OpenSlot(n) /\ slot[n] \in Nat
  BY <1>a, OpenGrows DEF TypeOK
<1>2. \A g \in pool[n] : g = <<g[1], g[2]>> /\ g[1] \in Nat
  BY <1>a DEF TypeOK
\* Both were there.
<1>3. CASE e \in pool[n] /\ f \in pool[n]
  <2>1. phase[n] = "PROPOSE" /\ slot[n] \in {e[1], f[1]} /\ e[2] \notin Common(n)
    BY <1>1, <1>2, <1>3 DEF OneBucket
  <2>2. OpenSlot(n)' <= slot[n]
    BY <2>1
  <2>3. phase'[n] = "PROPOSE"
    <3>1. CASE FinalizeWinner(n) \/ FinalizeSkip(n) \/ FinalizeEmergency(n)
      <4>1. phase'[n] = "FINALIZE" /\ slot' = slot
        BY <3>1, <1>a, FinalizeCopies
      <4> QED
        BY <4>1, <2>2, <1>1 DEF OpenSlot
    <3>2. CASE ToPropose(n)
      BY <3>2, <2>1, <1>a, ProposeCopies
    <3>3. ASSUME NEW tx, Receives(n, tx) PROVE phase'[n] = "PROPOSE"
      BY <3>3, <2>1, ReceiveCopies
    <3> QED
      BY <2>1, <3>1, <3>2, <3>3, CopySteps
  <2>4. slot'[n] = slot[n]
    BY <2>3, OpenGrows
  <2>5. Common(n)' = Common(n)
    BY <2>1, <2>3, VotesStable
  <2> QED
    BY <2>1, <2>3, <2>4, <2>5
\* One of them has just come: g is the new one, h another.
<1>4. ASSUME NEW g \in pool'[n], NEW h \in pool'[n], g \notin pool[n], g[2] = h[2], g # h,
             g[1] >= OpenSlot(n)', h[1] >= OpenSlot(n)'
      PROVE  phase'[n] = "PROPOSE" /\ slot'[n] \in {g[1], h[1]} /\ g[2] \notin Common(n)'
  <2>1. CASE Receives(n, g[2])
    <3>1. h \in pool[n]
      BY <1>4, <2>1, ReceiveCopies
    <3>2. CASE Submit(n, g[2])
      <4>1. ~Known(g[2])
        BY <3>2 DEF Submit, Known
      <4> QED
        BY <4>1, <3>1, <1>4 DEF AllKnown
    <3>3. CASE \E m \in txNet : m.to = n /\ m.body = g[2]
      BY <3>1, <3>3, <1>4 DEF OneArrival
    <3> QED
      BY <2>1, <3>2, <3>3 DEF Receives
  <2>2. CASE CarriedOut(n, g)
    <3>1. PICK c \in pool[n] : c[1] = slot[n] /\ c[2] = g[2]
      BY <2>2, InLocal DEF CarriedOut
    <3>2. phase[n] # "PROPOSE" /\ phase'[n] = "PROPOSE" /\ slot' = slot /\ digests' = digests
          /\ g = <<slot[n] + 1, g[2]>> /\ g[2] \notin Common(n)
      BY <2>2 DEF CarriedOut, Enters
    <3>3. OpenSlot(n) = slot[n] /\ OpenSlot(n)' = slot[n]
      BY <3>2, OpenGrows DEF OpenSlot
    <3>4. h[1] = slot[n]
      <4>1. CASE h \in pool[n]
        <5>1. h = c
          BY <4>1, <3>1, <3>2, <3>3, <1>1, <1>2, <1>4 DEF OneBucket
        <5> QED
          BY <5>1, <3>1
      <4>2. CASE h \notin pool[n]
        <5>1. Receives(n, h[2]) \/ CarriedOut(n, h) \/ CarriedOn(n, h)
          BY <4>2, <1>4, NewCopies
        <5>2. ~Receives(n, h[2])
          BY <3>2, ReceiveCopies
        <5>3. h = <<slot[n] + 1, h[2]>>
          BY <5>1, <5>2 DEF CarriedOut, CarriedOn
        <5>4. h = g
          BY <5>3, <3>2, <1>4
        <5> QED
          BY <5>4, <1>4
      <4> QED
        BY <4>1, <4>2
    <3>5. Common(n)' = Common(n)
      BY <3>2 DEF Common
    <3> QED
      BY <3>2, <3>4, <3>5
  <2>3. CASE CarriedOn(n, g)
    <3>1. PICK c \in pool[n] : c[1] = slot[n] /\ c[2] = g[2]
      BY <2>3, InLocal DEF CarriedOn
    <3>2. phase[n] = "PROPOSE" /\ phase'[n] = "FINALIZE" /\ slot' = slot
          /\ g = <<slot[n] + 1, g[2]>> /\ g[2] \in Common(n)
      BY <2>3 DEF CarriedOn, Enters
    <3>3. OpenSlot(n) = slot[n] /\ OpenSlot(n)' = slot[n] + 1
      BY <3>2 DEF OpenSlot
    <3>4. h \notin pool[n]
      <4> SUFFICES ASSUME h \in pool[n] PROVE FALSE
        OBVIOUS
      <4>1. h # c
        BY <3>1, <3>3, <1>1, <1>4
      <4>2. c[1] >= OpenSlot(n) /\ h[1] >= OpenSlot(n)
        BY <3>1, <3>3, <1>1, <1>2, <1>4
      <4>3. c[2] \notin Common(n)
        BY <4>1, <4>2, <3>1, <1>4 DEF OneBucket
      <4> QED
        BY <4>3, <3>1, <3>2
    <3>5. Receives(n, h[2]) \/ CarriedOut(n, h) \/ CarriedOn(n, h)
      BY <3>4, <1>4, NewCopies
    <3>6. ~Receives(n, h[2])
      BY <3>2, ReceiveCopies
    <3>7. h = <<slot[n] + 1, h[2]>>
      BY <3>5, <3>6 DEF CarriedOut, CarriedOn
    <3> QED
      BY <3>2, <3>7, <1>4
  <2> QED
    BY <1>4, <2>1, <2>2, <2>3, NewCopies
<1>5. CASE e \notin pool[n]
  BY <1>4, <1>5
<1>6. CASE f \notin pool[n]
  BY <1>4, <1>6
<1> QED
  BY <1>3, <1>5, <1>6

\* The nodes that vote for tx, as far as node n knows.
Voters(n, tx) ==
  {v \in Nodes : \E d \in digests[n] : d.slot = slot[n] /\ d.nodeId = v /\ tx \in d.hashes}

\* What is common has the votes of a majority.
LEMMA VotersAreMany ==
  ASSUME TypeOK, OneDigest, NEW n \in Nodes, NEW tx \in Common(n)
  PROVE  Cardinality(Voters(n, tx)) >= Threshold(Cardinality(Nodes))
<1> DEFINE D == {d \in DigestsOf(digests[n], slot[n]) : tx \in d.hashes}
           V == Voters(n, tx)
           f == [d \in D |-> d.nodeId]
<1>1. \A d \in D : d \in AllDigests /\ d \in digests[n] /\ d.slot = slot[n] /\ d.nodeId \in Nodes
                   /\ tx \in d.hashes
  BY DEF AllDigests, DigestsOf, TypeOK, Digest
<1>2. f \in Injection(D, V)
  <2>1. f \in [D -> V]
    BY <1>1 DEF Voters
  <2>2. \A d, e \in D : f[d] = f[e] => d = e
    BY <1>1 DEF OneDigest, UniqueDigests
  <2> QED
    BY <2>1, <2>2 DEF Injection, IsInjective
<1>3. IsFiniteSet(V)
  <2>1. V \subseteq Nodes
    BY DEF Voters
  <2> QED
    BY <2>1, FS_Subset, ConsensusAssumption
<1>4. Cardinality(D) <= Cardinality(V)
  BY <1>2, <1>3, FS_Injection
<1>5. Cardinality(D) >= Threshold(Cardinality(Nodes))
  BY DEF Common, CommonSubset, TxCount
<1>6. IsFiniteSet(D)
  BY <1>2, <1>3, FS_Injection
<1>7. Cardinality(D) \in Nat /\ Cardinality(V) \in Nat /\ Cardinality(Nodes) \in Nat
  BY <1>3, <1>6, FS_CardinalityType, ConsensusAssumption
<1> HIDE DEF D, V
<1>8. Threshold(Cardinality(Nodes)) \in Int
  BY <1>7 DEF Threshold
<1>9. Cardinality(V) >= Threshold(Cardinality(Nodes))
  BY <1>4, <1>5, <1>7, <1>8
<1> QED
  BY <1>9 DEF V

\* Two majorities have a node in common.
LEMMA MajoritiesMeet ==
  ASSUME NEW V \in SUBSET Nodes, NEW W \in SUBSET Nodes,
         Cardinality(V) >= Threshold(Cardinality(Nodes)),
         Cardinality(W) >= Threshold(Cardinality(Nodes))
  PROVE  \E v \in V : v \in W
<1>1. IsFiniteSet(Nodes) /\ IsFiniteSet(V) /\ IsFiniteSet(W)
  BY ConsensusAssumption, FS_Subset
<1>2. Cardinality(Nodes) \in Nat /\ Cardinality(V) \in Nat /\ Cardinality(W) \in Nat
  BY <1>1, FS_CardinalityType
<1>3. Cardinality(V) + Cardinality(W) > Cardinality(Nodes)
  BY <1>2 DEF Threshold
<1>4. V \cap W # {}
  BY <1>1, <1>3, FS_MajoritiesIntersect
<1> QED
  BY <1>4

\* A node that is done with tx stays so, unless it carries it out of slot s.
LEMMA FreedStable ==
  ASSUME Ground, [Next]_vars, ResyncBringsNothing, NEW v \in Nodes, NEW tx, NEW s \in Nat,
         Freed(v, tx, s), Known(tx),
         Enters(v, "PROPOSE") => slot[v] # s,
         Enters(v, "FINALIZE") /\ phase[v] = "PROPOSE" /\ slot[v] = s => Valid(v) # {}
  PROVE  Freed(v, tx, s)'
<1>a. TypeOK
  BY DEF Ground, Books
<1>1. OpenSlot(v) \in Nat /\ OpenSlot(v)' \in Nat /\ OpenSlot(v)' >= OpenSlot(v) /\ slot[v] \in Nat
      /\ (phase'[v] = "PROPOSE" => phase[v] \in {"SYNC", "PROPOSE"})
  BY <1>a, OpenGrows DEF TypeOK
\* It votes for tx, or carries it, in slot s only.
<1>2. ASSUME tx \in Local(v), phase[v] # "FINALIZE" PROVE slot[v] = s
  <2>1. PICK c \in pool[v] : c[1] = slot[v] /\ c[2] = tx
    BY <1>2, InLocal
  <2>2. OpenSlot(v) = slot[v]
    BY <1>2 DEF OpenSlot
  <2>3. c[1] >= OpenSlot(v)
    BY <1>1, <2>1, <2>2
  <2> QED
    BY <2>1, <2>3 DEF Freed
<1>3. ASSUME NEW m \in txNet', m.to = v PROVE m.body # tx
  <2>1. CASE m \in txNet
    BY <2>1, <1>3 DEF Freed
  <2>2. ASSUME NEW n \in Nodes, NEW new \in Txs, ~Known(new), m \in Publish(n, new)
        PROVE  m.body # tx
    BY <2>2 DEF Publish
  <2> QED
    BY <2>1, <2>2, TxSteps
<1>4. ASSUME NEW e \in pool'[v], e[2] = tx, e[1] >= OpenSlot(v)' PROVE e[1] = s
  <2>1. CASE e \in pool[v]
    <3>1. e[1] \in Nat
      BY <2>1, <1>a DEF TypeOK
    <3>2. e[1] >= OpenSlot(v)
      BY <3>1, <1>1, <1>4
    <3> QED
      BY <2>1, <3>2, <1>4 DEF Freed
  <2>2. ~Receives(v, tx)
    <3>1. ~Submit(v, tx)
      BY DEF Submit, Known
    <3>2. \A m \in txNet : m.to = v => m.body # tx
      BY DEF Freed
    <3> QED
      BY <3>1, <3>2 DEF Receives
  <2>3. ~CarriedOut(v, e)
    BY <1>1, <1>2, <1>4 DEF CarriedOut, Enters
  <2>4. ~CarriedOn(v, e)
    BY <1>2, <1>4 DEF CarriedOn
  <2> QED
    BY <2>1, <2>2, <2>3, <2>4, <1>4, NewCopies
<1>5. ASSUME NEW d \in AllDigests', d.nodeId = v, tx \in d.hashes PROVE d.slot <= s
  <2>1. CASE d \in AllDigests
    BY <2>1, <1>5 DEF Freed
  <2>2. CASE d \notin AllDigests
    <3>1. d.slot = slot[v] /\ tx \in Local(v) /\ phase[v] = "FREEZE"
      BY <2>2, <1>5, NewDigests
    <3> QED
      BY <3>1, <1>2
  <2> QED
    BY <2>1, <2>2
<1> QED
  BY <1>3, <1>4, <1>5 DEF Freed

\* The first to sequence tx in a slot has the votes of nodes that will not vote for
\* it again: they have it in the bucket they are about to settle, and nowhere else.
LEMMA VotersFreed ==
  ASSUME Ground, Agreeing, OneArrival, OneBucket, Backed,
         NEW n \in Nodes, NEW b, Finalises(n, b), NEW tx \in TxSet(b),
         \A k \in Nodes : slot[n] \notin DOMAIN history[k],
         NEW v \in Voters(n, tx)
  PROVE  Freed(v, tx, slot[n])
<1>a. TypeOK /\ OneDigest
  BY DEF Ground, Books
<1>1. PICK d \in digests[n] : d.slot = slot[n] /\ d.nodeId = v /\ tx \in d.hashes
  BY DEF Voters
<1>2. v \in Nodes /\ d \in AllDigests /\ Sent(d) /\ slot[n] \in Nat /\ slot[v] \in Nat
  BY <1>1, <1>a DEF Voters, AllDigests, OneDigest, UniqueDigests, TypeOK
<1>3. OpenSlot(v) = slot[n] /\ slot[v] = slot[n]
  <2>1. OpenSlot(v) \in Nat /\ slot[n] \notin 0 .. OpenSlot(v) - 1
    BY <1>2 DEF Agreeing, FromZero, OpenSlot
  <2>2. OpenSlot(v) <= slot[n]
    BY <2>1, <1>2
  <2> QED
    BY <1>1, <1>2, <2>2 DEF Sent, OpenSlot
<1>4. \A m \in txNet : m.to = v => m.body # tx
  BY <1>1, <1>2 DEF OneArrival
<1>5. ASSUME NEW e \in pool[v], e[2] = tx, e[1] >= OpenSlot(v) PROVE e[1] = slot[n]
  <2>1. PICK c \in pool[v] : c[1] = slot[n] /\ c[2] = tx
    BY <1>1, <1>2, <1>3 DEF Backed
  <2> SUFFICES ASSUME e # c PROVE FALSE
    BY <2>1
  <2>2. c[1] >= OpenSlot(v)
    BY <1>2, <1>3, <2>1
  <2>3. phase[v] = "PROPOSE" /\ tx \notin Common(v)
    BY <1>2, <1>5, <2>1, <2>2 DEF OneBucket
  <2>4. phase[n] = "PROPOSE" /\ tx \in Common(n)
    BY WhatIsSequenced DEF Finalises
  <2>5. Common(n) = Common(v)
    BY <1>2, <1>3, <2>3, <2>4, SameDigests DEF Agreeing
  <2> QED
    BY <2>3, <2>4, <2>5
<1>6. ASSUME NEW e \in AllDigests, e.nodeId = v PROVE e.slot <= slot[n]
  <2>1. Sent(e) /\ e.slot \in Nat
    BY <1>6, <1>a, DigestsTyped DEF OneDigest, UniqueDigests, Digest
  <2> QED
    BY <1>2, <1>3, <1>6, <2>1 DEF Sent
<1> QED
  BY <1>4, <1>5, <1>6 DEF Freed

\* A transaction that has been sequenced in a slot has no majority for another one.
LEMMA NotTwice ==
  ASSUME Ground, FromZero, Spent, NEW n \in Nodes, NEW b, Finalises(n, b), NEW tx \in TxSet(b),
         NEW m \in Nodes, NEW t \in DOMAIN history[m], t < slot[n]
  PROVE  tx \notin TxSet(history[m][t])
<1>a. TypeOK /\ OneDigest
  BY DEF Ground, Books
<1> SUFFICES ASSUME tx \in TxSet(history[m][t]) PROVE FALSE
  OBVIOUS
<1>1. PICK V \in SUBSET Nodes : /\ Cardinality(V) >= Threshold(Cardinality(Nodes))
                                /\ \A v \in V : Freed(v, tx, t)
  BY DEF Spent
<1>2. tx \in Common(n)
  BY WhatIsSequenced
<1>3. Cardinality(Voters(n, tx)) >= Threshold(Cardinality(Nodes))
  BY <1>a, <1>2, VotersAreMany
<1>4. Voters(n, tx) \in SUBSET Nodes
  BY DEF Voters
<1>5. PICK v \in V : v \in Voters(n, tx)
  BY <1>1, <1>3, <1>4, MajoritiesMeet
<1>6. PICK d \in digests[n] : d.slot = slot[n] /\ d.nodeId = v /\ tx \in d.hashes
  BY <1>5 DEF Voters
<1>7. d.slot <= t
  BY <1>1, <1>5, <1>6 DEF Freed, AllDigests
<1>8. t \in Nat /\ slot[n] \in Nat
  BY <1>a DEF TypeOK
<1> QED
  BY <1>6, <1>7, <1>8

\* Nobody votes again for what has been sequenced.
LEMMA SpentInductive ==
  ASSUME Ground, Agreeing, Agreement', AllKnown, OneArrival, OneBucket, Backed, Spent,
         [Next]_vars, ProposalsTimely, ResyncBringsNothing
  PROVE  Spent'
<1>a. TypeOK /\ OneDigest
  BY DEF Ground, Books
<1> SUFFICES ASSUME NEW n \in Nodes, NEW s \in DOMAIN history'[n], NEW tx \in TxSet(history'[n][s])
             PROVE  \E V \in SUBSET Nodes : /\ Cardinality(V) >= Threshold(Cardinality(Nodes))
                                            /\ \A v \in V : Freed(v, tx, s)'
  BY DEF Spent
\* Sequenced before, by this node or by another.
<1>1. ASSUME NEW m \in Nodes, s \in DOMAIN history[m], tx \in TxSet(history[m][s])
      PROVE  \E V \in SUBSET Nodes : /\ Cardinality(V) >= Threshold(Cardinality(Nodes))
                                     /\ \A v \in V : Freed(v, tx, s)'
  <2>1. PICK V \in SUBSET Nodes : /\ Cardinality(V) >= Threshold(Cardinality(Nodes))
                                  /\ \A v \in V : Freed(v, tx, s)
    BY <1>1 DEF Spent
  <2>2. Known(tx) /\ s \in Nat /\ OpenSlot(m) \in Nat /\ s < OpenSlot(m)
    BY <1>1, <1>a DEF AllKnown, TypeOK, Agreeing, FromZero, OpenSlot
  <2>3. ASSUME NEW v \in V PROVE Freed(v, tx, s)'
    <3>1. Enters(v, "PROPOSE") => slot[v] # s
      BY <2>2 DEF ProposalsTimely
    <3>2. ASSUME Enters(v, "FINALIZE"), phase[v] = "PROPOSE", slot[v] = s, Valid(v) = {}
          PROVE  FALSE
      <4>1. ListenerChoices(v) = {}
        BY <3>2, ValidIsChoices DEF ProposalsTimely, Agreeing
      <4>2. IsDecision(history[m][s], s, {})
        BY <1>1, <3>2, <4>1 DEF Agreeing, Verdicts
      <4>3. history[m][s] = NullBatch(s)
        BY <4>2 DEF IsDecision, IsWinner
      <4> QED
        BY <1>1, <4>3 DEF TxSet, NullBatch
    <3> QED
      BY <2>1, <2>2, <3>1, <3>2, FreedStable
  <2> QED
    BY <2>1, <2>3
<1>2. ASSUME NEW b, Finalises(n, b), s = slot[n], history'[n][s] = b
      PROVE  \E V \in SUBSET Nodes : /\ Cardinality(V) >= Threshold(Cardinality(Nodes))
                                     /\ \A v \in V : Freed(v, tx, s)'
  <2>1. CASE \E m \in Nodes : s \in DOMAIN history[m]
    <3>1. PICK m \in Nodes : s \in DOMAIN history[m]
      BY <2>1
    <3>2. s \in DOMAIN history'[m] /\ (m # n => history'[m][s] = history[m][s])
      BY <1>2, <3>1, <1>a DEF Finalises, Record, TypeOK
    <3>3. m # n
      <4>1. slot[n] \in Nat /\ OpenSlot(n) = slot[n] /\ DOMAIN history[n] = 0 .. OpenSlot(n) - 1
        BY <1>2, <1>a DEF Finalises, OpenSlot, Agreeing, FromZero, TypeOK
      <4>2. s \notin DOMAIN history[n]
        BY <4>1, <1>2
      <4> QED
        BY <3>1, <4>2
    <3>4. history[m][s] = history'[n][s]
      BY <3>2, <3>3 DEF Agreement
    <3> QED
      BY <1>1, <3>1, <3>4
  <2>2. CASE \A m \in Nodes : s \notin DOMAIN history[m]
    <3>1. tx \in TxSet(b) /\ b \in Valid(n) /\ tx \in Common(n)
      BY <1>2, WhatIsSequenced
    <3>2. Cardinality(Voters(n, tx)) >= Threshold(Cardinality(Nodes))
      BY <1>a, <3>1, VotersAreMany
    <3>3. \E d \in AllDigests : tx \in d.hashes
      BY <1>2, <3>1, WhatIsSequenced DEF AllDigests
    <3>4. Known(tx) /\ s \in Nat
      BY <3>3, <1>2, <1>a DEF AllKnown, TypeOK
    <3>5. ASSUME NEW v \in Voters(n, tx) PROVE Freed(v, tx, s)'
      <4>1. v \in Nodes
        BY DEF Voters
      <4>2. phase'[v] = IF v = n THEN "FINALIZE" ELSE phase[v]
        BY <1>2, <4>1, <1>a DEF Finalises, TypeOK
      <4>3. Freed(v, tx, s)
        BY <1>2, <2>2, <3>1, VotersFreed
      <4>4. ~Enters(v, "PROPOSE")
        BY <4>2 DEF Enters
      <4>5. Enters(v, "FINALIZE") => Valid(v) # {}
        BY <4>2, <3>1 DEF Enters
      <4> QED
        BY <3>4, <4>1, <4>3, <4>4, <4>5, FreedStable
    <3>6. Voters(n, tx) \in SUBSET Nodes
      BY DEF Voters
    <3> QED
      BY <3>2, <3>5, <3>6
  <2> QED
    BY <2>1, <2>2
<1> QED
  BY <1>1, <1>2, WhatIsFinal DEF Ground, Books

\* Nobody sequences a transaction twice.
LEMMA SequencedOnceInductive ==
  ASSUME Ground, FromZero, Spent, SequencedOnce, [Next]_vars
  PROVE  SequencedOnce'
<1>a. TypeOK
  BY DEF Ground, Books
<1>1. ASSUME NEW n \in Nodes, NEW s \in DOMAIN history'[n], NEW t \in DOMAIN history'[n],
             t < s, NEW tx \in TxSet(history'[n][s]), tx \in TxSet(history'[n][t])
      PROVE  FALSE
  <2>1. \A r \in DOMAIN history'[n] :
          \/ r \in DOMAIN history[n] /\ history'[n][r] = history[n][r]
          \/ \E b : Finalises(n, b) /\ r = slot[n] /\ history'[n][r] = b
    BY WhatIsFinal DEF Ground, Books
  <2>2. slot[n] \in Nat /\ DOMAIN history[n] \subseteq Nat
    BY <1>a DEF TypeOK
  <2>3. CASE s \in DOMAIN history[n] /\ history'[n][s] = history[n][s]
    <3>1. t # slot[n] \/ ~\E b : Finalises(n, b)
      BY <2>2, <2>3, <1>1 DEF FromZero, OpenSlot, Finalises
    <3>2. t \in DOMAIN history[n] /\ history'[n][t] = history[n][t]
      BY <2>1, <3>1
    <3>3. TxSet(history[n][s]) \cap TxSet(history[n][t]) = {}
      BY <2>2, <2>3, <3>2, <1>1 DEF SequencedOnce
    <3> QED
      BY <2>3, <3>2, <3>3, <1>1
  <2>4. ASSUME NEW b, Finalises(n, b), s = slot[n], history'[n][s] = b PROVE FALSE
    <3>1. t \in DOMAIN history[n] /\ history'[n][t] = history[n][t]
      BY <2>1, <2>2, <2>4, <1>1
    <3> QED
      BY <2>4, <3>1, <1>1, NotTwice
  <2> QED
    BY <2>1, <2>3, <2>4
<1>2. DOMAIN history' = Nodes /\ \A n \in Nodes : DOMAIN history'[n] \subseteq Nat
  <2>1. TypeOK'
    BY <1>a, TypeInductive
  <2> QED
    BY <2>1 DEF TypeOK
<1> SUFFICES ASSUME NEW n \in Nodes, NEW s \in DOMAIN history'[n], NEW t \in DOMAIN history'[n],
                    s # t, NEW tx \in TxSet(history'[n][s]), tx \in TxSet(history'[n][t])
             PROVE  FALSE
  BY DEF SequencedOnce
<1>3. s \in Nat /\ t \in Nat
  BY <1>2
<1>4. s < t \/ t < s
  BY <1>3
<1>5. CASE t < s
  BY <1>1, <1>5
<1>6. CASE s < t
  BY <1>1, <1>6
<1> QED
  BY <1>4, <1>5, <1>6

\* Every transaction that reaches a mempool is accounted for.
LEMMA AccountedInductive ==
  ASSUME Ground, Agreeing, Agreement', Accounted, [Next]_vars, ProposalsTimely,
         ResyncBringsNothing
  PROVE  Accounted'
<1>1. AllKnown' /\ OneArrival' /\ OneBucket'
  BY AllKnownInductive, OneArrivalInductive, OneBucketInductive DEF Accounted, Agreeing
<1>2. Backed' /\ Spent' /\ SequencedOnce'
  BY BackedInductive, SpentInductive, SequencedOnceInductive DEF Accounted, Agreeing
<1> QED
  BY <1>1, <1>2 DEF Accounted

\* To begin with there is nothing to account for.
LEMMA AccountedInit == ASSUME Init PROVE Accounted
<1>1. AllDigests = {}
  BY DEF Init, AllDigests
<1>2. \A n \in Nodes : pool[n] = {} /\ DOMAIN history[n] = {}
  BY DEF Init
<1>3. submitted = {} /\ txNet = {}
  BY DEF Init
<1>4. AllKnown
  BY <1>1, <1>2, <1>3, FS_EmptySet DEF AllKnown
<1>5. OneArrival /\ OneBucket /\ Backed /\ Spent /\ SequencedOnce
  BY <1>1, <1>2, <1>3 DEF OneArrival, OneBucket, Backed, Spent, SequencedOnce
<1> QED
  BY <1>4, <1>5 DEF Accounted

\* A step that changes nothing brings nothing.
LEMMA ResyncAlways == [ResyncBringsNothing]_vars => ResyncBringsNothing
  BY DEF ResyncBringsNothing, vars

\* Both invariants hold in such a run.
LEMMA AccountedCorrect ==
  ASSUME LastStart < Genesis + BaseDelta, OutputsAreNumbers
  PROVE  Spec /\ DigestsInTime /\ ProposalsInTime /\ [][ResyncBringsNothing]_vars
           => [](Ground /\ Agreeing /\ Accounted)
<1>1. Init => Agreeing /\ Accounted
  BY AgreeingInit, AccountedInit
<1>2. Ground /\ Agreeing /\ Accounted /\ [Next]_vars /\ [DigestsTimely]_vars
        /\ [ProposalsTimely]_vars /\ [ResyncBringsNothing]_vars
        => Agreeing' /\ Accounted'
  <2> SUFFICES ASSUME Ground, Agreeing, Accounted, [Next]_vars, DigestsTimely, ProposalsTimely,
                      ResyncBringsNothing
               PROVE  Agreeing' /\ Accounted'
    BY TimelyAlways, ResyncAlways
  <2>1. Agreeing'
    BY AgreeingInductive
  <2>2. Agreement'
    BY <2>1 DEF Agreeing
  <2> QED
    BY <2>1, <2>2, AccountedInductive
<1> QED
  BY <1>1, <1>2, GroundCorrect, PTL DEF Spec, DigestsInTime, ProposalsInTime

\* "Zero transaction duplication": carries, skips, exclusions and late arrivals never
\* let a transaction be sequenced in two slots, because the nodes that vote for it hold
\* one copy of it each, in the slot they settle.  It takes a resync to bring back what
\* was sequenced.
THEOREM SequencedOnceCorrect ==
  ASSUME LastStart < Genesis + BaseDelta, OutputsAreNumbers
  PROVE  Spec /\ DigestsInTime /\ ProposalsInTime /\ [][ResyncBringsNothing]_vars
           => []SequencedOnce
<1>1. Accounted => SequencedOnce
  BY DEF Accounted
<1> QED
  BY <1>1, AccountedCorrect, PTL

-------------------------------------------------------------------------------
\* The ledger.

\* OrderingEngine.order returns a list of what it is given.  (SortSeq, which Order
\* is defined with, is a definition the provers cannot expand.)
OrdersAreLists ==
  \A S \in SUBSET Txs, r \in Int : IsFiniteSet(S) => Order(S, r) \in Seq(S)

\* A history has lists without duplicates.
ListsOnce ==
  \A n \in Nodes : \A s \in DOMAIN history[n] :
    history[n][s].txs \in SetToSeqs(TxSet(history[n][s]))

\* What passes validation is such a list: it has as many places as there are
\* transactions in it.
LEMMA ValidLists ==
  ASSUME OrdersAreLists, OutputsAreNumbers, NEW p, NEW s \in Nat, NEW r,
         NEW common \in SUBSET Txs, IsFiniteSet(common),
         ValidProposal(p, s, Seed(r, s), common)
  PROVE  p.txs \in SetToSeqs(TxSet(p))
<1>1. /\ TxSet(p) = common /\ Len(p.txs) = Cardinality(common)
      /\ p.txs = Order(common, p.randomness)
  BY DEF ValidProposal
<1>2. p.txs \in Seq(common)
  <2>1. p.randomness \in Int
    BY DEF ValidProposal, Verify, OutputsAreNumbers
  <2> QED
    BY <1>1, <2>1 DEF OrdersAreLists
<1> DEFINE q == p.txs
           D == 1 .. Cardinality(common)
<1>3. q \in [D -> common]
  BY <1>1, <1>2
<1>4. \A tx \in common : \E i \in D : q[i] = tx
  BY <1>1 DEF TxSet
<1>5. q \in Surjection(D, common)
  BY <1>3, <1>4 DEF Surjection
<1>6. Cardinality(common) \in Nat
  BY FS_CardinalityType
<1>7. IsFiniteSet(D) /\ Cardinality(D) = Cardinality(common)
  BY <1>6, FS_Interval
<1>8. q \in Injection(D, common)
  BY <1>5, <1>7, FS_SurjSameCardinalityImpliesInj
<1>9. \A i, j \in D : i # j => q[i] # q[j]
  BY <1>8 DEF Injection, IsInjective
<1> QED
  BY <1>1, <1>3, <1>9 DEF SetToSeqs

\* A skipped slot has the empty list.
LEMMA NullLists ==
  ASSUME NEW s
  PROVE  NullBatch(s).txs \in SetToSeqs({}) /\ TxSet(NullBatch(s)) = {}
<1>1. NullBatch(s).txs = <<>> /\ TxSet(NullBatch(s)) = {}
  BY DEF NullBatch, TxSet
<1>2. Cardinality({}) = 0
  BY FS_EmptySet
<1>3. 1 .. 0 = {}
  OBVIOUS
<1>4. <<>> \in [{} -> {}]
  OBVIOUS
<1> QED
  BY <1>1, <1>2, <1>3, <1>4 DEF SetToSeqs

\* What is sequenced is such a list.
LEMMA FinalLists ==
  ASSUME OrdersAreLists, OutputsAreNumbers, Ground, AllKnown,
         NEW n \in Nodes, NEW b, Finalises(n, b)
  PROVE  b.txs \in SetToSeqs(TxSet(b))
<1>a. TypeOK
  BY DEF Ground, Books
<1>1. CASE b = NullBatch(slot[n])
  BY <1>1, NullLists
<1>2. CASE b \in Valid(n)
  <2>1. /\ ValidProposal(b, slot[n], Seed(PrevRoot(history[n], slot[n]), slot[n]), Common(n))
        /\ slot[n] \in Nat
    BY <1>2, <1>a DEF Valid, SeedOf, TypeOK
  <2>2. \A tx \in Common(n) : Known(tx) /\ tx \in Txs
    BY <1>a DEF AllKnown, AllDigests, Common, CommonSubset, DigestsOf, TypeOK, Digest
  <2> DEFINE T == {e.tx : e \in submitted}
  <2>3. IsFiniteSet(submitted)
    BY DEF AllKnown
  <2>4. IsFiniteSet(T)
    <3> DEFINE f == [e \in submitted |-> e.tx]
    <3>1. f \in Surjection(submitted, T)
      BY DEF Surjection
    <3> QED
      BY <2>3, <3>1, FS_Surjection
  <2>5. Common(n) \in SUBSET T
    BY <2>2 DEF Known
  <2>6. IsFiniteSet(Common(n))
    BY <2>4, <2>5, FS_Subset
  <2> QED
    BY <2>1, <2>2, <2>6, ValidLists
<1> QED
  BY <1>1, <1>2 DEF Finalises

\* No step puts anything else into a history.
LEMMA ListsOnceInductive ==
  ASSUME OrdersAreLists, OutputsAreNumbers, Ground, AllKnown, ListsOnce, [Next]_vars
  PROVE  ListsOnce'
<1> SUFFICES ASSUME NEW n \in Nodes, NEW s \in DOMAIN history'[n]
             PROVE  history'[n][s].txs \in SetToSeqs(TxSet(history'[n][s]))
  BY DEF ListsOnce
<1>1. CASE s \in DOMAIN history[n] /\ history'[n][s] = history[n][s]
  BY <1>1 DEF ListsOnce
<1>2. ASSUME NEW b, Finalises(n, b), history'[n][s] = b
      PROVE  history'[n][s].txs \in SetToSeqs(TxSet(history'[n][s]))
  BY <1>2, FinalLists
<1> QED
  BY <1>1, <1>2, WhatIsFinal DEF Ground, Books

\* The clock stops at the horizon.
BeforeHorizon == now <= MaxNow

\* It does not move past it.
LEMMA BeforeHorizonInductive ==
  ASSUME TypeOK, BeforeHorizon, [Next]_vars
  PROVE  BeforeHorizon'
<1>1. CASE Tick
  BY <1>1, SequencerAssumption DEF Tick, BeforeHorizon, TypeOK
<1>2. CASE now' = now
  BY <1>2 DEF BeforeHorizon
<1> QED
  BY <1>1, <1>2, ClockSteps

\* Slots that are finalised before the horizon.
LEMMA SlotsBounded ==
  ASSUME Ground, BeforeHorizon, NEW n \in Nodes, NEW b, Finalises(n, b)
  PROVE  slot[n] \in 0 .. MaxNow \div BaseDelta
<1>1. slot[n] \in Nat /\ now \in Nat /\ now >= Start(Genesis, slot[n] + 1)
  BY DEF Ground, Books, AllOnTime, OnTime, Finalises, TypeOK
<1>2. Genesis \in Nat /\ BaseDelta \in Nat \ {0} /\ MaxNow \in Nat /\ now <= MaxNow
  BY SequencerAssumption, TimingAssumption DEF BeforeHorizon
<1>3. Start(Genesis, slot[n] + 1) = Genesis + slot[n] * BaseDelta + BaseDelta
      /\ slot[n] * BaseDelta \in Nat
  BY <1>1, <1>2 DEF Start
<1>4. slot[n] * BaseDelta <= MaxNow
  BY <1>1, <1>2, <1>3
<1>5. slot[n] <= MaxNow \div BaseDelta
  BY <1>1, <1>2, <1>4
<1> QED
  BY <1>1, <1>2, <1>5

\* What Promise puts for the variables of Ledger.
TheSubmitted == {e.tx : e \in submitted}
TheLedger == [s \in Decided |-> history[CHOOSE n \in Nodes : s \in DOMAIN history[n]][s].txs]
TheView == [n \in Nodes |-> [s \in DOMAIN history[n] |-> history[n][s].txs]]

\* Nodes that agree on a slot agree with the one that is chosen for the ledger.
LEMMA LedgerOf ==
  ASSUME NEW h,
         \A n, m \in Nodes : \A s \in DOMAIN h[n] \cap DOMAIN h[m] : h[n][s] = h[m][s],
         NEW m \in Nodes, NEW t \in DOMAIN h[m]
  PROVE  h[CHOOSE n \in Nodes : t \in DOMAIN h[n]][t] = h[m][t]
<1> DEFINE c == CHOOSE n \in Nodes : t \in DOMAIN h[n]
<1>1. c \in Nodes /\ t \in DOMAIN h[c]
  OBVIOUS
<1> QED
  BY <1>1

\* A slot that is finalised is added to the ledger, or was in it.
LEMMA LedgerSteps ==
  ASSUME Ground, Agreeing, Agreement', NEW n \in Nodes, NEW b, Finalises(n, b)
  PROVE  /\ Decided' = Decided \cup {slot[n]}
         /\ TheLedger' = [t \in Decided \cup {slot[n]} |->
                             IF t = slot[n] THEN b.txs ELSE TheLedger[t]]
         /\ TheView' = [TheView EXCEPT ![n] = [t \in DOMAIN history[n] \cup {slot[n]} |->
                                        IF t = slot[n] THEN b.txs ELSE TheView[n][t]]]
<1>a. TypeOK
  BY DEF Ground, Books
<1> DEFINE s == slot[n]
           g == [t \in DOMAIN history[n] \cup {s} |-> IF t = s THEN b ELSE history[n][t]]
<1>1. history' = [history EXCEPT ![n] = g]
  BY DEF Finalises, Record
<1>2. /\ DOMAIN history = Nodes /\ history'[n] = g
      /\ \A m \in Nodes : m # n => history'[m] = history[m]
  BY <1>1, <1>a DEF TypeOK
<1>3. DOMAIN g = DOMAIN history[n] \cup {s} /\ g[s] = b
      /\ \A t \in DOMAIN history[n] : t # s => g[t] = history[n][t]
  OBVIOUS
<1> HIDE DEF g
<1>4. \A m \in Nodes : \A t :
        t \in DOMAIN history'[m] <=> t \in DOMAIN history[m] \/ (m = n /\ t = s)
  BY <1>2, <1>3
<1>5. Decided' = Decided \cup {s}
  BY <1>4 DEF Decided
<1>6. ASSUME NEW t \in Decided, t # s PROVE TheLedger'[t] = TheLedger[t]
  <2>1. PICK m \in Nodes : t \in DOMAIN history[m]
    BY DEF Decided
  <2>2. t \in DOMAIN history'[m] /\ history'[m][t] = history[m][t]
    BY <2>1, <1>2, <1>3, <1>4, <1>6
  <2>3. history'[CHOOSE k \in Nodes : t \in DOMAIN history'[k]][t] = history'[m][t]
    BY <2>2, LedgerOf DEF Agreement
  <2>4. history[CHOOSE k \in Nodes : t \in DOMAIN history[k]][t] = history[m][t]
    BY <2>1, LedgerOf DEF Agreeing, Agreement
  <2>5. t \in Decided'
    BY <1>5
  <2> QED
    BY <2>2, <2>3, <2>4, <2>5 DEF TheLedger
<1>7. TheLedger'[s] = b.txs
  <2>1. s \in DOMAIN history'[n] /\ history'[n][s] = b /\ s \in Decided'
    BY <1>2, <1>3, <1>5
  <2>2. history'[CHOOSE k \in Nodes : s \in DOMAIN history'[k]][s] = history'[n][s]
    BY <2>1, LedgerOf DEF Agreement
  <2> QED
    BY <2>1, <2>2 DEF TheLedger
<1>8. TheLedger' = [t \in Decided \cup {s} |-> IF t = s THEN b.txs ELSE TheLedger[t]]
  <2>1. TheLedger' = [t \in Decided' |-> TheLedger'[t]]
    BY DEF TheLedger
  <2> QED
    BY <2>1, <1>5, <1>6, <1>7
<1>9. TheView' = [TheView EXCEPT ![n] = [t \in DOMAIN history[n] \cup {s} |->
                                           IF t = s THEN b.txs ELSE TheView[n][t]]]
  <2> DEFINE v == [t \in DOMAIN history[n] \cup {s} |-> IF t = s THEN b.txs ELSE TheView[n][t]]
  <2>1. TheView'[n] = v
    <3>1. TheView'[n] = [t \in DOMAIN g |-> g[t].txs]
      BY <1>2 DEF TheView
    <3>2. \A t \in DOMAIN history[n] : TheView[n][t] = history[n][t].txs
      BY DEF TheView
    <3> QED
      BY <3>1, <3>2, <1>3
  <2>2. \A m \in Nodes : m # n => TheView'[m] = TheView[m]
    BY <1>2 DEF TheView
  <2>3. TheView' = [m \in Nodes |-> TheView'[m]] /\ DOMAIN TheView = Nodes
    BY DEF TheView
  <2> HIDE DEF v
  <2>4. TheView' = [TheView EXCEPT ![n] = v]
    BY <2>1, <2>2, <2>3
  <2> QED
    BY <2>4 DEF v
<1> QED
  BY <1>5, <1>8, <1>9

\* The first node to finalise a slot decides it.
LEMMA FirstDecides ==
  ASSUME Ground, Agreeing, Agreement', AllKnown, Spent, ListsOnce,
         OrdersAreLists, OutputsAreNumbers, [Next]_vars, NEW n \in Nodes, NEW b, Finalises(n, b),
         NEW s, slot[n] = s, s \notin Decided
  PROVE  Promise!Decide(n, s)
<1>a. TypeOK
  BY DEF Ground, Books
<1>1. \A t \in Decided : t < s
  <2> SUFFICES ASSUME NEW m \in Nodes, NEW t \in DOMAIN history[m] PROVE t < s
    BY DEF Decided
  <2>1. OpenSlot(m) \in Nat /\ s \in Nat /\ DOMAIN history[m] = 0 .. OpenSlot(m) - 1
    BY <1>a DEF TypeOK, OpenSlot, Agreeing, FromZero
  <2>2. s \notin 0 .. OpenSlot(m) - 1
    BY <2>1 DEF Decided
  <2> QED
    BY <2>1, <2>2
<1>2. b.txs \in SetToSeqs(TxSet(b))
  BY FinalLists
<1>3. \A tx \in TxSet(b) : tx \in TheSubmitted
  <2> SUFFICES ASSUME NEW tx \in TxSet(b) PROVE Known(tx)
    BY DEF Known, TheSubmitted
  <2>1. \E d \in AllDigests : tx \in d.hashes
    BY WhatIsSequenced DEF AllDigests
  <2> QED
    BY <2>1 DEF AllKnown
<1>4. ASSUME NEW tx \in TxSet(b), NEW t \in Decided, tx \in ToSet(TheLedger[t]) PROVE FALSE
  <2>1. PICK m \in Nodes : t \in DOMAIN history[m]
    BY DEF Decided
  <2>2. TheLedger[t] = history[m][t].txs
    BY <2>1, LedgerOf DEF Agreeing, Agreement, TheLedger
  <2>3. tx \in ToSet(history[m][t].txs) /\ history[m][t].txs \in SetToSeqs(TxSet(history[m][t]))
    BY <1>4, <2>1, <2>2 DEF ListsOnce
  <2>4. tx \in TxSet(history[m][t])
    BY <2>3 DEF ToSet, SetToSeqs
  <2>5. t < s
    BY <1>1
  <2> QED
    BY <2>1, <2>4, <2>5, NotTwice DEF Agreeing
<1>5. TheSubmitted' = TheSubmitted
  <2>1. submitted' = submitted
    <3>1. ASSUME NEW k \in Nodes, NEW tx \in Txs, Submit(k, tx) PROVE FALSE
      BY <3>1, <1>a DEF Submit, Finalises, clockVars, TypeOK
    <3> QED
      BY <3>1, TxSteps
  <2> QED
    BY <2>1 DEF TheSubmitted
<1>6. DOMAIN TheLedger = Decided /\ DOMAIN TheView = Nodes /\ DOMAIN TheView[n] = DOMAIN history[n]
  BY DEF TheLedger, TheView
<1>b. TheLedger' = [t \in Decided \cup {slot[n]} |->
                         IF t = slot[n] THEN b.txs ELSE TheLedger[t]]
     /\ TheView' = [TheView EXCEPT ![n] = [t \in DOMAIN history[n] \cup {slot[n]} |->
                                             IF t = slot[n] THEN b.txs ELSE TheView[n][t]]]
  BY LedgerSteps
<1>7. TheLedger' = [t \in DOMAIN TheLedger \cup {s} |-> IF t = s THEN b.txs ELSE TheLedger[t]]
  BY <1>6, <1>b
<1>8. TheView' = [TheView EXCEPT ![n] = [t \in DOMAIN TheView[n] \cup {s} |->
                                           IF t = s THEN b.txs ELSE TheView[n][t]]]
  BY <1>6, <1>b
<1>9. TxSet(b) \in SUBSET (TheSubmitted \ Promise!Sequenced)
  <2>1. Promise!Sequenced = UNION {Promise!ToSet(TheLedger[t]) : t \in DOMAIN TheLedger}
    BY DEF Promise!Sequenced, TheLedger
  <2>2. \A q : Promise!ToSet(q) = ToSet(q)
    BY DEF Promise!ToSet, ToSet
  <2> QED
    BY <1>3, <1>4, <1>6, <2>1, <2>2
<1>10. b.txs \in Promise!SetToSeqs(TxSet(b))
  <2>1. Promise!Cardinality(TxSet(b)) = Cardinality(TxSet(b))
    BY DEF Promise!Cardinality, Cardinality
  <2> QED
    BY <1>2, <2>1 DEF Promise!SetToSeqs, SetToSeqs
<1>11. \A t \in DOMAIN TheLedger : t < s
  BY <1>1, <1>6
<1>12. TheLedger' = Promise!With(TheLedger, s, b.txs)
  BY <1>7 DEF Promise!With
<1>13. TheView' = [TheView EXCEPT ![n] = Promise!With(@, s, b.txs)]
  BY <1>8 DEF Promise!With
<1> QED
  BY <1>5, <1>9, <1>10, <1>11, <1>12, <1>13
     DEF Promise!Decide, TheSubmitted, TheLedger, TheView

\* The others follow.
LEMMA OthersFollow ==
  ASSUME Ground, Agreeing, Agreement', [Next]_vars,
         NEW n \in Nodes, NEW b, Finalises(n, b),
         NEW s, slot[n] = s, s \in Decided
  PROVE  Promise!Follow(n, s)
<1>a. TypeOK
  BY DEF Ground, Books
<1>1. \A t \in DOMAIN TheView[n] : t < s
  <2>1. OpenSlot(n) = s /\ s \in Nat /\ DOMAIN history[n] = 0 .. OpenSlot(n) - 1
    BY <1>a DEF TypeOK, OpenSlot, Finalises, Agreeing, FromZero
  <2> QED
    BY <2>1 DEF TheView
<1>2. TheLedger[s] = b.txs
  <2>1. PICK m \in Nodes : s \in DOMAIN history[m]
    BY DEF Decided
  <2>2. TheLedger[s] = history[m][s].txs
    <3>1. history[CHOOSE k \in Nodes : s \in DOMAIN history[k]][s] = history[m][s]
      BY <2>1, LedgerOf DEF Agreeing, Agreement
    <3> QED
      BY <3>1 DEF TheLedger
  <2>3. s \in DOMAIN history'[m] /\ s \in DOMAIN history'[n] /\ history'[n][s] = b
        /\ (m # n => history'[m] = history[m])
    BY <2>1, <1>a DEF Finalises, Record, TypeOK
  <2>4. m # n
    <3>1. s \in Nat /\ OpenSlot(n) = s /\ DOMAIN history[n] = 0 .. OpenSlot(n) - 1
      BY <1>a DEF Finalises, OpenSlot, Agreeing, FromZero, TypeOK
    <3>2. s \notin DOMAIN history[n]
      BY <3>1
    <3> QED
      BY <2>1, <3>2
  <2>5. history[m][s] = b
    BY <2>3, <2>4 DEF Agreement
  <2> QED
    BY <2>2, <2>5
<1>3. TheSubmitted' = TheSubmitted
  <2>1. submitted' = submitted
    <3>1. ASSUME NEW k \in Nodes, NEW tx \in Txs, Submit(k, tx) PROVE FALSE
      BY <3>1, <1>a DEF Submit, Finalises, clockVars, TypeOK
    <3> QED
      BY <3>1, TxSteps
  <2> QED
    BY <2>1 DEF TheSubmitted
<1>4. DOMAIN TheLedger = Decided /\ DOMAIN TheView = Nodes /\ DOMAIN TheView[n] = DOMAIN history[n]
  BY DEF TheLedger, TheView
<1>b. TheLedger' = [t \in Decided \cup {slot[n]} |->
                         IF t = slot[n] THEN b.txs ELSE TheLedger[t]]
     /\ TheView' = [TheView EXCEPT ![n] = [t \in DOMAIN history[n] \cup {slot[n]} |->
                                             IF t = slot[n] THEN b.txs ELSE TheView[n][t]]]
  BY LedgerSteps
<1>5. TheLedger' = TheLedger
  <2>0. Decided \cup {s} = Decided
    OBVIOUS
  <2>1. TheLedger' = [t \in Decided |-> IF t = s THEN b.txs ELSE TheLedger[t]]
    <3>1. TheLedger' = [t \in Decided \cup {s} |-> IF t = s THEN b.txs ELSE TheLedger[t]]
      BY <1>b
    <3> QED
      BY <2>0, <3>1
  <2>2. TheLedger = [t \in Decided |-> TheLedger[t]]
    BY DEF TheLedger
  <2> QED
    BY <2>1, <2>2, <1>2
<1>6. TheView' = [TheView EXCEPT ![n] = [t \in DOMAIN TheView[n] \cup {s} |->
                                           IF t = s THEN TheLedger[s] ELSE TheView[n][t]]]
  <2>1. TheView' = [TheView EXCEPT ![n] = [t \in DOMAIN TheView[n] \cup {s} |->
                                             IF t = s THEN b.txs ELSE TheView[n][t]]]
    BY <1>4, <1>b
  <2> QED
    BY <1>2, <2>1
<1> QED
  BY <1>1, <1>3, <1>4, <1>5, <1>6
     DEF Promise!Follow, Promise!With, TheSubmitted, TheLedger, TheView

\* A step of the network submits a transaction, decides a slot, follows a decision, or
\* is none of the ledger's.
LEMMA LedgerNext ==
  ASSUME Ground, Agreeing, Agreement', AllKnown, Spent, ListsOnce,
         OrdersAreLists, OutputsAreNumbers, BeforeHorizon, [Next]_vars
  PROVE  [Promise!Next]_(Promise!vars)
<1>a. TypeOK
  BY DEF Ground, Books
<1>1. ASSUME history' = history
      PROVE  TheLedger' = TheLedger /\ TheView' = TheView
  BY <1>1 DEF TheLedger, TheView, Decided
<1>2. ASSUME NEW k \in Nodes, NEW tx \in Txs, Submit(k, tx) PROVE Promise!Next
  <2>1. history' = history
    BY <1>2 DEF Submit
  <2>2. submitted' = submitted \cup {[tx |-> tx, at |-> now]}
    BY <1>2 DEF Submit
  <2>3. TheSubmitted' = TheSubmitted \cup {tx}
    <3> DEFINE r == [tx |-> tx, at |-> now]
    <3>1. TheSubmitted' = {e.tx : e \in submitted'} /\ r.tx = tx
      BY DEF TheSubmitted
    <3>2. submitted' = submitted \cup {r}
      BY <2>2
    <3> HIDE DEF r
    <3>3. {e.tx : e \in submitted'} = {e.tx : e \in submitted} \cup {tx}
      BY <3>1, <3>2
    <3> QED
      BY <3>1, <3>3 DEF TheSubmitted
  <2>4. Promise!Submit(tx)
    BY <1>1, <2>1, <2>3 DEF Promise!Submit, TheSubmitted, TheLedger, TheView
  <2> QED
    BY <2>4 DEF Promise!Next
<1>3. ASSUME NEW n \in Nodes, NEW b, Finalises(n, b) PROVE Promise!Next
  <2>1. PICK s \in 0 .. MaxNow \div BaseDelta : s = slot[n]
    BY <1>3, SlotsBounded
  <2>2. Promise!Decide(n, s) \/ Promise!Follow(n, s)
    BY <1>3, <2>1, FirstDecides, OthersFollow
  <2>3. TheView'[n] # TheView[n]
    <3>1. slot[n] \in Nat /\ OpenSlot(n) = slot[n] /\ DOMAIN history[n] = 0 .. OpenSlot(n) - 1
      BY <1>3, <1>a DEF Finalises, OpenSlot, Agreeing, FromZero, TypeOK
    <3>2. slot[n] \notin DOMAIN history[n]
      BY <3>1
    <3>3. slot[n] \in DOMAIN history'[n]
      BY <1>3, <1>a DEF Finalises, Record, TypeOK
    <3>4. DOMAIN TheView[n] = DOMAIN history[n] /\ DOMAIN TheView'[n] = DOMAIN history'[n]
      BY DEF TheView
    <3> QED
      BY <3>2, <3>3, <3>4
  <2> QED
    BY <2>2, <2>3 DEF Promise!Next, TheView
<1>4. ASSUME submitted' = submitted, history' = history PROVE UNCHANGED Promise!vars
  <2>1. TheSubmitted' = TheSubmitted
    BY <1>4 DEF TheSubmitted
  <2> QED
    BY <1>1, <1>4, <2>1 DEF Promise!vars, TheSubmitted, TheLedger, TheView
<1>5. \/ \E n \in Nodes : \E b : Finalises(n, b)
      \/ history' = history
  BY <1>a, BookSteps DEF StartSlotManager, Proceeds, ToCollect
<1> QED
  BY <1>2, <1>3, <1>4, <1>5, TxSteps

\* The network implements Ledger, one step of it by one of the ledger's or by none: the
\* nodes decide every slot once, in order, with transactions of clients that no other
\* slot has, and every node comes to know the same.
THEOREM LedgerImplemented ==
  ASSUME LastStart < Genesis + BaseDelta, OutputsAreNumbers, OrdersAreLists
  PROVE  Spec /\ DigestsInTime /\ ProposalsInTime /\ [][ResyncBringsNothing]_vars
           => ImplementsLedger
<1> DEFINE Sound == Ground /\ Agreeing /\ Accounted
           Listed == ListsOnce /\ BeforeHorizon
<1>1. Init => Promise!Init
  <2> SUFFICES ASSUME Init PROVE Promise!Init
    OBVIOUS
  <2>1. submitted = {} /\ history = [n \in Nodes |-> <<>>]
    BY DEF Init
  <2>2. Decided = {}
    BY <2>1 DEF Decided
  <2>3. TheSubmitted = {} /\ TheLedger = <<>> /\ TheView = [n \in Nodes |-> <<>>]
    BY <2>1, <2>2 DEF TheSubmitted, TheLedger, TheView
  <2> QED
    BY <2>3 DEF Promise!Init, TheSubmitted, TheLedger, TheView
<1>2. Init => Listed
  <2>1. Init => BeforeHorizon
    BY SequencerAssumption DEF Init, BeforeHorizon
  <2>2. Init => ListsOnce
    BY DEF Init, ListsOnce
  <2> QED
    BY <2>1, <2>2
<1>3. Sound /\ Listed /\ [Next]_vars => Listed'
  BY ListsOnceInductive, BeforeHorizonInductive DEF Accounted, Ground, Books
<1>4. Sound /\ Sound' /\ Listed /\ [Next]_vars => [Promise!Next]_(Promise!vars)
  BY LedgerNext DEF Accounted, Agreeing
<1>5. Spec /\ DigestsInTime /\ ProposalsInTime /\ [][ResyncBringsNothing]_vars => []Sound
  BY AccountedCorrect
<1> HIDE DEF Sound, Listed
<1> QED
  BY <1>1, <1>2, <1>3, <1>4, <1>5, PTL DEF Spec, ImplementsLedger, Promise!Spec

\* The stretch of a node is that of its skip counter.
Stretches ==
  \A n \in Nodes :
    /\ effectiveDelta[n] = EffectiveSlotDuration(skips[n])
    /\ ~running[n] => skips[n] = 0

\* The two are set together, and a node is started before it has skipped.
LEMMA StretchesInductive ==
  ASSUME TypeOK, Stretches, [Next]_vars
  PROVE  Stretches'
<1> USE DEF clockVars, nets
<1>1. ASSUME UNCHANGED <<running, skips, effectiveDelta>>
      PROVE  Stretches'
  BY <1>1 DEF Stretches
<1>2. ASSUME NEW n \in Nodes, StartSlotManager(n) PROVE Stretches'
  <2>1. skips' = skips /\ skips[n] = 0 /\ EffectiveSlotDuration(0) = BaseDelta
    BY <1>2, StretchRange DEF StartSlotManager, Stretches
  <2>2. effectiveDelta' = [effectiveDelta EXCEPT ![n] = BaseDelta]
        /\ running' = [running EXCEPT ![n] = TRUE]
    BY <1>2 DEF StartSlotManager
  <2> QED
    BY <2>1, <2>2 DEF Stretches, TypeOK
<1>3. ASSUME NEW n \in Nodes, NEW k, SetSkips(n, k), running' = running, running[n]
      PROVE  Stretches'
  <2>1. skips' = [skips EXCEPT ![n] = k]
        /\ effectiveDelta' = [effectiveDelta EXCEPT ![n] = EffectiveSlotDuration(k)]
    BY <1>3 DEF SetSkips
  <2> QED
    BY <1>3, <2>1 DEF Stretches, TypeOK
<1>4. ASSUME NEW n \in Nodes, \/ ToFreeze(n) \/ ToSync(n) \/ ToCollect(n) \/ ToPropose(n)
                              \/ \E s \in pending[n] : FinishFinalize(n, s)
                              \/ \E tx \in Txs : Submit(n, tx)
      PROVE  UNCHANGED <<running, skips, effectiveDelta>>
  BY <1>4 DEF ToFreeze, ToSync, ToCollect, ToPropose, FinishFinalize, Submit, Leaves
<1>5. ASSUME \/ \E m \in txNet : OnTx(m)
             \/ \E m \in digestNet : OnDigest(m)
             \/ \E m \in batchNet : OnBatch(m)
             \/ \E m \in batchNet : OnLateBatch(m)
             \/ \E m \in syncNet : OnMempoolSync(m)
             \/ Tick \/ Horizon \/ UNCHANGED vars
      PROVE  UNCHANGED <<running, skips, effectiveDelta>>
  BY <1>5 DEF OnTx, OnDigest, OnBatch, OnLateBatch, OnMempoolSync, Tick, Horizon, vars
<1>6. ASSUME NEW n \in Nodes, FinalizeWinner(n) \/ FinalizeSkip(n) \/ FinalizeEmergency(n)
      PROVE  \E k : SetSkips(n, k) /\ running' = running /\ running[n]
  BY <1>6 DEF FinalizeWinner, FinalizeSkip, FinalizeEmergency, Skip, Leaves
<1> QED
  BY <1>1, <1>2, <1>3, <1>4, <1>5, <1>6 DEF Next

\* A node whose slots are not stretched takes nothing from a resync.
LEMMA NoResyncUnstretched ==
  ASSUME TypeOK, Stretches, Unstretched
  PROVE  ResyncBringsNothing
<1> SUFFICES ASSUME NEW m \in syncNet, OnMempoolSync(m) PROVE pool' = pool
  BY DEF ResyncBringsNothing
<1>1. m.to \in Nodes
  BY DEF TypeOK, Messages
<1>2. skips[m.to] \in Nat /\ EffectiveSlotDuration(skips[m.to]) = BaseDelta
  BY <1>1 DEF TypeOK, Stretches, Unstretched
<1>3. ~ShouldTriggerEmergencyResync(skips[m.to])
  BY <1>2, TimingAssumption
     DEF EffectiveSlotDuration, ShouldTriggerEmergencyResync, MaxConsecutiveSkips
<1> QED
  BY <1>3 DEF OnMempoolSync

\* Up to the first skipped slot, on a timetable that fits, the network implements
\* Ledger: the timers and the timetable are all it takes, whatever clients submit, and
\* when, and to whom.
THEOREM LedgerOnTimetable ==
  ASSUME TimetableFits, OutputsAreNumbers, OrdersAreLists
  PROVE  Spec /\ [][Unstretched]_vars => ImplementsLedger /\ []SequencedOnce
<1>1. LastStart < Genesis + BaseDelta
  <2>1. /\ Genesis \in Nat /\ BaseDelta \in Nat /\ Epsilon \in Nat /\ LastStart \in Nat
        /\ MaxLag \in Nat /\ MaxDelay \in Nat
    BY SequencerAssumption, TimingAssumption
  <2> QED
    BY <2>1 DEF TimetableFits
<1>2. Init => Stretches
  <2>1. EffectiveSlotDuration(0) = BaseDelta
    BY StretchRange
  <2> QED
    BY <2>1 DEF Init, Stretches
<1>3. TypeOK /\ Stretches /\ [Next]_vars => Stretches'
  BY StretchesInductive
<1>4. TypeOK /\ Stretches /\ [Unstretched]_vars => [ResyncBringsNothing]_vars
  BY NoResyncUnstretched
<1>5. Spec /\ [][Unstretched]_vars => [][ResyncBringsNothing]_vars
  BY <1>2, <1>3, <1>4, TypeCorrect, PTL DEF Spec
<1>6. Spec /\ [][Unstretched]_vars => DigestsInTime /\ ProposalsInTime
  BY TimetableGivesTime
<1>7. Spec /\ DigestsInTime /\ ProposalsInTime /\ [][ResyncBringsNothing]_vars => ImplementsLedger
  BY <1>1, LedgerImplemented
<1>8. Spec /\ DigestsInTime /\ ProposalsInTime /\ [][ResyncBringsNothing]_vars => []SequencedOnce
  BY <1>1, SequencedOnceCorrect
<1> QED
  BY <1>5, <1>6, <1>7, <1>8, PTL

-------------------------------------------------------------------------------
\* Included by the promised slot.

\* What is asked beyond time for digests and proposals: nobody goes to PROPOSE of a
\* slot before every node has entered its SYNC.
EverybodyVotes == \A n, k \in Nodes : Enters(n, "PROPOSE") => HasVoted(k, slot[n])

\* No transaction is under way for longer than MaxDelay.
TxPrompt == \A m \in txNet : m.at \in Nat /\ now <= m.at + MaxDelay

\* Node n has included tx before slot s.
IncludedBefore(n, tx, s) == \E t \in DOMAIN history[n] : t < s /\ tx \in TxSet(history[n][t])

\* A digest of a slot is sent after its cutoff and lists whatever was promised that
\* slot, or one before it, and is not included yet.
VotesFor(d, e) ==
  d.slot >= PromisedSlot(e.at) => e.tx \in d.hashes \/ IncludedBefore(d.nodeId, e.tx, d.slot)

Votes ==
  \A d \in AllDigests :
    /\ now >= Freeze(Genesis, d.slot, BaseDelta)
    /\ \A e \in submitted : VotesFor(d, e)

\* The digest of a node that has voted is there for as long as a node has its slot open.
Heard ==
  \A n, k \in Nodes : \A s \in Nat :
    s >= OpenSlot(n) /\ HasVoted(k, s) => \E d \in AllDigests : d.slot = s /\ d.nodeId = k

\* Transaction e.tx is under way to n, or filed there under a slot that keeps the promise,
\* or the first one the node can still include it in; in PROPOSE of that slot, it
\* is going to be included.
Coming(n, e) == \E m \in txNet : m.to = n /\ m.body = e.tx /\ m.at = e.at

FiledAs(n, e, b) ==
  /\ b[2] = e.tx /\ b[1] >= OpenSlot(n)
  /\ b[1] <= PromisedSlot(e.at) \/ b[1] = OpenSlot(n)
  /\ phase[n] = "PROPOSE" /\ b[1] = slot[n] => e.tx \in Common(n)

Filed(n, e) == \E b \in pool[n] : FiledAs(n, e, b)

Reached == \A e \in submitted, n \in Nodes : Included(n, e.tx) \/ Coming(n, e) \/ Filed(n, e)

Including == TxPrompt /\ Votes /\ Heard /\ Reached /\ InclusionBounded

\* The slot a transaction is filed under does not get earlier as it arrives later.
LEMMA AssignMonotonic ==
  ASSUME NEW u \in Int, NEW v \in Int, u <= v
  PROVE  AssignTransactionToSlot(Genesis, u) <= AssignTransactionToSlot(Genesis, v)
<1> DEFINE w == WallSlot(Genesis, u)
           x == WallSlot(Genesis, v)
<1>1. Genesis \in Int /\ BaseDelta \in Int /\ Epsilon \in Int
  BY SequencerAssumption, TimingAssumption
<1>2. w \in Nat /\ x \in Nat
  BY <1>1, WallSlotBrackets
<1>3. w <= x
  <2>1. CASE u < Genesis
    BY <2>1, <1>2 DEF WallSlot
  <2>2. CASE u >= Genesis
    <3>1. u >= Start(Genesis, w)
      BY <2>2, <1>1, WallSlotBrackets
    <3>2. v >= Start(Genesis, w)
      <4>1. Start(Genesis, w) \in Int
        BY <1>2, StartsGrow
      <4> HIDE DEF w
      <4> QED
        BY <3>1, <4>1
    <3> HIDE DEF w, x
    <3> QED
      BY <1>1, <1>2, <3>2, WallSlotReaches DEF x
  <2> QED
    BY <1>1, <2>1, <2>2
<1>4. /\ AssignTransactionToSlot(Genesis, u) \in {w, w + 1}
      /\ AssignTransactionToSlot(Genesis, v) \in {x, x + 1}
  BY <1>1, AssignedNow
<1>5. CASE w = x
  <2>1. Start(Genesis, w) + BaseDelta - Epsilon \in Int
    <3>1. Start(Genesis, w) \in Int
      BY <1>2, StartsGrow
    <3> HIDE DEF w
    <3> QED
      BY <1>1, <3>1
  <2>2. AssignTransactionToSlot(Genesis, u) =
          IF u <= Start(Genesis, w) + BaseDelta - Epsilon THEN w ELSE w + 1
    BY DEF AssignTransactionToSlot
  <2>3. AssignTransactionToSlot(Genesis, v) =
          IF v <= Start(Genesis, w) + BaseDelta - Epsilon THEN w ELSE w + 1
    BY <1>5 DEF AssignTransactionToSlot
  <2> HIDE DEF w
  <2> QED
    BY <1>2, <2>1, <2>2, <2>3
<1> HIDE DEF w, x
<1>6. CASE w < x
  BY <1>2, <1>4, <1>6
<1> QED
  BY <1>2, <1>3, <1>5, <1>6

\* What arrives after the cutoff of a slot is filed under a later one.
LEMMA AfterCutoff ==
  ASSUME NEW u \in Int, NEW s \in Nat, u > Freeze(Genesis, s, BaseDelta)
  PROVE  AssignTransactionToSlot(Genesis, u) >= s + 1
<1> DEFINE w == WallSlot(Genesis, u)
<1>1. Genesis \in Int /\ BaseDelta \in Int /\ Epsilon \in Int /\ Epsilon <= BaseDelta
  BY SequencerAssumption, TimingAssumption
<1>2. Start(Genesis, s) \in Int
  BY StartsGrow
<1>3. u >= Start(Genesis, s)
  BY <1>1, <1>2 DEF Freeze
<1>4. w \in Nat /\ w >= s
  BY <1>1, <1>3, WallSlotBrackets, WallSlotReaches
<1>5. AssignTransactionToSlot(Genesis, u) \in {w, w + 1}
  BY <1>1, AssignedNow
<1>6. CASE w = s
  <2>1. ~(u <= Start(Genesis, s) + BaseDelta - Epsilon)
    BY <1>1, <1>2 DEF Freeze
  <2>2. AssignTransactionToSlot(Genesis, u) = w + 1
    BY <1>6, <2>1 DEF AssignTransactionToSlot
  <2> QED
    BY <1>6, <2>2
<1> HIDE DEF w
<1>7. CASE w > s
  BY <1>4, <1>5, <1>7
<1> QED
  BY <1>4, <1>6, <1>7

\* When a slot is frozen and a transaction was promised it or one before it, the
\* transaction has been everywhere.
LEMMA PromiseDue ==
  ASSUME NEW e, e.at \in Nat, NEW s \in Nat, s >= PromisedSlot(e.at)
  PROVE  /\ PromisedSlot(e.at) \in Nat
         /\ e.at + MaxDelay < Freeze(Genesis, s, BaseDelta)
<1>1. MaxDelay \in Nat /\ Genesis \in Int
  BY SequencerAssumption
<1>2. PromisedSlot(e.at) \in Nat
  <2>1. e.at + MaxDelay + 1 \in Int
    BY <1>1
  <2>2. WallSlot(Genesis, e.at + MaxDelay + 1) \in Nat
    BY <1>1, <2>1, WallSlotBrackets
  <2> QED
    BY <1>1, <2>1, <2>2, AssignedNow DEF PromisedSlot
<1>3. Freeze(Genesis, s, BaseDelta) \in Int
  BY StartsGrow, TimingAssumption DEF Freeze
<1>4. SUFFICES ASSUME e.at + MaxDelay >= Freeze(Genesis, s, BaseDelta) PROVE FALSE
  BY <1>1, <1>2, <1>3
<1>5. e.at + MaxDelay + 1 \in Int /\ e.at + MaxDelay + 1 > Freeze(Genesis, s, BaseDelta)
  BY <1>1, <1>3, <1>4
<1>6. PromisedSlot(e.at) >= s + 1
  BY <1>5, AfterCutoff DEF PromisedSlot
<1> QED
  BY <1>2, <1>6

\* Whatever is under way, it is not a transaction that was promised a frozen slot.
LEMMA NotComing ==
  ASSUME TypeOK, TxPrompt, NEW e \in submitted, NEW s \in Nat, s >= PromisedSlot(e.at),
         now >= Freeze(Genesis, s, BaseDelta), NEW n \in Nodes
  PROVE  ~Coming(n, e)
<1> SUFFICES ASSUME NEW m \in txNet, m.at = e.at PROVE FALSE
  BY DEF Coming
<1>1. now <= e.at + MaxDelay
  BY DEF TxPrompt
<1>2. e.at \in Nat /\ e.at + MaxDelay < Freeze(Genesis, s, BaseDelta)
  <2>1. e.at \in Nat
    BY DEF TypeOK
  <2> QED
    BY <2>1, PromiseDue
<1>3. Freeze(Genesis, s, BaseDelta) \in Int /\ now \in Int /\ MaxDelay \in Int
  BY StartsGrow, TimingAssumption, SequencerAssumption DEF Freeze, TypeOK
<1> QED
  BY <1>1, <1>2, <1>3

\* What is kept of a node's history is included for good.
LEMMA IncludedStays ==
  ASSUME Ground, FromZero, LastStart < Genesis + BaseDelta, [Next]_vars, NEW n \in Nodes, NEW tx
  PROVE  /\ Included(n, tx) => Included(n, tx)'
         /\ \A s : IncludedBefore(n, tx, s) => IncludedBefore(n, tx, s)'
<1>1. ASSUME NEW t \in DOMAIN history[n]
      PROVE  t \in DOMAIN history'[n] /\ history'[n][t] = history[n][t]
  <2>1. FromZero'
    BY FromZeroInductive
  <2>2. OpenSlot(n) \in Nat /\ OpenSlot(n)' \in Nat /\ OpenSlot(n)' >= OpenSlot(n)
    BY OpenGrows
  <2>3. t \in 0 .. OpenSlot(n) - 1 /\ DOMAIN history'[n] = 0 .. OpenSlot(n)' - 1
    BY <2>1 DEF FromZero
  <2>4. t \in DOMAIN history'[n] /\ t < OpenSlot(n)
    BY <2>2, <2>3
  <2>5. ASSUME NEW b, Finalises(n, b) PROVE t # slot[n]
    <3>1. OpenSlot(n) = slot[n]
      BY <2>5 DEF Finalises, OpenSlot
    <3> QED
      BY <2>2, <2>3, <3>1
  <2> QED
    BY <2>4, <2>5, WhatIsFinal DEF Ground, Books
<1> QED
  BY <1>1 DEF Included, IncludedBefore

\* A node votes by entering SYNC.
LEMMA VoteSteps ==
  ASSUME Ground, LastStart < Genesis + BaseDelta, [Next]_vars, NEW k \in Nodes, NEW s \in Nat,
         HasVoted(k, s)'
  PROVE  HasVoted(k, s) \/ (Enters(k, "SYNC") /\ s = slot[k])
<1>a. TypeOK /\ WaitsInCollect /\ WaitsInSlot0
  BY DEF Ground, Books
<1>b. slot[k] \in Nat /\ phase[k] \in Phases
  BY <1>a DEF TypeOK
<1> DEFINE Goal == HasVoted(k, s) \/ (Enters(k, "SYNC") /\ s = slot[k])
<1>1. ASSUME slot'[k] = slot[k], phase'[k] = phase[k] PROVE Goal
  BY <1>1 DEF HasVoted
<1>2. ASSUME NEW n \in Nodes, StartSlotManager(n) PROVE Goal
  <2>1. CASE n = k
    <3>1. now \in Nat /\ now < Genesis + BaseDelta
      <4>1. now \in Nat /\ now <= LastStart
        BY <1>2, <1>a, <2>1 DEF StartSlotManager, WaitsInSlot0, TypeOK
      <4> QED
        BY <4>1, SequencerAssumption, TimingAssumption
    <3>2. WallSlot(Genesis, now) = 0
      BY <3>1, WallSlot0
    <3>3. slot'[k] = slot[k] /\ phase'[k] = phase[k]
      BY <1>2, <1>a, <2>1, <3>2 DEF StartSlotManager, WaitsInCollect, WaitsInSlot0, TypeOK
    <3> QED
      BY <1>1, <3>3
  <2>2. CASE n # k
    BY <1>1, <1>2, <1>a, <2>2 DEF StartSlotManager, TypeOK
  <2> QED
    BY <2>1, <2>2
<1>3. ASSUME NEW n \in Nodes, Proceeds(n) PROVE Goal
  <2>1. CASE n = k
    <3>1. slot'[k] = slot[k] /\ phase[k] \in {"COLLECT", "FREEZE", "SYNC"}
          /\ phase'[k] = NextPhase[phase[k]]
      BY <1>3, <1>a, <2>1 DEF Proceeds, TypeOK
    <3> QED
      BY <3>1 DEF HasVoted, Enters, NextPhase
  <2>2. CASE n # k
    BY <1>1, <1>3, <1>a, <2>2 DEF Proceeds, TypeOK
  <2> QED
    BY <2>1, <2>2
<1>4. ASSUME NEW n \in Nodes, ToCollect(n) PROVE Goal
  <2>1. CASE n = k
    <3>1. phase[k] = "FINALIZE" /\ phase'[k] = "COLLECT" /\ slot'[k] = slot[k] + 1
      BY <1>4, <1>a, <2>1 DEF ToCollect, Leaves, NextPhase, TypeOK
    <3> QED
      BY <1>b, <3>1 DEF HasVoted
  <2>2. CASE n # k
    BY <1>1, <1>4, <1>a, <2>2 DEF ToCollect, Leaves, TypeOK
  <2> QED
    BY <2>1, <2>2
<1>5. ASSUME NEW n \in Nodes, NEW b, Finalises(n, b) PROVE Goal
  <2>1. CASE n = k
    <3>1. phase[k] = "PROPOSE" /\ phase'[k] = "FINALIZE" /\ slot'[k] = slot[k]
      BY <1>5, <1>a, <2>1 DEF Finalises, TypeOK
    <3> QED
      BY <3>1 DEF HasVoted
  <2>2. CASE n # k
    BY <1>1, <1>5, <1>a, <2>2 DEF Finalises, TypeOK
  <2> QED
    BY <2>1, <2>2
<1> QED
  BY <1>1, <1>2, <1>3, <1>4, <1>5, <1>a, BookSteps

\* A digest is there for as long as a node has its slot open.
LEMMA DigestsStay ==
  ASSUME Ground, DigestsSpread, [Next]_vars, NEW n \in Nodes, NEW d \in AllDigests,
         d.slot >= OpenSlot(n)'
  PROVE  d \in AllDigests'
<1>a. TypeOK
  BY DEF Ground, Books
<1>b. OpenSlot(n) \in Nat /\ OpenSlot(n)' \in Nat /\ OpenSlot(n)' >= OpenSlot(n) /\ d.slot \in Nat
  BY <1>a, OpenGrows, DigestsTyped DEF Digest
<1>1. DigestReaches(n, d)
  BY <1>b DEF DigestsSpread
<1>2. DigestReaches(n, d)' => d \in AllDigests'
  BY DEF DigestReaches, AllDigests
<1>3. CASE /\ digestNet' = digestNet
           /\ \A k \in Nodes :
                /\ digests'[k] \subseteq digests[k]
                /\ \A c \in digests[k] : c \in digests'[k] \/ c.slot < OpenSlot(k)'
  <2>1. d \in digests[n] => d \in digests'[n]
    BY <1>3, <1>b
  <2> QED
    BY <1>1, <1>2, <1>3, <2>1 DEF DigestReaches
<1>4. ASSUME NEW m \in digestNet,
             digestNet' = digestNet \ {m},
             digests' = [digests EXCEPT ![m.to] = @ \cup {m.body}]
      PROVE  d \in AllDigests'
  <2>1. \A k \in Nodes : digests[k] \subseteq digests'[k]
    BY <1>4, <1>a DEF TypeOK
  <2>2. m.to = n => m.body \in digests'[n]
    BY <1>4, <1>a DEF TypeOK
  <2>3. DigestReaches(n, d)'
    BY <1>1, <1>4, <2>1, <2>2 DEF DigestReaches
  <2> QED
    BY <1>2, <2>3
<1>5. ASSUME NEW k \in Nodes, ToSync(k) PROVE d \in AllDigests'
  <2>1. PICK c : /\ digests' = [digests EXCEPT ![k] = @ \cup {c}]
                 /\ digestNet' = digestNet \cup Publish(k, c)
    BY <1>5, <1>a, SyncAdds, SyncFresh DEF Ground, Books
  <2>2. \A j \in Nodes : digests[j] \subseteq digests'[j]
    BY <2>1, <1>a DEF TypeOK
  <2>3. DigestReaches(n, d)'
    BY <1>1, <2>1, <2>2 DEF DigestReaches
  <2> QED
    BY <1>2, <2>3
<1> QED
  BY <1>3, <1>4, <1>5, DigestChanges DEF Ground, Books, OneDigest

\* The handlers that take a node to SYNC, to PROPOSE and to FINALIZE.
LEMMA EntersBy ==
  ASSUME TypeOK, [Next]_vars, NEW n \in Nodes
  PROVE  /\ Enters(n, "SYNC") => ToSync(n)
         /\ Enters(n, "PROPOSE") => ToPropose(n)
         /\ Enters(n, "FINALIZE") => FinalizeWinner(n) \/ FinalizeSkip(n) \/ FinalizeEmergency(n)
<1> DEFINE Goal == /\ Enters(n, "SYNC") => ToSync(n)
                   /\ Enters(n, "PROPOSE") => ToPropose(n)
                   /\ Enters(n, "FINALIZE") =>
                        FinalizeWinner(n) \/ FinalizeSkip(n) \/ FinalizeEmergency(n)
<1> USE DEF clockVars, nets
<1>1. ASSUME phase'[n] = phase[n] \/ phase'[n] \notin {"SYNC", "PROPOSE", "FINALIZE"} PROVE Goal
  BY <1>1 DEF Enters
<1>2. ASSUME \/ \E k \in Nodes, tx \in Txs : Submit(k, tx)
             \/ \E m \in txNet : OnTx(m)
             \/ \E m \in digestNet : OnDigest(m)
             \/ \E m \in batchNet : OnBatch(m)
             \/ \E m \in batchNet : OnLateBatch(m)
             \/ \E m \in syncNet : OnMempoolSync(m)
             \/ \E k \in Nodes : \E s \in pending[k] : FinishFinalize(k, s)
             \/ Tick \/ Horizon \/ UNCHANGED vars
      PROVE  phase' = phase
  BY <1>2 DEF Submit, OnTx, OnDigest, OnBatch, OnLateBatch, OnMempoolSync,
              FinishFinalize, Tick, Horizon, vars
<1>3. ASSUME NEW k \in Nodes, k # n, \/ StartSlotManager(k) \/ ToFreeze(k) \/ ToSync(k)
                                     \/ ToPropose(k) \/ ToCollect(k) \/ FinalizeWinner(k)
                                     \/ FinalizeSkip(k) \/ FinalizeEmergency(k)
      PROVE  phase'[n] = phase[n]
  BY <1>3 DEF StartSlotManager, ToFreeze, ToSync, ToPropose, ToCollect, FinalizeWinner,
     FinalizeSkip, FinalizeEmergency, Skip, Leaves, TypeOK
<1>4. ASSUME StartSlotManager(n) \/ ToFreeze(n) \/ ToCollect(n)
      PROVE  phase'[n] \notin {"SYNC", "PROPOSE", "FINALIZE"}
  BY <1>4 DEF StartSlotManager, ToFreeze, ToCollect, Leaves, NextPhase, TypeOK
<1>5. CASE ToSync(n)
  <2>1. phase'[n] = "SYNC"
    BY <1>5 DEF ToSync, Leaves, NextPhase, TypeOK
  <2> QED
    BY <1>5, <2>1 DEF Enters
<1>6. CASE ToPropose(n)
  <2>1. phase'[n] = "PROPOSE"
    BY <1>6 DEF ToPropose, Leaves, NextPhase, TypeOK
  <2> QED
    BY <1>6, <2>1 DEF Enters
<1>7. CASE FinalizeWinner(n) \/ FinalizeSkip(n) \/ FinalizeEmergency(n)
  <2>1. phase'[n] = "FINALIZE"
    BY <1>7, FinalizeCopies
  <2> QED
    BY <1>7, <2>1 DEF Enters
<1> QED
  BY <1>1, <1>2, <1>3, <1>4, <1>5, <1>6, <1>7 DEF Next

\* Whoever votes publishes a digest, and it stays until all have settled the slot.
LEMMA HeardInductive ==
  ASSUME Ground, DigestsSpread, Heard, LastStart < Genesis + BaseDelta, [Next]_vars
  PROVE  Heard'
<1>a. TypeOK /\ OneDigest
  BY DEF Ground, Books
<1> SUFFICES ASSUME NEW n \in Nodes, NEW k \in Nodes, NEW s \in Nat,
                    s >= OpenSlot(n)', HasVoted(k, s)'
             PROVE  \E d \in AllDigests' : d.slot = s /\ d.nodeId = k
  BY DEF Heard
<1>1. CASE HasVoted(k, s)
  <2>1. s >= OpenSlot(n)
    BY OpenGrows
  <2>2. PICK d \in AllDigests : d.slot = s /\ d.nodeId = k
    BY <1>1, <2>1 DEF Heard
  <2>3. d \in AllDigests'
    BY <2>2, DigestsStay
  <2> QED
    BY <2>2, <2>3
<1>2. CASE Enters(k, "SYNC") /\ s = slot[k]
  <2>1. ToSync(k)
    BY <1>2, <1>a, EntersBy
  <2>2. PICK d : /\ d.slot = slot[k] /\ d.nodeId = k
                 /\ digests' = [digests EXCEPT ![k] = @ \cup {d}]
    BY <2>1, <1>a, SyncAdds, SyncFresh
  <2>3. d \in digests'[k]
    BY <2>2, <1>a DEF TypeOK
  <2> QED
    BY <1>2, <2>2, <2>3 DEF AllDigests
<1> QED
  BY <1>1, <1>2, VoteSteps

\* What all nodes vote for is common, unless somebody has included it already.
LEMMA UnanimousCommon ==
  ASSUME Ground, Agreeing, Votes, Heard, DigestsTimely, EverybodyVotes,
         NEW n \in Nodes, Enters(n, "PROPOSE"), phase[n] = "SYNC",
         NEW e \in submitted, slot[n] >= PromisedSlot(e.at)
  PROVE  e.tx \in Common(n) \/ Included(n, e.tx)
<1>a. TypeOK /\ OneDigest
  BY DEF Ground, Books
<1>b. slot[n] \in Nat /\ OpenSlot(n) = slot[n]
  BY <1>a DEF TypeOK, OpenSlot
<1> DEFINE D == {d \in DigestsOf(digests[n], slot[n]) : e.tx \in d.hashes}
\* The digests of all nodes are at hand.
<1>1. ASSUME NEW k \in Nodes
      PROVE  \E d \in digests[n] : d \in AllDigests /\ d.slot = slot[n] /\ d.nodeId = k
  <2>1. HasVoted(k, slot[n])
    BY DEF EverybodyVotes
  <2>2. PICK d \in AllDigests : d.slot = slot[n] /\ d.nodeId = k
    BY <1>b, <2>1 DEF Heard
  <2>3. DigestReaches(n, d)
    BY <1>b, <2>2 DEF Agreeing, DigestsSpread
  <2>4. \A m \in digestNet : m.to = n => m.body.slot # slot[n]
    BY DEF DigestsTimely
  <2> QED
    BY <2>2, <2>3, <2>4 DEF DigestReaches
<1>2. CASE \E k \in Nodes : IncludedBefore(k, e.tx, slot[n])
  <2>0. PICK k \in Nodes : IncludedBefore(k, e.tx, slot[n])
    BY <1>2
  <2>1. PICK t \in DOMAIN history[k] : t < slot[n] /\ e.tx \in TxSet(history[k][t])
    BY <2>0 DEF IncludedBefore
  <2>2. DOMAIN history[n] = 0 .. slot[n] - 1 /\ t \in Nat
    BY <1>a, <1>b DEF Agreeing, FromZero, TypeOK
  <2>3. t \in DOMAIN history[n]
    BY <1>b, <2>1, <2>2
  <2>4. history[n][t] = history[k][t]
    BY <2>3 DEF Agreeing, Agreement
  <2> QED
    BY <2>1, <2>3, <2>4 DEF Included
<1>3. CASE \A k \in Nodes : ~IncludedBefore(k, e.tx, slot[n])
  <2>1. \A k \in Nodes : \E d \in D : d.nodeId = k
    <3> SUFFICES ASSUME NEW k \in Nodes PROVE \E d \in D : d.nodeId = k
      OBVIOUS
    <3>1. PICK d \in digests[n] : d \in AllDigests /\ d.slot = slot[n] /\ d.nodeId = k
      BY <1>1
    <3>2. VotesFor(d, e)
      BY <3>1 DEF Votes
    <3>3. e.tx \in d.hashes
      BY <1>3, <3>1, <3>2 DEF VotesFor
    <3> QED
      BY <3>1, <3>3 DEF DigestsOf
  <2> DEFINE f == [k \in Nodes |-> CHOOSE d \in D : d.nodeId = k]
  <2>2. \A k \in Nodes : f[k] \in D /\ f[k].nodeId = k
    BY <2>1
  <2>3. f \in Injection(Nodes, D)
    <3> HIDE DEF D
    <3>1. f \in [Nodes -> D]
      BY <2>2
    <3>2. \A j, k \in Nodes : f[j] = f[k] => j = k
      BY <2>2
    <3> HIDE DEF f
    <3> QED
      BY <3>1, <3>2 DEF Injection, IsInjective
  <2>4. IsFiniteSet(D)
    <3>1. D \subseteq digests[n] /\ IsFiniteSet(digests[n])
      BY <1>a DEF DigestsOf, OneDigest, UniqueDigests
    <3> QED
      BY <3>1, FS_Subset
  <2>5. Cardinality(Nodes) <= Cardinality(D)
    <3> HIDE DEF D, f
    <3> QED
      BY <2>3, <2>4, FS_Injection
  <2>6. Cardinality(Nodes) \in Nat /\ Cardinality(Nodes) # 0 /\ Cardinality(D) \in Nat
    BY <2>4, FS_CardinalityType, FS_EmptySet, ConsensusAssumption
  <2>7. TxCount(digests[n], slot[n], e.tx) = Cardinality(D)
    BY DEF TxCount
  <2>8. Cardinality(D) >= Threshold(Cardinality(Nodes))
    <3> HIDE DEF D, f
    <3> QED
      BY <2>5, <2>6 DEF Threshold
  <2>9. e.tx \in UNION {d.hashes : d \in DigestsOf(digests[n], slot[n])}
    <3>1. PICK k \in Nodes : TRUE
      BY ConsensusAssumption
    <3>2. PICK d \in D : d.nodeId = k
      BY <2>1
    <3> QED
      BY <3>2
  <2> QED
    BY <2>7, <2>8, <2>9 DEF Common, CommonSubset
<1> QED
  BY <1>2, <1>3

\* The clock does not pass the time by which a transaction is to be delivered.
LEMMA TxPromptInductive ==
  ASSUME TypeOK, TxPrompt, [Next]_vars
  PROVE  TxPrompt'
<1> SUFFICES ASSUME NEW m \in txNet' PROVE m.at \in Nat /\ now' <= m.at + MaxDelay
  BY DEF TxPrompt
<1>1. now \in Nat /\ MaxDelay \in Nat
  BY SequencerAssumption DEF TypeOK
<1>2. CASE m \in txNet
  <2>1. m.at \in Nat /\ now <= m.at + MaxDelay
    BY <1>2 DEF TxPrompt
  <2>2. Tick => now' = now + 1 /\ now < m.at + MaxDelay
    BY <1>2 DEF Tick, InTime
  <2> QED
    BY <1>1, <2>1, <2>2, ClockSteps
<1>3. CASE m \notin txNet
  <2>1. PICK k \in Nodes, tx \in Txs : Submit(k, tx) /\ m \in Publish(k, tx)
    BY <1>3, TxSteps
  <2>2. m.at = now /\ now' = now
    BY <2>1 DEF Submit, Publish
  <2> QED
    BY <1>1, <2>2
<1> QED
  BY <1>2, <1>3

\* The time now, and what was submitted before.
LEMMA SubmittedSteps ==
  ASSUME TypeOK, [Next]_vars, NEW e \in submitted', e \notin submitted
  PROVE  /\ e.at = now /\ now' = now
         /\ \E n \in Nodes : /\ Submit(n, e.tx) /\ e.tx \in Txs
                             /\ txNet' = txNet \cup Publish(n, e.tx)
<1>1. PICK n \in Nodes, tx \in Txs :
        /\ Submit(n, tx)
        /\ submitted' = submitted \cup {[tx |-> tx, at |-> now]}
        /\ txNet' = txNet \cup Publish(n, tx)
  BY TxSteps
<1>2. e.tx = tx /\ e.at = now
  BY <1>1
<1>3. now' = now
  BY <1>1 DEF Submit
<1> QED
  BY <1>1, <1>2, <1>3

\* What a client submits now is promised no slot that is frozen.
LEMMA PromisedLater ==
  ASSUME TypeOK, NEW s \in Nat, now >= Freeze(Genesis, s, BaseDelta)
  PROVE  PromisedSlot(now) \in Nat /\ PromisedSlot(now) > s
<1>1. now \in Int /\ MaxDelay \in Nat /\ Genesis \in Int
  BY SequencerAssumption DEF TypeOK
<1>2. Freeze(Genesis, s, BaseDelta) \in Int
  BY StartsGrow, TimingAssumption DEF Freeze
<1>3. now + MaxDelay + 1 \in Int /\ now + MaxDelay + 1 > Freeze(Genesis, s, BaseDelta)
  BY <1>1, <1>2
<1>4. WallSlot(Genesis, now + MaxDelay + 1) \in Nat
  BY <1>1, <1>3, WallSlotBrackets
<1>5. PromisedSlot(now) \in Nat
  BY <1>1, <1>3, <1>4, AssignedNow DEF PromisedSlot
<1>6. PromisedSlot(now) >= s + 1
  BY <1>3, AfterCutoff DEF PromisedSlot
<1> QED
  BY <1>5, <1>6

\* The promised slot is a slot.
LEMMA PromisedType ==
  ASSUME NEW t \in Nat
  PROVE  PromisedSlot(t) \in Nat
<1>1. t + MaxDelay + 1 \in Int /\ Genesis \in Int
  BY SequencerAssumption
<1>2. WallSlot(Genesis, t + MaxDelay + 1) \in Nat
  BY <1>1, WallSlotBrackets
<1> QED
  BY <1>1, <1>2, AssignedNow DEF PromisedSlot

\* A timer that is due after COLLECT is due after the cutoff, stretched or not.
LEMMA DueAfterCutoff ==
  ASSUME TypeOK, NEW n \in Nodes, now >= Due(n)
  PROVE  now >= Freeze(Genesis, slot[n], BaseDelta)
<1>1. /\ now \in Int /\ slot[n] \in Nat /\ BaseDelta \in Nat /\ phase[n] \in Phases
      /\ ProposeWindow \in Nat /\ FinalizeWindow \in Nat /\ Epsilon \in Nat
  BY TimingAssumption DEF TypeOK
<1>2. effectiveDelta[n] \in Int /\ effectiveDelta[n] >= BaseDelta
  BY StretchAtLeastSlot DEF TypeOK
<1>3. Start(Genesis, slot[n]) \in Int
  BY <1>1, StartsGrow
<1>4. Due(n) >= Start(Genesis, slot[n]) + effectiveDelta[n] - Epsilon /\ Due(n) \in Int
  BY <1>1, <1>2, <1>3 DEF Due, LeaveTime, Freeze, SyncEnd, ProposeEnd, FinalizeEnd, Phases
<1> QED
  BY <1>1, <1>2, <1>3, <1>4 DEF Freeze

\* A digest lists what the node was promised for its slot.
LEMMA VotesInductive ==
  ASSUME Ground, FromZero, TxPrompt, Votes, Reached, LastStart < Genesis + BaseDelta, [Next]_vars
  PROVE  Votes'
<1>a. TypeOK /\ AllChained
  BY DEF Ground, Books
<1>b. now \in Nat /\ now' \in Nat /\ now' >= now
  <2>1. now \in Nat
    BY <1>a DEF TypeOK
  <2> QED
    BY <2>1, ClockSteps DEF Tick
<1> SUFFICES ASSUME NEW d \in AllDigests'
             PROVE  /\ now' >= Freeze(Genesis, d.slot, BaseDelta)
                    /\ \A e \in submitted' : VotesFor(d, e)'
  BY DEF Votes
<1>1. CASE d \in AllDigests
  <2>1. d.slot \in Nat /\ d.nodeId \in Nodes
    BY <1>1, <1>a, DigestsTyped DEF Digest
  <2>2. Freeze(Genesis, d.slot, BaseDelta) \in Int
    BY <2>1, StartsGrow, TimingAssumption DEF Freeze
  <2>3. now >= Freeze(Genesis, d.slot, BaseDelta)
    BY <1>1 DEF Votes
  <2>4. ASSUME NEW e \in submitted' PROVE VotesFor(d, e)'
    <3>1. CASE e \in submitted
      <4>1. VotesFor(d, e)
        BY <1>1, <3>1 DEF Votes
      <4>2. IncludedBefore(d.nodeId, e.tx, d.slot) => IncludedBefore(d.nodeId, e.tx, d.slot)'
        BY <2>1, IncludedStays
      <4> QED
        BY <4>1, <4>2 DEF VotesFor
    <3>2. CASE e \notin submitted
      <4>1. e.at = now
        BY <3>2, <1>a, SubmittedSteps
      <4>2. PromisedSlot(now) \in Nat /\ PromisedSlot(now) > d.slot
        BY <2>1, <2>3, <1>a, PromisedLater
      <4> QED
        BY <2>1, <4>1, <4>2 DEF VotesFor
    <3> QED
      BY <3>1, <3>2
  <2> QED
    BY <1>b, <2>2, <2>3, <2>4
<1>2. CASE d \notin AllDigests
  <2>1. /\ d.nodeId \in Nodes /\ d.slot = slot[d.nodeId] /\ d.hashes = Local(d.nodeId)
        /\ ToSync(d.nodeId)
    BY <1>2, NewDigests
  <2> DEFINE k == d.nodeId
  <2>2. /\ now >= Due(k) /\ now' = now /\ submitted' = submitted /\ history' = history
        /\ phase[k] = "FREEZE"
    BY <2>1 DEF ToSync, Leaves
  <2>3. now >= Freeze(Genesis, slot[k], BaseDelta)
    BY <2>1, <2>2, <1>a, DueAfterCutoff
  <2>4. slot[k] \in Nat /\ OpenSlot(k) = slot[k]
    BY <2>1, <2>2, <1>a DEF OpenSlot, TypeOK
  <2>5. ASSUME NEW e \in submitted, slot[k] >= PromisedSlot(e.at)
        PROVE  e.tx \in Local(k) \/ IncludedBefore(k, e.tx, slot[k])
    <3>1. ~Coming(k, e)
      BY <2>1, <2>3, <2>4, <2>5, <1>a, NotComing
    <3>2. CASE Included(k, e.tx)
      <4>1. PICK t \in DOMAIN history[k] : e.tx \in TxSet(history[k][t])
        BY <3>2 DEF Included
      <4>2. t < slot[k]
        BY <2>1, <2>4, <1>a, HistoryBelowOpen DEF AllChained
      <4> QED
        BY <4>1, <4>2 DEF IncludedBefore
    <3>3. CASE Filed(k, e)
      <4>1. PICK b \in pool[k] : FiledAs(k, e, b)
        BY <3>3 DEF Filed
      <4>2. b[1] \in Nat /\ PromisedSlot(e.at) \in Nat
        BY <2>1, <1>a, PromisedType DEF TypeOK
      <4>3. b[1] = slot[k] /\ b[2] = e.tx
        BY <2>4, <2>5, <4>1, <4>2 DEF FiledAs
      <4> QED
        BY <4>3, InLocal
    <3> QED
      BY <2>1, <3>1, <3>2, <3>3 DEF Reached
  <2>6. ASSUME NEW e \in submitted' PROVE VotesFor(d, e)'
    <3>1. e \in submitted
      BY <2>2
    <3>2. IncludedBefore(d.nodeId, e.tx, d.slot) => IncludedBefore(d.nodeId, e.tx, d.slot)'
      BY <2>1, IncludedStays
    <3>3. d.slot >= PromisedSlot(e.at) =>
            e.tx \in d.hashes \/ IncludedBefore(d.nodeId, e.tx, d.slot)
      BY <2>1, <2>5, <3>1
    <3> QED
      BY <3>2, <3>3 DEF VotesFor
  <2> QED
    BY <2>1, <2>2, <2>3, <2>6
<1> QED
  BY <1>1, <1>2

\* What arrives in time is filed in time.
LEMMA ArrivalFiled ==
  ASSUME TypeOK, NEW n \in Nodes, OnTime(n), ~running[n] => slot[n] = 0 /\ phase[n] = "COLLECT",
         NEW e, e.at \in Nat, now <= e.at + MaxDelay
  PROVE  FiledAs(n, e, <<AssignTransactionToSlot(Genesis, now), e.tx>>)
<1>b. now \in Int /\ MaxDelay \in Nat /\ Genesis \in Int /\ slot[n] \in Nat /\ phase[n] \in Phases
  BY SequencerAssumption DEF TypeOK
<1> DEFINE a == AssignTransactionToSlot(Genesis, now)
<1>1. a <= PromisedSlot(e.at)
  <2>1. e.at + MaxDelay + 1 \in Int /\ now <= e.at + MaxDelay + 1
    BY <1>b
  <2> QED
    BY <1>b, <2>1, AssignMonotonic DEF PromisedSlot
<1>2. a \in Nat
  <2>1. WallSlot(Genesis, now) \in Nat
    BY <1>b, WallSlotBrackets
  <2> QED
    BY <1>b, <2>1, AssignedNow
<1>3. a >= OpenSlot(n) /\ (phase[n] = "PROPOSE" => a # slot[n])
  <2>1. CASE running[n]
    <3>1. a >= slot[n] /\ (phase[n] \in {"PROPOSE", "FINALIZE"} => a >= slot[n] + 1)
      BY <2>1, ArrivesInOpenSlot
    <3> HIDE DEF a
    <3> QED
      BY <1>b, <1>2, <3>1 DEF OpenSlot
  <2>2. CASE ~running[n]
    <3>1. slot[n] = 0 /\ phase[n] = "COLLECT"
      BY <2>2
    <3> HIDE DEF a
    <3> QED
      BY <1>2, <3>1 DEF OpenSlot
  <2> QED
    BY <2>1, <2>2
<1> HIDE DEF a
<1>4. FiledAs(n, e, <<a, e.tx>>)
  BY <1>1, <1>3 DEF FiledAs
<1> QED
  BY <1>4 DEF a

\* A message that is no longer under way has been delivered.
LEMMA TxDelivered ==
  ASSUME [Next]_vars, NEW m \in txNet, m \notin txNet'
  PROVE  OnTx(m)
<1> USE DEF nets
<1>1. ASSUME \/ \E n \in Nodes, tx \in Txs : Submit(n, tx)
             \/ \E k \in digestNet : OnDigest(k)
             \/ \E k \in batchNet : OnBatch(k)
             \/ \E k \in batchNet : OnLateBatch(k)
             \/ \E k \in syncNet : OnMempoolSync(k)
             \/ \E n \in Nodes : \/ StartSlotManager(n) \/ ToFreeze(n) \/ ToSync(n)
                                 \/ ToPropose(n) \/ FinalizeWinner(n) \/ FinalizeSkip(n)
                                 \/ FinalizeEmergency(n) \/ ToCollect(n)
                                 \/ \E s \in pending[n] : FinishFinalize(n, s)
             \/ Tick \/ Horizon \/ UNCHANGED vars
      PROVE  txNet \subseteq txNet'
  BY <1>1 DEF Submit, OnDigest, OnBatch, OnLateBatch, OnMempoolSync, StartSlotManager,
     ToFreeze, ToSync, ToPropose, FinalizeWinner, FinalizeSkip, FinalizeEmergency, ToCollect,
     FinishFinalize, Tick, Horizon, vars
<1>2. ASSUME NEW k \in txNet, OnTx(k) PROVE k = m
  BY <1>2 DEF OnTx
<1> QED
  BY <1>1, <1>2 DEF Next

\* It stays filed, as long as the node neither begins nor ends PROPOSE.
LEMMA FiledStays ==
  ASSUME TypeOK, PendingOver, [Next]_vars, NEW n \in Nodes,
         OpenSlot(n) \in Nat, OpenSlot(n)' = OpenSlot(n),
         phase'[n] = "PROPOSE" =>
           phase[n] = "PROPOSE" /\ slot'[n] = slot[n] /\ Common(n)' = Common(n),
         NEW e, Filed(n, e)
  PROVE  Filed(n, e)'
<1>1. PICK b \in pool[n] : FiledAs(n, e, b)
  BY DEF Filed
<1>2. b \in pool'[n]
  <2>1. b[1] >= OpenSlot(n)' /\ OpenSlot(n)' \in Nat /\ OpenSlot(n)' >= OpenSlot(n)
    BY <1>1 DEF FiledAs
  <2> QED
    BY <2>1, CopiesKept
<1>3. FiledAs(n, e, b)'
  BY <1>1 DEF FiledAs
<1> QED
  BY <1>2, <1>3 DEF Filed

\* What PROPOSE carries out of a slot can keep its promise later.
LEMMA FiledThroughPropose ==
  ASSUME TypeOK, [Next]_vars, NEW n \in Nodes, Enters(n, "PROPOSE"),
         NEW e, e.at \in Nat, Filed(n, e),
         slot[n] >= PromisedSlot(e.at) => e.tx \in Common(n) \/ Included(n, e.tx)
  PROVE  Filed(n, e)' \/ Included(n, e.tx)
<1>b. /\ ToPropose(n) /\ slot[n] \in Nat /\ PromisedSlot(e.at) \in Nat
  BY EntersBy, PromisedType DEF TypeOK
<1>c. /\ pool[n] \subseteq pool'[n]
      /\ phase[n] = "SYNC" /\ phase'[n] = "PROPOSE" /\ slot' = slot /\ digests' = digests
  BY <1>b, ProposeCopies
<1>d. OpenSlot(n) = slot[n] /\ OpenSlot(n)' = slot[n] /\ Common(n)' = Common(n)
  BY <1>c DEF OpenSlot, Common
<1>1. PICK b \in pool[n] : FiledAs(n, e, b)
  BY DEF Filed
<1>2. b[1] \in Nat /\ b \in pool'[n]
  BY <1>c DEF TypeOK
<1>3. CASE b[1] = slot[n] => e.tx \in Common(n)
  <2>1. FiledAs(n, e, b)'
    BY <1>1, <1>3, <1>c, <1>d DEF FiledAs
  <2> QED
    BY <1>2, <2>1 DEF Filed
<1>4. CASE b[1] = slot[n] /\ e.tx \notin Common(n) /\ slot[n] < PromisedSlot(e.at)
  <2>1. e.tx \in Excluded(n)
    BY <1>1, <1>4, InLocal DEF Excluded, FiledAs
  <2>2. pool'[n] = pool[n] \cup ({slot[n] + 1} \X Excluded(n))
    BY <1>b DEF ToPropose, CarryForward, TypeOK
  <2>3. PICK c \in pool'[n] : c[1] = slot[n] + 1 /\ c[2] = e.tx
    <3>1. <<slot[n] + 1, e.tx>> \in pool'[n]
      BY <2>1, <2>2
    <3>2. <<slot[n] + 1, e.tx>>[1] = slot[n] + 1 /\ <<slot[n] + 1, e.tx>>[2] = e.tx
      OBVIOUS
    <3> QED
      BY <3>1, <3>2
  <2>4. c[1] >= slot[n] /\ c[1] <= PromisedSlot(e.at) /\ c[1] # slot[n]
    BY <1>b, <1>4, <2>3
  <2>5. FiledAs(n, e, c)'
    BY <1>c, <1>d, <2>3, <2>4 DEF FiledAs
  <2> QED
    BY <2>3, <2>5 DEF Filed
<1>5. CASE e.tx \notin Common(n) /\ slot[n] >= PromisedSlot(e.at)
  BY <1>5
<1> QED
  BY <1>b, <1>3, <1>4, <1>5

\* What is common when FINALIZE comes is in the batch, or in the bucket of the next slot.
LEMMA CommonSettled ==
  ASSUME TypeOK, NEW n \in Nodes, NEW tx \in Common(n), tx \in Local(n),
         FinalizeWinner(n) \/ FinalizeSkip(n) \/ FinalizeEmergency(n)
  PROVE  Included(n, tx)' \/ <<slot[n] + 1, tx>> \in pool'[n]
<1>a. slot[n] \in Nat
  BY DEF TypeOK
<1> DEFINE c == <<slot[n] + 1, tx>>
<1>1. CarriedPool(n) = pool[n] \cup ({slot[n] + 1} \X (Local(n) \cap Common(n)))
  BY DEF CarriedPool, CarryForward
<1>2. c \in CarriedPool(n) /\ c[1] # slot[n]
  BY <1>1, <1>a
<1> HIDE DEF c
<1>3. CASE FinalizeWinner(n)
  <2>1. PICK w \in Valid(n) : Record(n, w)
    BY <1>3 DEF FinalizeWinner
  <2>2. TxSet(w) = Common(n)
    BY DEF Valid, ValidProposal
  <2>3. slot[n] \in DOMAIN history'[n] /\ history'[n][slot[n]] = w
    BY <2>1, <1>a DEF Record, TypeOK
  <2> QED
    BY <2>2, <2>3 DEF Included
<1>4. CASE FinalizeSkip(n)
  <2>1. pool'[n] = Evict(CarriedPool(n), slot[n])
    BY <1>4, <1>a DEF FinalizeSkip, Forget, TypeOK
  <2>2. c \in pool'[n]
    BY <1>2, <2>1 DEF Evict, Bucket
  <2> QED
    BY <2>2 DEF c
<1>5. CASE FinalizeEmergency(n)
  <2>1. pool'[n] = CarriedPool(n)
    BY <1>5, <1>a DEF FinalizeEmergency, TypeOK
  <2> QED
    BY <1>2, <2>1 DEF c
<1> QED
  BY <1>3, <1>4, <1>5

\* FINALIZE includes what it can, and carries the rest of the common subset on.
LEMMA FiledThroughFinalize ==
  ASSUME TypeOK, PendingOver, [Next]_vars, NEW n \in Nodes, NEW e, e.at \in Nat, Filed(n, e),
         FinalizeWinner(n) \/ FinalizeSkip(n) \/ FinalizeEmergency(n)
  PROVE  Filed(n, e)' \/ Included(n, e.tx)'
<1>b. slot[n] \in Nat /\ PromisedSlot(e.at) \in Nat
  BY PromisedType DEF TypeOK
<1>c. phase[n] = "PROPOSE" /\ phase'[n] = "FINALIZE" /\ slot' = slot
  BY FinalizeCopies
<1>d. OpenSlot(n) = slot[n] /\ OpenSlot(n)' = slot[n] + 1
  BY <1>c DEF OpenSlot
<1>1. PICK b \in pool[n] : FiledAs(n, e, b)
  BY DEF Filed
<1>2. b[1] \in Nat /\ b[1] >= slot[n] /\ b[2] = e.tx
  BY <1>1, <1>d DEF FiledAs, TypeOK
<1>3. CASE b[1] = slot[n]
  <2>1. e.tx \in Common(n) /\ e.tx \in Local(n)
    BY <1>1, <1>3, <1>c, InLocal DEF FiledAs
  <2>2. CASE <<slot[n] + 1, e.tx>> \in pool'[n]
    <3>1. PICK c \in pool'[n] : c[1] = slot[n] + 1 /\ c[2] = e.tx
      BY <2>2
    <3>2. FiledAs(n, e, c)'
      BY <1>b, <1>c, <1>d, <3>1 DEF FiledAs
    <3> QED
      BY <3>2 DEF Filed
  <2> QED
    BY <2>1, <2>2, CommonSettled
<1>4. CASE b[1] # slot[n]
  <2>1. b[1] >= slot[n] + 1 /\ b[1] <= PromisedSlot(e.at)
    BY <1>b, <1>d, <1>1, <1>2, <1>4 DEF FiledAs
  <2>2. b \in pool'[n]
    <3>1. OpenSlot(n) \in Nat /\ OpenSlot(n)' \in Nat /\ OpenSlot(n)' >= OpenSlot(n)
      BY <1>b, <1>d
    <3> QED
      BY <1>d, <2>1, <3>1, CopiesKept
  <2>3. FiledAs(n, e, b)'
    BY <1>c, <1>d, <1>2, <2>1 DEF FiledAs
  <2> QED
    BY <2>2, <2>3 DEF Filed
<1> QED
  BY <1>3, <1>4

\* A transaction is on its way, in a bucket that keeps the promise, or included.
LEMMA ReachedInductive ==
  ASSUME Ground, Agreeing, TxPrompt, Votes, Heard, Reached, LastStart < Genesis + BaseDelta,
         [Next]_vars, DigestsTimely, EverybodyVotes
  PROVE  Reached'
<1>a. TypeOK
  BY DEF Ground, Books
<1> SUFFICES ASSUME NEW e \in submitted', NEW n \in Nodes
             PROVE  Included(n, e.tx)' \/ Coming(n, e)' \/ Filed(n, e)'
  BY DEF Reached
<1>b. Included(n, e.tx) => Included(n, e.tx)'
  BY IncludedStays DEF Agreeing
\* The step in which it comes to n, in time.
<1>1. ASSUME Receives(n, e.tx), e.at \in Nat, now <= e.at + MaxDelay PROVE Filed(n, e)'
  <2>0. PICK b : b = <<AssignTransactionToSlot(Genesis, now), e.tx>>
    OBVIOUS
  <2>1. FiledAs(n, e, b)
    <3>1. OnTime(n) /\ (~running[n] => slot[n] = 0 /\ phase[n] = "COLLECT")
      BY DEF Ground, Books, AllOnTime, WaitsInSlot0, WaitsInCollect
    <3> QED
      BY <1>1, <1>a, <2>0, <3>1, ArrivalFiled
  <2>2. pool' = [pool EXCEPT ![n] = @ \cup {b}] /\ UNCHANGED <<slot, phase, digests>>
    BY <1>1, <2>0 DEF Receives, Submit, OnTx, Add, clockVars
  <2>3. b \in pool'[n]
    BY <2>2, <1>a DEF TypeOK
  <2>4. OpenSlot(n)' = OpenSlot(n) /\ Common(n)' = Common(n)
    BY <2>2 DEF OpenSlot, Common
  <2>5. FiledAs(n, e, b)'
    BY <2>1, <2>2, <2>4 DEF FiledAs
  <2> QED
    BY <2>3, <2>5 DEF Filed
<1>2. CASE e \notin submitted
  <2>1. PICK k \in Nodes : /\ Submit(k, e.tx) /\ e.tx \in Txs
                           /\ txNet' = txNet \cup Publish(k, e.tx)
    BY <1>2, <1>a, SubmittedSteps
  <2>2. e.at = now /\ e.at \in Nat /\ now <= e.at + MaxDelay
    <3>1. e.at = now
      BY <1>2, <1>a, SubmittedSteps
    <3>2. now \in Nat /\ MaxDelay \in Nat
      BY <1>a, SequencerAssumption DEF TypeOK
    <3> QED
      BY <3>1, <3>2
  <2>3. CASE k = n
    BY <1>1, <2>1, <2>2, <2>3 DEF Receives
  <2>4. CASE k # n
    <3> DEFINE m == [body |-> e.tx, from |-> k, to |-> n, at |-> now]
    <3>1. m \in txNet'
      BY <2>1, <2>4 DEF Publish
    <3> QED
      BY <2>2, <3>1 DEF Coming
  <2> QED
    BY <2>3, <2>4
<1>3. ASSUME e \in submitted, Coming(n, e) PROVE Coming(n, e)' \/ Filed(n, e)'
  <2>1. PICK m \in txNet : m.to = n /\ m.body = e.tx /\ m.at = e.at
    BY <1>3 DEF Coming
  <2>2. CASE m \in txNet'
    BY <2>1, <2>2 DEF Coming
  <2>3. CASE m \notin txNet'
    <3>1. OnTx(m)
      BY <2>3, TxDelivered
    <3>2. m.body \in Txs
      BY <1>a DEF TypeOK, Messages
    <3>3. Receives(n, e.tx)
      BY <2>1, <3>1, <3>2 DEF Receives
    <3>4. e.at \in Nat /\ now <= e.at + MaxDelay
      BY <2>1 DEF TxPrompt
    <3> QED
      BY <1>1, <3>3, <3>4
  <2> QED
    BY <2>2, <2>3
<1>4. ASSUME e \in submitted, Filed(n, e) PROVE Filed(n, e)' \/ Included(n, e.tx)'
  <2>1. CASE Enters(n, "PROPOSE")
    <3>1. phase[n] = "SYNC"
      BY <1>a, <2>1, EntersBy, ProposeCopies
    <3>2. slot[n] >= PromisedSlot(e.at) => e.tx \in Common(n) \/ Included(n, e.tx)
      BY <1>4, <2>1, <3>1, UnanimousCommon
    <3>3. e.at \in Nat
      BY <1>a, <1>4 DEF TypeOK
    <3> QED
      BY <1>a, <1>4, <1>b, <2>1, <3>2, <3>3, FiledThroughPropose
  <2>2. CASE Enters(n, "FINALIZE")
    <3>1. FinalizeWinner(n) \/ FinalizeSkip(n) \/ FinalizeEmergency(n)
      BY <1>a, <2>2, EntersBy
    <3> QED
      BY <1>a, <1>4, <3>1, FiledThroughFinalize DEF Ground, Books, TypeOK
  <2>3. CASE ~Enters(n, "PROPOSE") /\ ~Enters(n, "FINALIZE")
    <3>1. OpenSlot(n)' = OpenSlot(n) /\ OpenSlot(n) \in Nat
      BY <2>3, OpenSteps, OpenGrows
    <3>2. ASSUME phase'[n] = "PROPOSE"
          PROVE  phase[n] = "PROPOSE" /\ slot'[n] = slot[n] /\ Common(n)' = Common(n)
      <4>1. phase[n] = "PROPOSE" /\ slot'[n] = slot[n]
        BY <2>3, <3>2, OpenGrows DEF Enters
      <4> QED
        BY <3>2, <4>1, VotesStable DEF Agreeing
    <3> QED
      BY <1>a, <1>4, <3>1, <3>2, FiledStays DEF Ground, Books
  <2> QED
    BY <2>1, <2>2, <2>3
<1> QED
  BY <1>b, <1>2, <1>3, <1>4 DEF Reached

\* What is filed for a slot when a batch is finalised for it is in the batch.
LEMMA FiledIncluded ==
  ASSUME TypeOK, NEW n \in Nodes, NEW e, e.at \in Nat, Filed(n, e),
         NEW b, Finalises(n, b), b.proposer # SKIP, slot[n] >= PromisedSlot(e.at),
         slot[n] \in DOMAIN history'[n], history'[n][slot[n]] = b
  PROVE  Included(n, e.tx)'
<1>1. phase[n] = "PROPOSE" /\ slot[n] \in Nat /\ OpenSlot(n) = slot[n]
  BY DEF Finalises, OpenSlot, TypeOK
<1>2. PICK c \in pool[n] : FiledAs(n, e, c)
  BY DEF Filed
<1>3. c[1] \in Nat /\ PromisedSlot(e.at) \in Nat
  BY PromisedType DEF TypeOK
<1>4. c[1] = slot[n]
  BY <1>1, <1>2, <1>3 DEF FiledAs
<1>5. e.tx \in Common(n)
  BY <1>1, <1>2, <1>4 DEF FiledAs
<1>6. b # NullBatch(slot[n])
  BY DEF NullBatch
<1>7. TxSet(b) = Common(n)
  BY <1>6 DEF Finalises, Valid, ValidProposal
<1> QED
  BY <1>5, <1>7 DEF Included

\* A node settles a slot after its cutoff.
LEMMA SettledAfterCutoff ==
  ASSUME TypeOK, NEW n \in Nodes, running[n], OnTime(n), NEW s \in Nat, s < OpenSlot(n)
  PROVE  now >= Freeze(Genesis, s, BaseDelta)
<1>1. now >= Start(Genesis, s + 1)
  <2>1. /\ slot[n] \in Nat /\ phase[n] \in Phases /\ now \in Int
    BY DEF TypeOK
  <2>2. CASE slot[n] > s
    <3>1. now >= Start(Genesis, slot[n]) /\ s + 1 <= slot[n] /\ s + 1 \in Nat
      BY <2>1, <2>2 DEF OnTime
    <3>2. Start(Genesis, s + 1) <= Start(Genesis, slot[n])
          /\ Start(Genesis, s + 1) \in Int /\ Start(Genesis, slot[n]) \in Int
      BY <2>1, <3>1, StartsGrow
    <3> QED
      BY <2>1, <3>1, <3>2
  <2>3. CASE slot[n] = s /\ phase[n] = "FINALIZE"
    BY <2>3 DEF OnTime
  <2> QED
    BY <2>1, <2>2, <2>3 DEF OpenSlot
<1>2. Start(Genesis, s) \in Int /\ Start(Genesis, s + 1) = Start(Genesis, s) + BaseDelta
  BY StartsGrow
<1>3. BaseDelta \in Int /\ Epsilon \in Nat /\ now \in Int
  BY TimingAssumption DEF TypeOK
<1> QED
  BY <1>1, <1>2, <1>3 DEF Freeze

\* What is finalised once a transaction is due is a batch with it, or null.
LEMMA BoundedInductive ==
  ASSUME Ground, Agreeing, TxPrompt, Reached, InclusionBounded,
         LastStart < Genesis + BaseDelta, [Next]_vars
  PROVE  InclusionBounded'
<1>a. TypeOK /\ AllChained /\ AllOnTime
  BY DEF Ground, Books
<1> SUFFICES ASSUME NEW e \in submitted', NEW n \in Nodes, NEW s \in DOMAIN history'[n],
                    s >= PromisedSlot(e.at), history'[n][s].proposer # SKIP
             PROVE  Included(n, e.tx)'
  BY DEF InclusionBounded
<1>b. Included(n, e.tx) => Included(n, e.tx)'
  BY IncludedStays DEF Agreeing
<1>1. CASE e \in submitted /\ s \in DOMAIN history[n] /\ history'[n][s] = history[n][s]
  BY <1>1, <1>b DEF InclusionBounded
<1>2. ASSUME e \in submitted, NEW b, Finalises(n, b), s = slot[n], history'[n][s] = b
      PROVE  Included(n, e.tx)'
  <2>1. phase[n] = "PROPOSE" /\ now >= Due(n) /\ slot[n] \in Nat /\ OpenSlot(n) = slot[n]
    BY <1>2, <1>a DEF Finalises, OpenSlot, TypeOK
  <2>2. now >= Freeze(Genesis, slot[n], BaseDelta)
    BY <2>1, <1>a, DueAfterCutoff
  <2>3. ~Coming(n, e)
    BY <1>2, <2>1, <2>2, <1>a, NotComing
  <2>4. ASSUME Filed(n, e) PROVE Included(n, e.tx)'
    BY <1>2, <1>a, <2>4, FiledIncluded DEF TypeOK
  <2> QED
    BY <1>2, <1>b, <2>3, <2>4 DEF Reached
\* A transaction that comes now is promised no slot that is over.
<1>3. CASE e \notin submitted
  <2>1. e.at = now /\ now' = now
    BY <1>3, <1>a, SubmittedSteps
  <2>2. PICK k \in Nodes : Submit(k, e.tx)
    BY <1>3, <1>a, SubmittedSteps
  <2>3. history' = history
    BY <2>2 DEF Submit
  <2>4. s \in Nat /\ s < OpenSlot(n)
    BY <2>3, <1>a, HistoryBelowOpen DEF AllChained
  <2>5. running[n] /\ OnTime(n)
    <3>1. ~running[n] => DOMAIN history[n] = {}
      <4>1. ~running[n] => stateRoot[n] = <<>>
        BY <1>a DEF AllChained, Chained
      <4>2. DOMAIN history[n] = {stateRoot[n][i].slot : i \in 1 .. Len(stateRoot[n])}
        BY <1>a DEF AllChained, Chained
      <4> QED
        BY <4>1, <4>2
    <3> QED
      BY <2>3, <3>1, <1>a DEF AllOnTime
  <2>7. now >= Freeze(Genesis, s, BaseDelta)
    BY <1>a, <2>4, <2>5, SettledAfterCutoff
  <2>8. PromisedSlot(now) \in Nat /\ PromisedSlot(now) > s
    BY <2>4, <2>7, <1>a, PromisedLater
  <2> QED
    BY <2>1, <2>4, <2>8
<1> QED
  BY <1>1, <1>2, <1>3, WhatIsFinal DEF Ground, Books

\* There is nothing to include to begin with, and nobody has voted.
LEMMA IncludingInit ==
  ASSUME Init, LastStart < Genesis + BaseDelta
  PROVE  Including
<1>1. WallSlot(Genesis, 0) = 0
  <2>1. 0 < Genesis + BaseDelta
    BY SequencerAssumption, TimingAssumption
  <2> QED
    BY <2>1, WallSlot0
<1>2. TxPrompt /\ Reached /\ InclusionBounded
  BY DEF Init, TxPrompt, Reached, InclusionBounded
<1>3. Votes
  BY DEF Init, Votes, AllDigests
<1>4. Heard
  BY <1>1 DEF Init, Heard, HasVoted
<1> QED
  BY <1>2, <1>3, <1>4 DEF Including

\* No step breaks a promise.
LEMMA IncludingInductive ==
  ASSUME LastStart < Genesis + BaseDelta, Ground, Agreeing, Including, [Next]_vars,
         DigestsTimely, EverybodyVotes
  PROVE  Including'
<1>1. TypeOK
  BY DEF Ground, Books
<1>2. TxPrompt' /\ Votes' /\ Heard'
  BY <1>1, TxPromptInductive, VotesInductive, HeardInductive DEF Including, Agreeing
<1>3. Reached' /\ InclusionBounded'
  BY ReachedInductive, BoundedInductive DEF Including
<1> QED
  BY <1>2, <1>3 DEF Including

\* In a run in which digests and proposals have their time and every node votes on every
\* slot, whatever is skipped and however slots are stretched, a transaction that any
\* node has accepted is in every node's history once it has the promised slot or a
\* later one that is not skipped.
THEOREM InclusionCorrect ==
  ASSUME LastStart < Genesis + BaseDelta, OutputsAreNumbers
  PROVE  Spec /\ DigestsInTime /\ ProposalsInTime /\ [][EverybodyVotes]_vars
           => []InclusionBounded
<1>1. Init => Agreeing /\ Including
  BY AgreeingInit, IncludingInit
<1>2. [EverybodyVotes]_vars => EverybodyVotes
  BY DEF EverybodyVotes, Enters, vars, clockVars
<1>3. Ground /\ Agreeing /\ Including /\ [Next]_vars
      /\ [DigestsTimely]_vars /\ [ProposalsTimely]_vars /\ [EverybodyVotes]_vars
        => Agreeing' /\ Including'
  <2> SUFFICES ASSUME Ground, Agreeing, Including, [Next]_vars, [DigestsTimely]_vars,
                      [ProposalsTimely]_vars, [EverybodyVotes]_vars
               PROVE  Agreeing' /\ Including'
    OBVIOUS
  <2>a. DigestsTimely /\ ProposalsTimely
    BY TimelyAlways
  <2>b. EverybodyVotes
    BY <1>2
  <2>1. Agreeing'
    BY <2>a, AgreeingInductive
  <2>2. Including'
    BY <2>a, <2>b, IncludingInductive
  <2> QED
    BY <2>1, <2>2
<1>4. Including => InclusionBounded
  BY DEF Including
<1> QED
  BY <1>1, <1>3, <1>4, GroundCorrect, PTL DEF Spec, DigestsInTime, ProposalsInTime

\* On a timetable that fits every node has entered SYNC of a slot before any leaves it.
LEMMA TimetableLetsVote ==
  ASSUME TimetableFits, Ground, Timetable, Unstretched, [Next]_vars
  PROVE  EverybodyVotes
<1>a. TypeOK /\ WaitsInCollect /\ WaitsInSlot0
  BY DEF Ground, Books
<1>b. /\ Genesis \in Int /\ BaseDelta \in Nat /\ Epsilon \in Nat /\ ProposeWindow \in Nat
      /\ FinalizeWindow \in Nat /\ MaxLag \in Nat /\ MaxDelay \in Nat /\ now \in Int
      /\ LastStart \in Nat
  BY <1>a, SequencerAssumption, TimingAssumption DEF TypeOK
<1>c. /\ MaxLag < Epsilon /\ LastStart <= Genesis + BaseDelta - Epsilon
      /\ ProposeWindow + FinalizeWindow <= BaseDelta - Epsilon
  BY <1>b DEF TimetableFits
<1> SUFFICES ASSUME NEW n \in Nodes, NEW k \in Nodes, Enters(n, "PROPOSE"),
                    ~HasVoted(k, slot[n])
             PROVE  FALSE
  BY DEF EverybodyVotes
<1>d. slot[n] \in Nat /\ slot[k] \in Nat /\ phase[k] \in Phases
  BY <1>a DEF TypeOK
<1>e. Start(Genesis, slot[n]) \in Int /\ Start(Genesis, slot[k]) \in Int
  BY <1>d, StartsGrow
<1>1. now >= Start(Genesis, slot[n]) + BaseDelta
  <2>1. phase[n] = "SYNC" /\ now >= Due(n)
    BY <1>a, Entering
  <2>2. Due(n) = SyncEnd(Genesis, slot[n], BaseDelta)
    BY <2>1, LeaveTimes DEF Due, Unstretched
  <2> QED
    BY <2>1, <2>2 DEF SyncEnd
<1>2. CASE ~running[k]
  <2>1. now <= LastStart
    BY <1>2, <1>a DEF WaitsInSlot0
  <2>2. Start(Genesis, 0) <= Start(Genesis, slot[n]) /\ Start(Genesis, 0) \in Int
    BY <1>d, StartsGrow
  <2>3. Start(Genesis, 0) = Genesis
    BY <1>b DEF Start
  <2> QED
    BY <1>b, <1>c, <1>e, <1>1, <2>1, <2>2, <2>3
<1>3. CASE running[k]
  <2>1. now <= LeaveTime(phase[k], Genesis, slot[k], BaseDelta) + MaxLag
    BY <1>3 DEF Timetable, Punctual
  <2>2. CASE slot[k] = slot[n] /\ phase[k] \in {"COLLECT", "FREEZE"}
    <3>1. now <= Start(Genesis, slot[n]) + BaseDelta - Epsilon + MaxLag
      BY <2>1, <2>2, LeaveTimes DEF Freeze
    <3> QED
      BY <1>b, <1>c, <1>e, <1>1, <3>1
  <2>3. CASE slot[k] < slot[n]
    <3>1. LeaveTime(phase[k], Genesis, slot[k], BaseDelta)
            <= Start(Genesis, slot[k]) + BaseDelta + ProposeWindow + FinalizeWindow
          /\ LeaveTime(phase[k], Genesis, slot[k], BaseDelta) \in Int
      BY <1>b, <1>d, <1>e, LeaveTimes DEF Phases, Freeze, SyncEnd, ProposeEnd, FinalizeEnd
    <3>2. /\ Start(Genesis, slot[k] + 1) = Start(Genesis, slot[k]) + BaseDelta
          /\ Start(Genesis, slot[k] + 1) <= Start(Genesis, slot[n])
      <4>1. slot[k] + 1 \in Nat /\ slot[k] + 1 <= slot[n]
        BY <1>d, <2>3
      <4> QED
        BY <1>d, <4>1, StartsGrow
    <3> QED
      BY <1>b, <1>c, <1>e, <1>1, <2>1, <3>1, <3>2
  <2> QED
    BY <1>d, <2>2, <2>3 DEF HasVoted
<1> QED
  BY <1>2, <1>3

\* So, up to the first skipped slot, on a timetable that fits, what a client was told is
\* accepted is in every node's history by the promised slot.
THEOREM InclusionOnTimetable ==
  ASSUME TimetableFits, OutputsAreNumbers
  PROVE  Spec /\ [][Unstretched]_vars => []InclusionBounded
<1>1. LastStart < Genesis + BaseDelta
  <2>1. /\ Genesis \in Nat /\ BaseDelta \in Nat /\ Epsilon \in Nat /\ LastStart \in Nat
        /\ MaxLag \in Nat /\ MaxDelay \in Nat
    BY SequencerAssumption, TimingAssumption
  <2> QED
    BY <2>1 DEF TimetableFits
<1>2. Init => Timetable
  BY TimetableInit
<1>3. Ground /\ Timetable /\ [Next]_vars /\ [Unstretched]_vars
        => Timetable' /\ [EverybodyVotes]_vars
  BY TimetableInductive, TimetableLetsVote
<1>4. Spec /\ [][Unstretched]_vars => [][EverybodyVotes]_vars
  BY <1>2, <1>3, GroundCorrect, PTL DEF Spec
<1>5. Spec /\ [][Unstretched]_vars => DigestsInTime /\ ProposalsInTime
  BY TimetableGivesTime
<1>6. Spec /\ DigestsInTime /\ ProposalsInTime /\ [][EverybodyVotes]_vars => []InclusionBounded
  BY <1>1, InclusionCorrect
<1> QED
  BY <1>4, <1>5, <1>6, PTL
===============================================================================
