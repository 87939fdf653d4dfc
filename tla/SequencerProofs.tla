---------------------------- MODULE SequencerProofs ----------------------------
(* Proofs about Sequencer, for every number of nodes and transactions, every   *)
(* timing and every network delay, loss included: types, and what the          *)
(* histories, state roots and skip counters of the nodes say.                  *)
EXTENDS Sequencer, SlotTimingProofs, SequenceTheorems, FiniteSetTheorems

-------------------------------------------------------------------------------
\* Mempool and digest operators stay within their types.

\* A snapshot of a mempool is a set of transactions.
LEMMA SnapshotType ==
  ASSUME NEW P \in SUBSET (Nat \X Txs), NEW s \in Nat
  PROVE  Snapshot(P, s) \in SUBSET Txs
BY DEF Snapshot, Bucket

\* A carry files transactions under a slot.
LEMMA CarryForwardType ==
  ASSUME NEW P \in SUBSET (Nat \X Txs), NEW S \in SUBSET Txs, NEW s \in Nat
  PROVE  CarryForward(P, S, s) \in SUBSET (Nat \X Txs)
BY DEF CarryForward

\* An eviction leaves a mempool.
LEMMA EvictType ==
  ASSUME NEW P \in SUBSET (Nat \X Txs), NEW s \in Nat
  PROVE  Evict(P, s) \in SUBSET (Nat \X Txs)
BY DEF Evict

\* An arrival files a transaction under a slot.
LEMMA AddType ==
  ASSUME NEW P \in SUBSET (Nat \X Txs), NEW tx \in Txs, NEW t \in Nat
  PROVE  Add(P, tx, Genesis, t) \in SUBSET (Nat \X Txs)
<1>1. Genesis \in Int /\ t \in Int
  BY SequencerAssumption
<1>2. WallSlot(Genesis, t) \in Nat
  BY <1>1, WallSlotBrackets
<1>3. AssignTransactionToSlot(Genesis, t) \in Nat
  BY <1>1, <1>2, AssignedNow
<1> QED
  BY <1>3 DEF Add

\* A digest that is received leaves a set of digests.
LEMMA ReceiveDigestType ==
  ASSUME NEW D \in SUBSET Digest, NEW d \in Digest
  PROVE  ReceiveDigest(D, d) \in SUBSET Digest
BY DEF ReceiveDigest

\* So does a clean-up.
LEMMA ClearSlotType ==
  ASSUME NEW D \in SUBSET Digest, NEW s \in Nat
  PROVE  ClearSlot(D, s) \in SUBSET Digest
BY DEF ClearSlot

\* What is published are messages.
LEMMA PublishType ==
  ASSUME NEW B, NEW body \in B, NEW n \in Nodes, now \in Nat
  PROVE  Publish(n, body) \in SUBSET Messages(B)
BY DEF Publish, Messages

-------------------------------------------------------------------------------
\* Every step of the network keeps to the types of TypeOK.
LEMMA TypeInductive ==
  ASSUME TypeOK, [Next]_vars
  PROVE  TypeOK'
<1> USE SequencerAssumption, TimingAssumption
<1> USE DEF TypeOK, clockVars, nets
<1>1. ASSUME NEW n \in Nodes, NEW tx \in Txs, Submit(n, tx) PROVE TypeOK'
  <2>1. pool' \in [Nodes -> SUBSET (Nat \X Txs)]
    BY <1>1, AddType DEF Submit
  <2>2. txNet' \subseteq Messages(Txs)
    BY <1>1, PublishType DEF Submit
  <2>3. submitted' \subseteq [tx : Txs, at : Nat]
    BY <1>1 DEF Submit
  <2>4. UNCHANGED <<now, clockVars, digests, proposals, history, stateRoot, pending,
                    digestNet, batchNet, syncNet>>
    BY <1>1 DEF Submit
  <2> QED
    BY <2>1, <2>2, <2>3, <2>4
<1>2. ASSUME NEW m \in txNet, OnTx(m) PROVE TypeOK'
  <2>1. m.to \in Nodes /\ m.body \in Txs
    BY DEF Messages
  <2>2. pool' \in [Nodes -> SUBSET (Nat \X Txs)]
    BY <1>2, <2>1, AddType DEF OnTx
  <2> QED
    BY <1>2, <2>2 DEF OnTx
<1>3. ASSUME NEW m \in digestNet, OnDigest(m) PROVE TypeOK'
  <2>1. m.to \in Nodes /\ m.body \in Digest
    BY DEF Messages
  <2>2. digests' \in [Nodes -> SUBSET Digest]
    BY <1>3, <2>1, ReceiveDigestType DEF OnDigest
  <2> QED
    BY <1>3, <2>2 DEF OnDigest
<1>4. ASSUME NEW m \in batchNet, OnBatch(m) PROVE TypeOK'
  BY <1>4 DEF OnBatch
<1>5. ASSUME NEW m \in batchNet, OnLateBatch(m) PROVE TypeOK'
  BY <1>5 DEF OnLateBatch
<1>6. ASSUME NEW m \in syncNet, OnMempoolSync(m) PROVE TypeOK'
  <2>1. m.to \in Nodes /\ m.body \in SUBSET Txs
    BY DEF Messages
  <2>2. pool' \in [Nodes -> SUBSET (Nat \X Txs)]
    BY <1>6, <2>1, CarryForwardType DEF OnMempoolSync
  <2> QED
    BY <1>6, <2>2 DEF OnMempoolSync
<1>7. ASSUME NEW n \in Nodes, StartSlotManager(n) PROVE TypeOK'
  <2>1. WallSlot(Genesis, now) \in Nat
    <3>1. Genesis \in Int /\ now \in Int
      OBVIOUS
    <3> QED
      BY <3>1, WallSlotBrackets
  <2>2. BaseDelta \in {EffectiveSlotDuration(k) : k \in 0 .. 2}
    BY StretchRange
  <2> QED
    BY <1>7, <2>1, <2>2 DEF StartSlotManager, Phases
<1>8. ASSUME NEW n \in Nodes, ToFreeze(n) PROVE TypeOK'
  BY <1>8 DEF ToFreeze, Leaves, NextPhase, Phases
<1>9. ASSUME NEW n \in Nodes, ToSync(n) PROVE TypeOK'
  <2> DEFINE d == [slot |-> slot[n], nodeId |-> n, hashes |-> Snapshot(pool[n], slot[n])]
  <2>1. d \in Digest
    BY SnapshotType DEF Digest
  <2>2. digests' \in [Nodes -> SUBSET Digest]
    BY <1>9, <2>1, ReceiveDigestType DEF ToSync
  <2>3. digestNet' \subseteq Messages(Digest)
    BY <1>9, <2>1, PublishType DEF ToSync
  <2> QED
    BY <1>9, <2>2, <2>3 DEF ToSync, Leaves, NextPhase, Phases
<1>10. ASSUME NEW n \in Nodes, ToPropose(n) PROVE TypeOK'
  <2> DEFINE batch == Build(slot[n], n, Prove(n, SeedOf(n)), Common(n))
  <2>1. Excluded(n) \in SUBSET Txs
    BY SnapshotType DEF Excluded, Local
  <2>2. pool' \in [Nodes -> SUBSET (Nat \X Txs)]
    BY <1>10, <2>1, CarryForwardType DEF ToPropose
  <2>3. WellFormed(batch)
    BY DEF WellFormed, Build
  <2>4. /\ DOMAIN proposals' = Nodes
        /\ \A k \in Nodes : \A p \in proposals'[k] : WellFormed(p)
    BY <1>10, <2>3 DEF ToPropose
  <2>5. \A m \in batchNet' : m.to \in Nodes /\ m.at \in Nat /\ WellFormed(m.body)
    BY <1>10, <2>3 DEF ToPropose, Publish
  <2>6. phase' \in [Nodes -> Phases]
    BY <1>10 DEF ToPropose, Leaves, NextPhase, Phases
  <2> QED
    BY <1>10, <2>2, <2>4, <2>5, <2>6 DEF ToPropose, Leaves
<1>11. ASSUME NEW n \in Nodes, NEW b, Record(n, b)
       PROVE  /\ DOMAIN history' = Nodes
              /\ \A k \in Nodes : DOMAIN history'[k] \subseteq Nat
              /\ DOMAIN stateRoot' = Nodes
  BY <1>11 DEF Record
<1>12. ASSUME NEW n \in Nodes, NEW s \in Nat, NEW P \in SUBSET (Nat \X Txs), Forget(n, s, P)
       PROVE  /\ pool' \in [Nodes -> SUBSET (Nat \X Txs)]
              /\ digests' \in [Nodes -> SUBSET Digest]
              /\ DOMAIN proposals' = Nodes
              /\ \A k \in Nodes : \A p \in proposals'[k] : WellFormed(p)
  BY <1>12, EvictType, ClearSlotType DEF Forget
<1>13. ASSUME NEW n \in Nodes, NEW k \in Nat, SetSkips(n, k)
       PROVE  /\ skips' \in [Nodes -> Nat]
              /\ effectiveDelta' \in [Nodes -> {EffectiveSlotDuration(j) : j \in 0 .. 2}]
  BY <1>13, StretchRange DEF SetSkips
<1>14. ASSUME NEW n \in Nodes, FinalizeWinner(n) PROVE TypeOK'
  <2>1. PICK w : Record(n, w)
    BY <1>14 DEF FinalizeWinner
  <2>2. SetSkips(n, 0) /\ Forget(n, slot[n], pool[n])
    BY <1>14 DEF FinalizeWinner
  <2>3. phase' \in [Nodes -> Phases]
    BY <1>14 DEF FinalizeWinner, Leaves, NextPhase, Phases
  <2> QED
    BY <1>14, <1>11, <1>12, <1>13, <2>1, <2>2, <2>3 DEF FinalizeWinner, Leaves
<1>15. ASSUME NEW n \in Nodes PROVE CarriedPool(n) \in SUBSET (Nat \X Txs)
  <2>1. Local(n) \cap Common(n) \in SUBSET Txs
    BY SnapshotType DEF Local
  <2> QED
    BY <2>1, CarryForwardType DEF CarriedPool
<1>16. ASSUME NEW n \in Nodes, FinalizeSkip(n) PROVE TypeOK'
  <2>1. /\ Record(n, NullBatch(slot[n])) /\ SetSkips(n, skips[n] + 1)
        /\ Forget(n, slot[n], CarriedPool(n))
    BY <1>16 DEF FinalizeSkip, Skip
  <2>2. phase' \in [Nodes -> Phases]
    BY <1>16 DEF FinalizeSkip, Skip, Leaves, NextPhase, Phases
  <2>3. UNCHANGED <<now, running, slot, submitted, pending, nets>>
    BY <1>16 DEF FinalizeSkip, Skip, Leaves
  <2>4. slot[n] \in Nat /\ skips[n] + 1 \in Nat
    OBVIOUS
  <2> QED
    BY <1>11, <1>12, <1>13, <1>15, <2>1, <2>2, <2>3, <2>4
<1>17. ASSUME NEW n \in Nodes, FinalizeEmergency(n) PROVE TypeOK'
  <2>1. Record(n, NullBatch(slot[n])) /\ SetSkips(n, skips[n] + 1)
    BY <1>17 DEF FinalizeEmergency, Skip
  <2>2. phase' \in [Nodes -> Phases]
    BY <1>17 DEF FinalizeEmergency, Skip, Leaves, NextPhase, Phases
  <2>3. pool' \in [Nodes -> SUBSET (Nat \X Txs)]
    BY <1>17, <1>15 DEF FinalizeEmergency
  <2>4. syncNet' \subseteq Messages(SUBSET Txs)
    <3>1. Snapshot(CarriedPool(n), slot[n] + 1) \in SUBSET Txs
      BY <1>15, SnapshotType
    <3> QED
      BY <1>17, <3>1, PublishType DEF FinalizeEmergency
  <2>5. pending' \in [Nodes -> SUBSET Nat]
    BY <1>17 DEF FinalizeEmergency
  <2>6. UNCHANGED <<now, running, slot, submitted, digests, proposals, txNet, digestNet,
                    batchNet>>
    BY <1>17 DEF FinalizeEmergency, Skip, Leaves
  <2>7. skips[n] + 1 \in Nat
    OBVIOUS
  <2> QED
    BY <1>11, <1>13, <2>1, <2>2, <2>3, <2>4, <2>5, <2>6, <2>7
<1>18. ASSUME NEW n \in Nodes, NEW s \in pending[n], FinishFinalize(n, s) PROVE TypeOK'
  <2>1. s \in Nat /\ pool[n] \in SUBSET (Nat \X Txs)
    OBVIOUS
  <2>2. Forget(n, s, pool[n])
    BY <1>18 DEF FinishFinalize
  <2>3. pending' \in [Nodes -> SUBSET Nat]
    BY <1>18 DEF FinishFinalize
  <2> QED
    BY <1>18, <1>12, <2>1, <2>2, <2>3 DEF FinishFinalize
<1>19. ASSUME NEW n \in Nodes, ToCollect(n) PROVE TypeOK'
  <2>1. slot' \in [Nodes -> Nat]
    BY <1>19 DEF ToCollect
  <2>2. phase' \in [Nodes -> Phases]
    BY <1>19 DEF ToCollect, Leaves, NextPhase, Phases
  <2>3. UNCHANGED <<now, running, submitted, effectiveDelta, skips, pool, digests,
                    proposals, history, stateRoot, pending, nets>>
    BY <1>19 DEF ToCollect, Leaves
  <2> QED
    BY <2>1, <2>2, <2>3
<1>20. CASE Tick
  <2>1. now' \in Nat
    BY <1>20 DEF Tick
  <2>2. UNCHANGED <<clockVars, pool, digests, proposals, history, stateRoot, pending,
                    submitted, nets>>
    BY <1>20 DEF Tick
  <2> QED
    BY <2>1, <2>2
<1>21. CASE Horizon \/ UNCHANGED vars
  BY <1>21 DEF Horizon, vars
<1> QED
  BY <1>1, <1>2, <1>3, <1>4, <1>5, <1>6, <1>7, <1>8, <1>9, <1>10, <1>14, <1>16,
     <1>17, <1>18, <1>19, <1>20, <1>21 DEF Next

\* The initial state has the types.
LEMMA InitType == ASSUME Init PROVE TypeOK
<1> USE SequencerAssumption, TimingAssumption
<1>1. WallSlot(Genesis, 0) \in Nat
  BY WallSlotBrackets
<1>2. BaseDelta \in {EffectiveSlotDuration(k) : k \in 0 .. 2}
  BY StretchRange
<1> QED
  BY <1>1, <1>2 DEF Init, TypeOK, Phases

\* Every reachable state has the types of TypeOK.
THEOREM TypeCorrect == Spec => []TypeOK
BY InitType, TypeInductive, PTL DEF Spec

-------------------------------------------------------------------------------
\* The inductive invariant behind AdoptedBatchSharesHistory.  A proposal carries
\* the seed its proposer derived from its own history, and that history is never
\* rewritten below the proposer's current slot; so the seed stays the right one
\* wherever the proposal travels and however late it is looked at.  S is the set
\* of proposers this is said of: all nodes, unless some lose their memory.

\* m has proposed p, from a history that still says what it said then.
Proposed(p) ==
  LET m == p.proposer
  IN /\ m \in Nodes
     /\ running[m]
     /\ p.slot \in Nat /\ p.slot <= slot[m]
     /\ p.vrfProof.seed = Seed(PrevRoot(history[m], p.slot), p.slot)

\* The batch node n has for slot s passed n's own validation.
AdoptedBy(n, s) ==
  LET b == history[n][s]
  IN /\ Proposed(b)
     /\ b.slot = s
     /\ b.vrfProof.seed = Seed(PrevRoot(history[n], s), s)

Traceable(S) ==
  /\ \A n \in Nodes : \A p \in proposals[n] : p.proposer \in S => Proposed(p)
  /\ \A m \in batchNet : m.body.proposer \in S => Proposed(m.body)
  /\ \A n \in Nodes : \A s \in DOMAIN history[n] :
       /\ running[n] /\ s <= slot[n]
       /\ history[n][s].proposer \in S => AdoptedBy(n, s)

\* Traceable gives the property: both seeds are the same record.
LEMMA TraceableSuffices ==
  ASSUME NEW S, Traceable(S), NEW n \in Nodes, NEW s \in DOMAIN history[n],
         history[n][s].proposer \in S
  PROVE  PrevRoot(history[history[n][s].proposer], s) = PrevRoot(history[n], s)
<1> DEFINE m == history[n][s].proposer
<1>1. AdoptedBy(n, s)
  BY DEF Traceable
<1>2. Seed(PrevRoot(history[m], s), s) = Seed(PrevRoot(history[n], s), s)
  BY <1>1 DEF AdoptedBy, Proposed
<1> QED
  BY <1>2 DEF Seed

\* What a node finalises in slot s is no part of the previous root of s, nor of
\* that of an earlier slot.
LEMMA PrevRootStable ==
  ASSUME NEW h, NEW g, NEW s \in Nat, NEW t \in Nat, t <= s,
         DOMAIN h \subseteq Nat,
         DOMAIN g = DOMAIN h \cup {s},
         \A i \in DOMAIN h : i # s => g[i] = h[i]
  PROVE  PrevRoot(g, t) = PrevRoot(h, t)
<1> DEFINE F(f) == {i \in DOMAIN f : i < t /\ f[i].root # EmptyRoot}
<1>1. F(g) = F(h)
  OBVIOUS
<1>2. CASE F(h) = {}
  BY <1>1, <1>2 DEF PrevRoot
<1>3. CASE F(h) # {}
  <2> DEFINE last == CHOOSE i \in F(h) : \A j \in F(h) : j <= i
  <2>1. PrevRoot(g, t) = g[last].root /\ PrevRoot(h, t) = h[last].root
    BY <1>1, <1>3 DEF PrevRoot
  <2>2. last \in F(h)
    <3>1. \E i \in F(h) : \A j \in F(h) : j <= i
      <4>1. F(h) \in SUBSET Nat /\ \A i \in F(h) : i <= t
        OBVIOUS
      <4> QED
        BY <1>3, <4>1, LastSlot
    <3> QED
      BY <3>1
  <2> QED
    BY <2>1, <2>2
<1> QED
  BY <1>2, <1>3

\* Nobody stops, goes back to an earlier slot, or revises what its slots up to
\* the current one were seeded with.
HistoryGrows ==
  \A n \in Nodes :
    /\ running[n] => running'[n] /\ slot'[n] >= slot[n]
    /\ \A t \in 0 .. slot[n] : PrevRoot(history'[n], t) = PrevRoot(history[n], t)

\* Recording a batch for the slot a node has open changes no previous root of that
\* slot or an earlier one.
LEMMA RecordGrows ==
  ASSUME TypeOK, NEW n \in Nodes, NEW b, Record(n, b),
         NEW k \in Nodes, NEW t \in 0 .. slot[k]
  PROVE  PrevRoot(history'[k], t) = PrevRoot(history[k], t)
<1>1. CASE k = n
  <2>1. /\ slot[n] \in Nat /\ t \in Nat /\ t <= slot[n]
        /\ DOMAIN history[n] \subseteq Nat
    BY <1>1 DEF TypeOK
  <2>2. /\ DOMAIN history'[n] = DOMAIN history[n] \cup {slot[n]}
        /\ \A i \in DOMAIN history[n] : i # slot[n] => history'[n][i] = history[n][i]
    BY DEF Record, TypeOK
  <2>3. PrevRoot(history'[n], t) = PrevRoot(history[n], t)
    <3> DEFINE h == history[n]
               g == history'[n]
    <3>1. /\ DOMAIN h \subseteq Nat /\ DOMAIN g = DOMAIN h \cup {slot[n]}
          /\ \A i \in DOMAIN h : i # slot[n] => g[i] = h[i]
      BY <2>1, <2>2
    <3> HIDE DEF h, g
    <3>2. PrevRoot(g, t) = PrevRoot(h, t)
      BY <2>1, <3>1, PrevRootStable
    <3> QED
      BY <3>2 DEF h, g
  <2> QED
    BY <1>1, <2>3
<1>2. CASE k # n
  BY <1>2 DEF Record, TypeOK
<1> QED
  BY <1>1, <1>2

\* Nor does any other step.
LEMMA NextGrows ==
  ASSUME TypeOK, [Next]_vars
  PROVE  HistoryGrows
<1> USE DEF clockVars, nets
<1>1. ASSUME UNCHANGED <<running, slot, history>> PROVE HistoryGrows
  BY <1>1 DEF HistoryGrows, TypeOK
<1>2. ASSUME NEW n \in Nodes, StartSlotManager(n) PROVE HistoryGrows
  BY <1>2 DEF StartSlotManager, HistoryGrows, TypeOK
<1>3. ASSUME NEW n \in Nodes, NEW b, Record(n, b), UNCHANGED <<running, slot>>
      PROVE  HistoryGrows
  <2>1. \A k \in Nodes : \A t \in 0 .. slot[k] :
          PrevRoot(history'[k], t) = PrevRoot(history[k], t)
    BY <1>3, RecordGrows
  <2> QED
    BY <1>3, <2>1 DEF HistoryGrows, TypeOK
<1>4. ASSUME NEW n \in Nodes, ToCollect(n) PROVE HistoryGrows
  <2>1. \A k \in Nodes : slot'[k] >= slot[k]
    BY <1>4 DEF ToCollect, TypeOK
  <2>2. UNCHANGED <<running, history>>
    BY <1>4 DEF ToCollect, Leaves
  <2> QED
    BY <2>1, <2>2 DEF HistoryGrows
<1>5. ASSUME NEW n \in Nodes, FinalizeWinner(n) PROVE HistoryGrows
  <2>1. PICK b : Record(n, b)
    BY <1>5 DEF FinalizeWinner
  <2>2. UNCHANGED <<running, slot>>
    BY <1>5 DEF FinalizeWinner, Leaves
  <2> QED
    BY <1>3, <2>1, <2>2
<1>6. ASSUME NEW n \in Nodes, FinalizeSkip(n) \/ FinalizeEmergency(n) PROVE HistoryGrows
  <2>1. Record(n, NullBatch(slot[n]))
    BY <1>6 DEF FinalizeSkip, FinalizeEmergency, Skip
  <2>2. UNCHANGED <<running, slot>>
    BY <1>6 DEF FinalizeSkip, FinalizeEmergency, Skip, Leaves
  <2> QED
    BY <1>3, <2>1, <2>2
<1>7. ASSUME NEW n \in Nodes, ToFreeze(n) \/ ToSync(n) \/ ToPropose(n)
      PROVE  UNCHANGED <<running, slot, history>>
  BY <1>7 DEF ToFreeze, ToSync, ToPropose, Leaves
<1>8. ASSUME \/ \E n \in Nodes, tx \in Txs : Submit(n, tx)
             \/ \E m \in txNet : OnTx(m)
             \/ \E m \in digestNet : OnDigest(m)
             \/ \E m \in batchNet : OnBatch(m)
             \/ \E m \in batchNet : OnLateBatch(m)
             \/ \E m \in syncNet : OnMempoolSync(m)
             \/ \E n \in Nodes : \E s \in pending[n] : FinishFinalize(n, s)
             \/ Tick
             \/ Horizon
             \/ UNCHANGED vars
      PROVE  UNCHANGED <<running, slot, history>>
  BY <1>8 DEF Submit, OnTx, OnDigest, OnBatch, OnLateBatch, OnMempoolSync,
              FinishFinalize, Tick, Horizon, vars
<1> QED
  BY <1>1, <1>2, <1>4, <1>5, <1>6, <1>7, <1>8 DEF Next

\* So a proposal made stays a proposal made.
LEMMA ProposedStable ==
  ASSUME HistoryGrows, TypeOK, TypeOK', NEW p, Proposed(p)
  PROVE  Proposed(p)'
<1> DEFINE m == p.proposer
<1>1. /\ m \in Nodes /\ running[m] /\ p.slot \in Nat /\ p.slot <= slot[m]
      /\ p.vrfProof.seed = Seed(PrevRoot(history[m], p.slot), p.slot)
  BY DEF Proposed
<1>2. slot[m] \in Nat /\ slot'[m] \in Nat
  BY <1>1 DEF TypeOK
<1>3. running'[m] /\ p.slot <= slot'[m]
  BY <1>1, <1>2 DEF HistoryGrows
<1>4. PrevRoot(history'[m], p.slot) = PrevRoot(history[m], p.slot)
  BY <1>1, <1>2 DEF HistoryGrows
<1> QED
  BY <1>1, <1>3, <1>4 DEF Proposed

\* What a node proposes carries the seed of the slot it is in.
LEMMA NewProposal ==
  ASSUME TypeOK, NEW n \in Nodes, running[n]
  PROVE  Proposed(Build(slot[n], n, Prove(n, SeedOf(n)), Common(n)))
BY DEF Proposed, Build, Prove, SeedOf, TypeOK

\* A step that writes no history and proposes only what is Proposed.
LEMMA NoNewHistory ==
  ASSUME TypeOK, TypeOK', HistoryGrows, NEW S, Traceable(S),
         UNCHANGED history,
         \A n \in Nodes : \A p \in proposals'[n] : p.proposer \in S => Proposed(p),
         \A m \in batchNet' : m.body.proposer \in S => Proposed(m.body)
  PROVE  Traceable(S)'
<1>1. \A p : Proposed(p) => Proposed(p)'
  BY ProposedStable
<1>2. ASSUME NEW n \in Nodes, NEW s \in DOMAIN history[n]
      PROVE  /\ running'[n] /\ s <= slot'[n]
             /\ history'[n][s].proposer \in S => AdoptedBy(n, s)'
  <2>1. running[n] /\ s <= slot[n] /\ (history[n][s].proposer \in S => AdoptedBy(n, s))
    BY DEF Traceable
  <2>2. s \in Nat /\ slot[n] \in Nat /\ slot'[n] \in Nat
    BY DEF TypeOK
  <2>3. running'[n] /\ s <= slot'[n]
    BY <2>1, <2>2 DEF HistoryGrows
  <2>4. PICK b : b = history[n][s]
    OBVIOUS
  <2>5. Proposed(b) => Proposed(b)'
    BY <1>1
  <2> QED
    BY <2>1, <2>3, <2>4, <2>5 DEF AdoptedBy
<1>3. \A n \in Nodes : \A p \in proposals'[n] : p.proposer \in S => Proposed(p)'
  BY <1>1
<1>4. \A m \in batchNet' : m.body.proposer \in S => Proposed(m.body)'
  <2>1. ASSUME NEW m \in batchNet', m.body.proposer \in S PROVE Proposed(m.body)'
    <3>1. Proposed(m.body)
      BY <2>1
    <3> QED
      BY <1>1, <3>1
  <2> QED
    BY <2>1
<1> QED
  BY <1>2, <1>3, <1>4 DEF Traceable

\* A FINALIZE step: b is recorded, and was validated unless it is a null batch.
LEMMA NewHistory ==
  ASSUME TypeOK, TypeOK', HistoryGrows, NEW S, Traceable(S),
         NEW n \in Nodes, NEW b, Record(n, b), running[n],
         b.proposer \in S => /\ Proposed(b)
                             /\ b.slot = slot[n]
                             /\ b.vrfProof.seed = SeedOf(n),
         UNCHANGED <<running, slot>>,
         \A k \in Nodes : proposals'[k] \subseteq proposals[k],
         batchNet' \subseteq batchNet
  PROVE  Traceable(S)'
<1>1. \A p : Proposed(p) => Proposed(p)'
  BY ProposedStable
<1>2. /\ history' = [history EXCEPT ![n] =
           [s \in DOMAIN @ \cup {slot[n]} |-> IF s = slot[n] THEN b ELSE @[s]]]
      /\ DOMAIN history = Nodes
  BY DEF Record, TypeOK
<1>3. ASSUME NEW k \in Nodes, NEW s \in DOMAIN history'[k]
      PROVE  /\ running'[k] /\ s <= slot'[k]
             /\ history'[k][s].proposer \in S => AdoptedBy(k, s)'
  <2>1. slot[k] \in Nat /\ s \in Nat
    BY DEF TypeOK
  <2>2. CASE k = n /\ s = slot[n]
    <3>1. history'[k][s] = b
      BY <1>2, <2>2
    <3>2. PrevRoot(history'[n], s) = PrevRoot(history[n], s)
      BY <2>1, <2>2 DEF HistoryGrows
    <3>3. b.proposer \in S =>
            Proposed(b)' /\ b.slot = s /\ b.vrfProof.seed = Seed(PrevRoot(history'[k], s), s)
      BY <1>1, <2>2, <3>2 DEF SeedOf
    <3>4. b.proposer \in S => AdoptedBy(k, s)'
      BY <3>1, <3>3 DEF AdoptedBy
    <3> QED
      BY <2>1, <2>2, <3>1, <3>4
  <2>3. CASE ~(k = n /\ s = slot[n])
    <3>1. s \in DOMAIN history[k] /\ history'[k][s] = history[k][s]
      BY <1>2, <2>3
    <3>2. running[k] /\ s <= slot[k] /\ (history[k][s].proposer \in S => AdoptedBy(k, s))
      BY <3>1 DEF Traceable
    <3>3. PrevRoot(history'[k], s) = PrevRoot(history[k], s)
      BY <2>1, <3>2 DEF HistoryGrows
    <3>4. PICK c : c = history[k][s]
      OBVIOUS
    <3>5. Proposed(c) => Proposed(c)'
      BY <1>1
    <3>6. c.proposer \in S => AdoptedBy(k, s)'
      BY <3>1, <3>2, <3>3, <3>4, <3>5 DEF AdoptedBy
    <3> QED
      BY <3>1, <3>2, <3>4, <3>6
  <2> QED
    BY <2>2, <2>3
<1>4. \A k \in Nodes : \A p \in proposals'[k] : p.proposer \in S => Proposed(p)'
  BY <1>1 DEF Traceable
<1>5. \A m \in batchNet' : m.body.proposer \in S => Proposed(m.body)'
  <2>1. ASSUME NEW m \in batchNet', m.body.proposer \in S PROVE Proposed(m.body)'
    <3>1. Proposed(m.body)
      <4>1. m \in batchNet
        OBVIOUS
      <4> QED
        BY <2>1, <4>1 DEF Traceable
    <3> QED
      BY <1>1, <3>1
  <2> QED
    BY <2>1
<1> QED
  BY <1>3, <1>4, <1>5 DEF Traceable

\* No step makes a proposal, or a batch, untraceable.
LEMMA TraceableInductive ==
  ASSUME TypeOK, TypeOK', NEW S \in SUBSET Nodes, Traceable(S), [Next]_vars
  PROVE  Traceable(S)'
<1> USE DEF clockVars, nets
<1>1. HistoryGrows
  BY NextGrows
<1>2. ASSUME UNCHANGED history,
             \A n \in Nodes : proposals'[n] \subseteq proposals[n],
             batchNet' \subseteq batchNet
      PROVE  Traceable(S)'
  <2>1. \A n \in Nodes : \A p \in proposals'[n] : p.proposer \in S => Proposed(p)
    BY <1>2 DEF Traceable
  <2>2. \A m \in batchNet' : m.body.proposer \in S => Proposed(m.body)
    BY <1>2 DEF Traceable
  <2> QED
    BY <1>1, <1>2, <2>1, <2>2, NoNewHistory
<1>3. ASSUME UNCHANGED <<history, proposals, batchNet>> PROVE Traceable(S)'
  BY <1>2, <1>3 DEF TypeOK
<1>4. ASSUME NEW m \in batchNet, OnBatch(m) PROVE Traceable(S)'
  <2>1. m.body.proposer \in S => Proposed(m.body)
    BY DEF Traceable
  <2>2. \A n \in Nodes : \A p \in proposals'[n] : p.proposer \in S => Proposed(p)
    BY <1>4, <2>1 DEF OnBatch, Traceable, TypeOK
  <2>3. UNCHANGED history /\ batchNet' \subseteq batchNet
    BY <1>4 DEF OnBatch
  <2>4. \A k \in batchNet' : k.body.proposer \in S => Proposed(k.body)
    BY <2>3 DEF Traceable
  <2> QED
    BY <1>1, <2>2, <2>3, <2>4, NoNewHistory
<1>5. ASSUME NEW m \in batchNet, OnLateBatch(m) PROVE Traceable(S)'
  BY <1>2, <1>5 DEF OnLateBatch, TypeOK
<1>6. ASSUME NEW n \in Nodes, ToPropose(n) PROVE Traceable(S)'
  <2> DEFINE batch == Build(slot[n], n, Prove(n, SeedOf(n)), Common(n))
  <2>1. Proposed(batch)
    BY <1>6, NewProposal DEF ToPropose, Leaves
  <2> HIDE DEF batch
  <2>2. /\ UNCHANGED history
        /\ \/ /\ proposals' = [proposals EXCEPT ![n] = @ \cup {batch}]
              /\ batchNet' = batchNet \cup Publish(n, batch)
           \/ UNCHANGED <<proposals, batchNet>>
    BY <1>6 DEF ToPropose, batch
  <2>3. \A k \in Nodes : \A p \in proposals'[k] : p.proposer \in S => Proposed(p)
    <3>1. SUFFICES ASSUME NEW k \in Nodes, NEW p \in proposals'[k], p.proposer \in S
                   PROVE  Proposed(p)
      OBVIOUS
    <3>2. p \in proposals[k] \/ p = batch
      BY <2>2 DEF TypeOK
    <3> QED
      BY <2>1, <3>1, <3>2 DEF Traceable
  <2>4. \A m \in batchNet' : m.body.proposer \in S => Proposed(m.body)
    BY <2>1, <2>2 DEF Traceable, Publish
  <2> QED
    BY <1>1, <2>2, <2>3, <2>4, NoNewHistory
<1>7. ASSUME NEW n \in Nodes, FinalizeWinner(n) PROVE Traceable(S)'
  <2>1. PICK w \in Valid(n) : Record(n, w)
    BY <1>7 DEF FinalizeWinner, IsWinner
  <2>2. /\ running[n] /\ UNCHANGED <<running, slot, batchNet>>
        /\ Forget(n, slot[n], pool[n])
    BY <1>7 DEF FinalizeWinner, Leaves
  <2>3. (w.proposer \in S => Proposed(w)) /\ w.slot = slot[n] /\ w.vrfProof.seed = SeedOf(n)
    BY <2>1 DEF Valid, ValidProposal, Verify, Traceable
  <2>4. \A k \in Nodes : proposals'[k] \subseteq proposals[k]
    BY <2>2 DEF Forget, TypeOK
  <2> QED
    BY <1>1, <2>1, <2>2, <2>3, <2>4, NewHistory
<1>8. ASSUME NEW n \in Nodes, FinalizeSkip(n) \/ FinalizeEmergency(n) PROVE Traceable(S)'
  <2>1. /\ running[n] /\ UNCHANGED <<running, slot, batchNet>>
        /\ Record(n, NullBatch(slot[n]))
    BY <1>8 DEF FinalizeSkip, FinalizeEmergency, Skip, Leaves
  <2>2. NullBatch(slot[n]).proposer \notin Nodes
    BY ConsensusAssumption DEF NullBatch
  <2>3. \A k \in Nodes : proposals'[k] \subseteq proposals[k]
    BY <1>8 DEF FinalizeSkip, FinalizeEmergency, Forget, TypeOK
  <2> QED
    BY <1>1, <2>1, <2>2, <2>3, NewHistory
<1>9. ASSUME NEW n \in Nodes, NEW s \in pending[n], FinishFinalize(n, s) PROVE Traceable(S)'
  <2>1. UNCHANGED <<history, batchNet>> /\ Forget(n, s, pool[n])
    BY <1>9 DEF FinishFinalize
  <2>2. \A k \in Nodes : proposals'[k] \subseteq proposals[k]
    BY <2>1 DEF Forget, TypeOK
  <2> QED
    BY <1>2, <2>1, <2>2
<1>10. ASSUME \/ \E n \in Nodes, tx \in Txs : Submit(n, tx)
              \/ \E m \in txNet : OnTx(m)
              \/ \E m \in digestNet : OnDigest(m)
              \/ \E m \in syncNet : OnMempoolSync(m)
              \/ \E n \in Nodes : \/ StartSlotManager(n) \/ ToFreeze(n)
                                  \/ ToSync(n) \/ ToCollect(n)
              \/ Tick \/ Horizon \/ UNCHANGED vars
       PROVE  Traceable(S)'
  <2>1. UNCHANGED <<history, proposals, batchNet>>
    BY <1>10 DEF Submit, OnTx, OnDigest, OnMempoolSync, StartSlotManager, ToFreeze, ToSync,
                 ToCollect, Tick, Horizon, vars
  <2> QED
    BY <1>3, <2>1
<1> QED
  BY <1>4, <1>5, <1>6, <1>7, <1>8, <1>9, <1>10 DEF Next

\* A node finalises a slot with somebody's batch only if it agrees with its
\* proposer on what came before, under any network: late, reordered or lost
\* messages, late starts, and forks that happened earlier.
THEOREM AdoptionCorrect == Spec => []AdoptedBatchSharesHistory
<1>1. Init => Traceable(Nodes)
  BY DEF Init, Traceable
<1>2. TypeOK /\ TypeOK' /\ Traceable(Nodes) /\ [Next]_vars => Traceable(Nodes)'
  BY TraceableInductive
<1>3. Traceable(Nodes) => AdoptedBatchSharesHistory
  BY TraceableSuffices DEF AdoptedBatchSharesHistory
<1> QED
  BY <1>1, <1>2, <1>3, TypeCorrect, PTL DEF Spec

-------------------------------------------------------------------------------
\* What the steps of the network do to the books of one node.

\* Node n records b for the slot it is in, which ends its PROPOSE.
Finalises(n, b) ==
  /\ running[n]
  /\ phase[n] = "PROPOSE"
  /\ now >= Due(n)
  /\ phase' = [phase EXCEPT ![n] = "FINALIZE"]
  /\ UNCHANGED <<now, running, slot>>
  /\ Record(n, b)
  /\ \/ b \in Valid(n) /\ IsWinner(b, Valid(n)) /\ SetSkips(n, 0)
     \/ Valid(n) = {} /\ b = NullBatch(slot[n]) /\ SetSkips(n, skips[n] + 1)

\* Node n goes from one phase to the next before it finalises.
Proceeds(n) ==
  /\ running[n]
  /\ phase[n] \in {"COLLECT", "FREEZE", "SYNC"}
  /\ now >= Due(n)
  /\ phase' = [phase EXCEPT ![n] = NextPhase[phase[n]]]
  /\ UNCHANGED <<now, running, slot, skips, history, stateRoot>>

\* The steps as the histories see them.
LEMMA BookSteps ==
  ASSUME TypeOK, [Next]_vars
  PROVE  \/ /\ UNCHANGED <<running, slot, phase, skips, history, stateRoot>>
            /\ now' \in {now, now + 1}
         \/ \E n \in Nodes : StartSlotManager(n) \/ Proceeds(n) \/ ToCollect(n)
         \/ \E n \in Nodes : \E b : Finalises(n, b)
<1> DEFINE Quiet == /\ UNCHANGED <<running, slot, phase, skips, history, stateRoot>>
                    /\ now' \in {now, now + 1}
<1> USE DEF clockVars, nets
<1>1. ASSUME \/ \E n \in Nodes, tx \in Txs : Submit(n, tx)
             \/ \E m \in txNet : OnTx(m)
             \/ \E m \in digestNet : OnDigest(m)
             \/ \E m \in batchNet : OnBatch(m)
             \/ \E m \in batchNet : OnLateBatch(m)
             \/ \E m \in syncNet : OnMempoolSync(m)
             \/ \E n \in Nodes : \E s \in pending[n] : FinishFinalize(n, s)
             \/ Tick
             \/ Horizon
             \/ UNCHANGED vars
      PROVE  Quiet
  BY <1>1 DEF Submit, OnTx, OnDigest, OnBatch, OnLateBatch, OnMempoolSync,
              FinishFinalize, Tick, Horizon, vars
<1>2. ASSUME NEW n \in Nodes, ToFreeze(n) \/ ToSync(n) \/ ToPropose(n) PROVE Proceeds(n)
  BY <1>2 DEF ToFreeze, ToSync, ToPropose, Leaves, Proceeds
<1>3. ASSUME NEW n \in Nodes, FinalizeWinner(n) PROVE \E b : Finalises(n, b)
  <2>1. PICK w \in Valid(n) : IsWinner(w, Valid(n)) /\ Record(n, w)
    BY <1>3 DEF FinalizeWinner
  <2>2. Finalises(n, w)
    BY <1>3, <2>1 DEF FinalizeWinner, Leaves, NextPhase, Finalises
  <2> QED
    BY <2>2
<1>4. ASSUME NEW n \in Nodes, FinalizeSkip(n) \/ FinalizeEmergency(n)
      PROVE  \E b : Finalises(n, b)
  <2>1. Skip(n) /\ UNCHANGED slot
    BY <1>4 DEF FinalizeSkip, FinalizeEmergency
  <2>2. Finalises(n, NullBatch(slot[n]))
    BY <2>1 DEF Skip, Leaves, NextPhase, Finalises
  <2> QED
    BY <2>2
<1> QED
  BY <1>1, <1>2, <1>3, <1>4 DEF Next

-------------------------------------------------------------------------------
\* The state root.

\* The inductive invariant behind StateRootCommitsToHistory: the slots the root
\* of node n commits to are contiguous and end right before the slot the node
\* has open.  A node that has not been started has none, so that it may be
\* started in any slot.
Chained(n) ==
  LET r == stateRoot[n]
  IN /\ \E S : r \in Seq(S)
     /\ ~running[n] => r = <<>>
     /\ DOMAIN history[n] = {r[i].slot : i \in 1 .. Len(r)}
     /\ \A i \in 1 .. Len(r) :
          /\ r[i].slot = OpenSlot(n) - Len(r) + i - 1
          /\ r[i].batchRoot = history[n][r[i].slot].root

AllChained == \A n \in Nodes : Chained(n)

\* The slot a node is to finalise next is not in its history: those are over.
LEMMA HistoryBelowOpen ==
  ASSUME TypeOK, NEW n \in Nodes, Chained(n), NEW s \in DOMAIN history[n]
  PROVE  s \in Nat /\ s < OpenSlot(n)
<1>1. PICK i \in 1 .. Len(stateRoot[n]) : s = stateRoot[n][i].slot
  BY DEF Chained
<1>2. Len(stateRoot[n]) \in Nat
  BY LenProperties DEF Chained
<1>3. OpenSlot(n) \in Int
  BY DEF OpenSlot, TypeOK
<1>4. s = OpenSlot(n) - Len(stateRoot[n]) + i - 1
  BY <1>1 DEF Chained
<1>5. i \in Nat /\ i <= Len(stateRoot[n])
  BY <1>2
<1> QED
  BY <1>2, <1>3, <1>4, <1>5 DEF TypeOK

\* Chained only looks at one node's books and at its open slot.
LEMMA ChainedStable ==
  ASSUME NEW n \in Nodes, Chained(n),
         history'[n] = history[n], stateRoot'[n] = stateRoot[n],
         OpenSlot(n)' = OpenSlot(n) \/ stateRoot[n] = <<>>,
         running[n] => running'[n]
  PROVE  Chained(n)'
<1>1. CASE stateRoot[n] = <<>>
  <2>1. Len(stateRoot[n]) = 0
    BY <1>1
  <2> QED
    BY <1>1, <2>1 DEF Chained
<1>2. CASE OpenSlot(n)' = OpenSlot(n)
  BY <1>2 DEF Chained
<1> QED
  BY <1>1, <1>2

\* computeStateRoot extends the chain by the slot that is being finalised.
LEMMA FinaliseChains ==
  ASSUME TypeOK, NEW n \in Nodes, Chained(n), NEW b, Finalises(n, b)
  PROVE  Chained(n)'
<1> DEFINE r == stateRoot[n]
           e == [slot |-> slot[n], batchRoot |-> b.root]
           k == Len(r)
<1>1. PICK S : r \in Seq(S)
  BY DEF Chained
<1>2. stateRoot'[n] = Append(r, e)
  BY DEF Finalises, Record, TypeOK
<1>3. /\ slot[n] \in Nat /\ k \in Nat
      /\ OpenSlot(n) = slot[n] /\ OpenSlot(n)' = slot[n] + 1
  BY <1>1, LenProperties DEF Finalises, OpenSlot, TypeOK
<1>4. r \in Seq(S \cup {e})
  BY <1>1
<1>5. /\ stateRoot'[n] \in Seq(S \cup {e})
      /\ Len(stateRoot'[n]) = k + 1
      /\ \A i \in 1 .. k : stateRoot'[n][i] = r[i]
      /\ stateRoot'[n][k + 1] = e
  <2> HIDE DEF e
  <2>1. r \in Seq(S \cup {e}) /\ e \in S \cup {e}
    BY <1>4
  <2> QED
    BY <1>2, <2>1, AppendProperties
<1>6. /\ DOMAIN history'[n] = DOMAIN history[n] \cup {slot[n]}
      /\ history'[n][slot[n]] = b
      /\ \A s \in DOMAIN history[n] : s # slot[n] => history'[n][s] = history[n][s]
  BY DEF Finalises, Record, TypeOK
<1>7. \A i \in 1 .. k : /\ r[i].slot = slot[n] - k + i - 1
                        /\ r[i].batchRoot = history[n][r[i].slot].root
                        /\ r[i].slot \in DOMAIN history[n]
  BY <1>3 DEF Chained
<1>8. \A i \in 1 .. k + 1 :
        /\ stateRoot'[n][i].slot = OpenSlot(n)' - (k + 1) + i - 1
        /\ stateRoot'[n][i].batchRoot = history'[n][stateRoot'[n][i].slot].root
  <2>1. ASSUME NEW i \in 1 .. k
        PROVE  /\ stateRoot'[n][i].slot = OpenSlot(n)' - (k + 1) + i - 1
               /\ stateRoot'[n][i].batchRoot = history'[n][stateRoot'[n][i].slot].root
    <3>1. r[i].slot = slot[n] - k + i - 1 /\ i \in Nat /\ i <= k
      BY <1>3, <1>7
    <3>2. r[i].slot # slot[n]
      BY <1>3, <3>1
    <3>3. stateRoot'[n][i] = r[i]
      BY <1>5
    <3>4. r[i].slot = OpenSlot(n)' - (k + 1) + i - 1
      BY <1>3, <3>1
    <3>5. r[i].batchRoot = history'[n][r[i].slot].root
      BY <1>6, <1>7, <3>2
    <3> QED
      BY <3>3, <3>4, <3>5
  <2>2. /\ stateRoot'[n][k + 1].slot = OpenSlot(n)' - (k + 1) + (k + 1) - 1
        /\ stateRoot'[n][k + 1].batchRoot = history'[n][stateRoot'[n][k + 1].slot].root
    BY <1>3, <1>5, <1>6
  <2>3. \A i \in 1 .. k + 1 : i \in 1 .. k \/ i = k + 1
    BY <1>3
  <2> QED
    BY <2>1, <2>2, <2>3
<1>9. DOMAIN history'[n] = {stateRoot'[n][i].slot : i \in 1 .. k + 1}
  <2>1. DOMAIN history[n] = {r[i].slot : i \in 1 .. k}
    BY DEF Chained
  <2>2. {stateRoot'[n][i].slot : i \in 1 .. k + 1}
          = {stateRoot'[n][i].slot : i \in 1 .. k} \cup {stateRoot'[n][k + 1].slot}
    <3>1. 1 .. k + 1 = (1 .. k) \cup {k + 1}
      BY <1>3
    <3> HIDE DEF k
    <3> QED
      BY <3>1
  <2>3. {stateRoot'[n][i].slot : i \in 1 .. k} = {r[i].slot : i \in 1 .. k}
    BY <1>5
  <2> QED
    BY <1>5, <1>6, <2>1, <2>2, <2>3
<1>10. running'[n]
  BY DEF Finalises
<1> QED
  BY <1>5, <1>8, <1>9, <1>10 DEF Chained

\* Every step keeps state roots chained.
LEMMA AllChainedInductive ==
  ASSUME TypeOK, AllChained, [Next]_vars
  PROVE  AllChained'
<1>1. CASE UNCHANGED <<running, slot, phase, skips, history, stateRoot>>
  BY <1>1 DEF AllChained, Chained, OpenSlot
<1>2. ASSUME NEW n \in Nodes, StartSlotManager(n) PROVE AllChained'
  <2>1. ASSUME NEW m \in Nodes PROVE Chained(m)'
    <3>1. Chained(m)
      BY DEF AllChained
    <3>2. /\ history'[m] = history[m] /\ stateRoot'[m] = stateRoot[m]
          /\ running[m] => running'[m]
      BY <1>2 DEF StartSlotManager, TypeOK
    <3>3. OpenSlot(m)' = OpenSlot(m) \/ stateRoot[m] = <<>>
      BY <1>2, <3>1 DEF StartSlotManager, OpenSlot, Chained, TypeOK
    <3> QED
      BY <3>1, <3>2, <3>3, ChainedStable
  <2> QED
    BY <2>1 DEF AllChained
<1>3. ASSUME NEW n \in Nodes, Proceeds(n) \/ ToCollect(n) PROVE AllChained'
  <2>1. ASSUME NEW m \in Nodes PROVE Chained(m)'
    <3>1. Chained(m)
      BY DEF AllChained
    <3>2. /\ history'[m] = history[m] /\ stateRoot'[m] = stateRoot[m]
          /\ running[m] => running'[m]
      BY <1>3 DEF Proceeds, ToCollect, Leaves
    <3>3. OpenSlot(m)' = OpenSlot(m)
      BY <1>3 DEF Proceeds, ToCollect, Leaves, NextPhase, OpenSlot, TypeOK
    <3> QED
      BY <3>1, <3>2, <3>3, ChainedStable
  <2> QED
    BY <2>1 DEF AllChained
<1>4. ASSUME NEW n \in Nodes, NEW b, Finalises(n, b) PROVE AllChained'
  <2>1. ASSUME NEW m \in Nodes PROVE Chained(m)'
    <3>1. Chained(m)
      BY DEF AllChained
    <3>2. CASE m = n
      BY <1>4, <3>1, <3>2, FinaliseChains
    <3>3. CASE m # n
      <4>1. /\ history'[m] = history[m] /\ stateRoot'[m] = stateRoot[m]
            /\ running[m] => running'[m]
            /\ OpenSlot(m)' = OpenSlot(m)
        BY <1>4, <3>3 DEF Finalises, Record, OpenSlot, TypeOK
      <4> QED
        BY <3>1, <4>1, ChainedStable
    <3> QED
      BY <3>2, <3>3
  <2> QED
    BY <2>1 DEF AllChained
<1> QED
  BY <1>1, <1>2, <1>3, <1>4, BookSteps

\* An empty history is chained.
LEMMA AllChainedInit == ASSUME Init PROVE AllChained
<1>1. <<>> \in Seq({}) /\ Len(<<>>) = 0
  OBVIOUS
<1> QED
  BY <1>1 DEF Init, AllChained, Chained, OpenSlot

\* computeStateRoot is called for every slot since the node started, once and in
\* order, with the batch that goes into the history.
THEOREM StateRootCorrect == Spec => []StateRootCommitsToHistory
<1>1. TypeOK /\ AllChained => StateRootCommitsToHistory
  <2> SUFFICES ASSUME TypeOK, AllChained, NEW n \in Nodes
               PROVE  /\ {stateRoot[n][i].slot : i \in 1 .. Len(stateRoot[n])} = DOMAIN history[n]
                      /\ \A i \in 1 .. Len(stateRoot[n]) :
                           /\ stateRoot[n][i].slot = stateRoot[n][1].slot + i - 1
                           /\ stateRoot[n][i].batchRoot = history[n][stateRoot[n][i].slot].root
    BY DEF StateRootCommitsToHistory
  <2> DEFINE k == Len(stateRoot[n])
  <2>1. Chained(n)
    BY DEF AllChained
  <2>2. k \in Nat /\ OpenSlot(n) \in Int
    BY <2>1, LenProperties DEF Chained, OpenSlot, TypeOK
  <2>3. ASSUME NEW i \in 1 .. k PROVE stateRoot[n][i].slot = stateRoot[n][1].slot + i - 1
    <3>1. 1 \in 1 .. k /\ i \in Int
      BY <2>2
    <3>2. /\ stateRoot[n][i].slot = OpenSlot(n) - k + i - 1
          /\ stateRoot[n][1].slot = OpenSlot(n) - k + 1 - 1
      BY <2>1, <3>1 DEF Chained
    <3> QED
      BY <2>2, <3>1, <3>2
  <2> QED
    BY <2>1, <2>3 DEF Chained
<1> QED
  BY <1>1, AllChainedInit, AllChainedInductive, TypeCorrect, PTL DEF Spec

-------------------------------------------------------------------------------
\* The skip counter.

TrailingNulls(h) == {s \in DOMAIN h : \A t \in DOMAIN h : t >= s => h[t].proposer = SKIP}

\* The inductive invariant behind SkipsCountTrailingNulls: what is counted is
\* finite.
Counted ==
  \A n \in Nodes :
    /\ IsFiniteSet(TrailingNulls(history[n]))
    /\ skips[n] = Cardinality(TrailingNulls(history[n]))

\* A null batch on top of a history joins the null batches the history ends with.
LEMMA NullOnTop ==
  ASSUME NEW h, NEW g, NEW s \in Nat,
         \A i \in DOMAIN h : i \in Nat /\ i < s,
         DOMAIN g = DOMAIN h \cup {s}, \A i \in DOMAIN h : g[i] = h[i],
         g[s].proposer = SKIP
  PROVE  TrailingNulls(g) = TrailingNulls(h) \cup {s} /\ s \notin TrailingNulls(h)
<1>1. s \notin DOMAIN h
  OBVIOUS
<1>2. ASSUME NEW i \in DOMAIN h
      PROVE  i \in TrailingNulls(g) <=> i \in TrailingNulls(h)
  BY <1>1 DEF TrailingNulls
<1>3. s \in TrailingNulls(g)
  BY DEF TrailingNulls
<1>4. TrailingNulls(g) \subseteq DOMAIN h \cup {s} /\ TrailingNulls(h) \subseteq DOMAIN h
  BY DEF TrailingNulls
<1> QED
  BY <1>1, <1>2, <1>3, <1>4

\* A batch with a proposer ends every run of null batches before it.
LEMMA WinnerOnTop ==
  ASSUME NEW h, NEW g, NEW s \in Nat,
         \A i \in DOMAIN h : i \in Nat /\ i < s,
         DOMAIN g = DOMAIN h \cup {s},
         g[s].proposer # SKIP
  PROVE  TrailingNulls(g) = {}
<1>1. SUFFICES ASSUME NEW i \in TrailingNulls(g) PROVE FALSE
  OBVIOUS
<1>2. i \in Nat /\ s >= i /\ s \in DOMAIN g
  BY <1>1 DEF TrailingNulls
<1> QED
  BY <1>1, <1>2 DEF TrailingNulls

\* Who finalises a slot counts on, or begins anew, as the history does.
LEMMA FinaliseCounts ==
  ASSUME TypeOK, NEW n \in Nodes, Chained(n), NEW b, Finalises(n, b),
         IsFiniteSet(TrailingNulls(history[n])),
         skips[n] = Cardinality(TrailingNulls(history[n]))
  PROVE  /\ IsFiniteSet(TrailingNulls(history'[n]))
         /\ skips'[n] = Cardinality(TrailingNulls(history'[n]))
<1> DEFINE h == history[n]
           g == history'[n]
<1>1. slot[n] \in Nat /\ OpenSlot(n) = slot[n]
  BY DEF Finalises, OpenSlot, TypeOK
<1>2. \A i \in DOMAIN h : i \in Nat /\ i < slot[n]
  BY <1>1, HistoryBelowOpen
<1>3. /\ DOMAIN g = DOMAIN h \cup {slot[n]}
      /\ g[slot[n]] = b
      /\ \A i \in DOMAIN h : i # slot[n] => g[i] = h[i]
  BY DEF Finalises, Record, TypeOK
<1>4. \A i \in DOMAIN h : g[i] = h[i]
  BY <1>1, <1>2, <1>3
<1>5. CASE b \in Valid(n) /\ SetSkips(n, 0)
  <2>1. b.proposer # SKIP
    BY <1>5, ConsensusAssumption DEF Valid, ValidProposal
  <2>2. TrailingNulls(g) = {}
    <3> HIDE DEF g, h
    <3> QED
      BY <1>1, <1>2, <1>3, <2>1, WinnerOnTop
  <2>3. skips'[n] = 0
    BY <1>5 DEF SetSkips, TypeOK
  <2> QED
    BY <2>2, <2>3, FS_EmptySet
<1>6. CASE b = NullBatch(slot[n]) /\ SetSkips(n, skips[n] + 1)
  <2>1. b.proposer = SKIP
    BY <1>6 DEF NullBatch
  <2>2. TrailingNulls(g) = TrailingNulls(h) \cup {slot[n]} /\ slot[n] \notin TrailingNulls(h)
    <3> HIDE DEF g, h
    <3> QED
      BY <1>1, <1>2, <1>3, <1>4, <2>1, NullOnTop
  <2>3. skips'[n] = skips[n] + 1
    BY <1>6 DEF SetSkips, TypeOK
  <2>4. /\ IsFiniteSet(TrailingNulls(h) \cup {slot[n]})
        /\ Cardinality(TrailingNulls(h) \cup {slot[n]}) = Cardinality(TrailingNulls(h)) + 1
    <3> HIDE DEF h
    <3>1. IsFiniteSet(TrailingNulls(h))
      BY DEF h
    <3> QED
      BY <2>2, <3>1, FS_AddElement
  <2> QED
    BY <2>2, <2>3, <2>4
<1> QED
  BY <1>5, <1>6 DEF Finalises

\* However wins and skips follow each other, the skip counter, and with it the
\* stretch and the resync, say how many slots at the end of the history are null.
THEOREM SkipCounterCorrect == Spec => []SkipsCountTrailingNulls
<1>1. Init => Counted
  <2> SUFFICES ASSUME Init, NEW n \in Nodes
               PROVE  /\ IsFiniteSet(TrailingNulls(history[n]))
                      /\ skips[n] = Cardinality(TrailingNulls(history[n]))
    BY DEF Counted
  <2>1. TrailingNulls(history[n]) = {}
    BY DEF Init, TrailingNulls
  <2> QED
    BY <2>1, FS_EmptySet DEF Init
<1>2. TypeOK /\ AllChained /\ Counted /\ [Next]_vars => Counted'
  <2> SUFFICES ASSUME TypeOK, AllChained, Counted, [Next]_vars PROVE Counted'
    OBVIOUS
  <2>1. CASE UNCHANGED <<skips, history>>
    BY <2>1 DEF Counted
  <2>2. ASSUME NEW n \in Nodes, StartSlotManager(n) \/ Proceeds(n) \/ ToCollect(n)
        PROVE  UNCHANGED <<skips, history>>
    BY <2>2 DEF StartSlotManager, Proceeds, ToCollect, Leaves, clockVars, nets
  <2>3. ASSUME NEW n \in Nodes, NEW b, Finalises(n, b) PROVE Counted'
    <3>1. ASSUME NEW m \in Nodes
          PROVE  /\ IsFiniteSet(TrailingNulls(history'[m]))
                 /\ skips'[m] = Cardinality(TrailingNulls(history'[m]))
      <4>1. CASE m = n
        BY <2>3, <4>1, FinaliseCounts DEF AllChained, Counted
      <4>2. CASE m # n
        <5>1. history'[m] = history[m] /\ skips'[m] = skips[m]
          BY <2>3, <4>2 DEF Finalises, Record, SetSkips, TypeOK
        <5> QED
          BY <5>1 DEF Counted
      <4> QED
        BY <4>1, <4>2
    <3> QED
      BY <3>1 DEF Counted
  <2> QED
    BY <2>1, <2>2, <2>3, BookSteps
<1>3. Counted => SkipsCountTrailingNulls
  BY DEF Counted, SkipsCountTrailingNulls, TrailingNulls
<1> QED
  BY <1>1, <1>2, <1>3, AllChainedInit, AllChainedInductive, TypeCorrect, PTL DEF Spec
===============================================================================
