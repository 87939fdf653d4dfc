------------------------- MODULE SequencerFaultsProofs -------------------------
(* Proofs about SequencerFaults, for any number of crashes at any moment, any   *)
(* loss with them and any answer of publishTx: types, whose batches are adopted *)
(* and what is refused; and, on a timetable, that the survivors agree and keep  *)
(* the promises they have made to clients.                                      *)
EXTENDS SequencerFaults, SequencerAgreementProofs

-------------------------------------------------------------------------------
\* Types.

\* The types of the network's state, and of what the faults add to it.
FaultTypeOK ==
  /\ TypeOK
  /\ up \subseteq Nodes
  /\ launched \in [Nodes -> Nat]
  /\ crashed \subseteq Nodes
  /\ split \in BOOLEAN
  /\ resynced \in BOOLEAN
  /\ replies \subseteq [tx : Txs, node : Nodes, at : Nat, status : {200, 400}]

\* What a process does by itself, or for a client it answers with 200, is a step
\* of the network without faults.
LEMMA WorksIsNext == ASSUME NEW n \in Nodes, Works(n) PROVE Next
BY DEF Works, To, StartAgain, Next

\* So is a submission that is answered with 200.
LEMMA SubmitIsNext == ASSUME NEW n \in Nodes, NEW tx \in Txs, Submit(n, tx) PROVE Next
BY DEF Next

\* Every step, a crash and a relaunch included, keeps to the types.
LEMMA FaultTypeInductive ==
  ASSUME FaultTypeOK, [FaultNext]_<<vars, faultVars>>
  PROVE  FaultTypeOK'
<1> USE SequencerAssumption DEF FaultTypeOK
<1>1. ASSUME NEW n \in up, Works(n), NotesResync, UNCHANGED <<up, launched, crashed, split, replies>>
      PROVE  FaultTypeOK'
  <2>1. TypeOK'
    BY <1>1, WorksIsNext, TypeInductive
  <2> QED
    BY <1>1, <2>1 DEF NotesResync
<1>2. ASSUME NEW n \in up, NEW tx \in Txs, NEW status \in {200, 400}, Reply(n, tx, status)
      PROVE  replies' \subseteq [tx : Txs, node : Nodes, at : Nat, status : {200, 400}]
  BY <1>2 DEF Reply, TypeOK
<1>3. ASSUME NEW n \in up, Serves(n), UNCHANGED <<up, launched, crashed, split, resynced>>
      PROVE  FaultTypeOK'
  <2>1. ASSUME NEW tx \in Txs, Submit(n, tx), Reply(n, tx, 200) PROVE FaultTypeOK'
    <3>1. TypeOK'
      BY <2>1, SubmitIsNext, TypeInductive
    <3> QED
      BY <1>2, <1>3, <2>1, <3>1
  <2>2. ASSUME NEW tx \in Txs, SubmitThrows(n, tx), Reply(n, tx, 400) PROVE FaultTypeOK'
    <3>1. pool' \in [Nodes -> SUBSET (Nat \X Txs)]
      BY <2>2, AddType DEF SubmitThrows, TypeOK
    <3>2. submitted' \subseteq [tx : Txs, at : Nat]
      BY <2>2 DEF SubmitThrows, TypeOK
    <3>3. TypeOK'
      BY <2>2, <3>1, <3>2 DEF SubmitThrows, TypeOK, clockVars, nets
    <3> QED
      BY <1>2, <1>3, <2>2, <3>3
  <2> QED
    BY <1>3, <2>1, <2>2 DEF Serves
<1>4. ASSUME NEW n \in Nodes, Crash(n) PROVE FaultTypeOK'
  <2>1. /\ running' \in [Nodes -> BOOLEAN] /\ phase' \in [Nodes -> Phases]
        /\ skips' \in [Nodes -> Nat]
        /\ effectiveDelta' \in [Nodes -> {EffectiveSlotDuration(k) : k \in 0 .. 2}]
    BY <1>4, StretchRange DEF Crash, SetSkips, TypeOK, Phases
  <2>2. /\ pool' \in [Nodes -> SUBSET (Nat \X Txs)] /\ digests' \in [Nodes -> SUBSET Digest]
        /\ pending' \in [Nodes -> SUBSET Nat]
    BY <1>4 DEF Crash, TypeOK
  <2>3. /\ DOMAIN proposals' = Nodes /\ \A k \in Nodes : \A p \in proposals'[k] : WellFormed(p)
        /\ DOMAIN history' = Nodes /\ DOMAIN stateRoot' = Nodes
    BY <1>4 DEF Crash, TypeOK
  <2>4. \A k \in Nodes : DOMAIN history'[k] \subseteq Nat
    <3>1. DOMAIN <<>> = {}
      OBVIOUS
    <3> QED
      BY <1>4, <3>1 DEF Crash, TypeOK
  <2>5. /\ txNet' \subseteq txNet /\ digestNet' \subseteq digestNet
        /\ batchNet' \subseteq batchNet /\ syncNet' \subseteq syncNet
    BY <1>4 DEF Crash
  <2>6. UNCHANGED <<now, slot, submitted>>
    BY <1>4 DEF Crash
  <2>7. TypeOK'
    BY <2>1, <2>2, <2>3, <2>4, <2>5, <2>6 DEF TypeOK
  <2>8. split' \in BOOLEAN
    BY <1>4 DEF Crash
  <2> QED
    BY <1>4, <2>7, <2>8 DEF Crash
<1>5. ASSUME NEW n \in Nodes, Relaunch(n) PROVE FaultTypeOK'
  <2>1. slot' \in [Nodes -> Nat] /\ launched' \in [Nodes -> Nat]
    <3>1. Genesis \in Int /\ now \in Int /\ now \in Nat
      BY DEF TypeOK
    <3>2. WallSlot(Genesis, now) \in Nat
      BY <3>1, WallSlotBrackets
    <3> QED
      BY <1>5, <3>1, <3>2 DEF Relaunch, TypeOK
  <2>2. /\ txNet' \subseteq txNet /\ digestNet' \subseteq digestNet
        /\ batchNet' \subseteq batchNet /\ syncNet' \subseteq syncNet
    BY <1>5 DEF Relaunch, NotTo
  <2>3. TypeOK'
    BY <1>5, <2>1, <2>2 DEF Relaunch, TypeOK
  <2> QED
    BY <1>5, <2>1, <2>3 DEF Relaunch
<1>6. CASE TickWithFaults /\ UNCHANGED faultVars
  <2>1. /\ now' = now + 1
        /\ UNCHANGED <<clockVars, pool, digests, proposals, history, stateRoot, pending,
                       submitted, nets>>
    BY <1>6 DEF TickWithFaults
  <2>2. TypeOK'
    <3>1. now' \in Nat
      BY <2>1 DEF TypeOK
    <3> QED
      BY <2>1, <3>1 DEF TypeOK, clockVars, nets
  <2> QED
    BY <1>6, <2>2 DEF faultVars
<1>7. CASE UNCHANGED <<vars, faultVars>>
  <2>1. TypeOK'
    BY <1>7, TypeInductive
  <2> QED
    BY <1>7, <2>1 DEF faultVars
<1> QED
  BY <1>1, <1>3, <1>4, <1>5, <1>6, <1>7 DEF FaultNext, Horizon

\* A crash, whenever it comes, a relaunch and a failed publish keep to the types.
THEOREM FaultTypeCorrect == FaultSpec => []FaultTypeOK
<1>1. FaultInit => FaultTypeOK
  <2>1. Init => TypeOK
    BY InitType
  <2>2. [n \in Nodes |-> 0] \in [Nodes -> Nat]
    OBVIOUS
  <2> QED
    BY <2>1, <2>2 DEF FaultInit, FaultTypeOK
<1>2. FaultTypeOK /\ [FaultNext]_<<vars, faultVars>> => FaultTypeOK'
  BY FaultTypeInductive
<1> QED
  BY <1>1, <1>2, PTL DEF FaultSpec

-------------------------------------------------------------------------------
\* Adoption.

\* A process that is down has crashed and remembers nothing.
Down == \A n \in Nodes \ up : n \in crashed /\ ~running[n] /\ DOMAIN history[n] = {}

\* A process that is down has neither a slot manager nor a history.
LEMMA DownInductive ==
  ASSUME FaultTypeOK, FaultTypeOK', Down, [FaultNext]_<<vars, faultVars>>
  PROVE  Down'
<1> USE DEF FaultTypeOK, TypeOK
<1>1. ASSUME NEW n \in up, Works(n), UNCHANGED <<up, crashed>> PROVE Down'
  <2> SUFFICES ASSUME NEW k \in Nodes \ up PROVE ~running'[k] /\ DOMAIN history'[k] = {}
    BY <1>1 DEF Down
  <2>1. running'[k] = running[k] /\ history'[k] = history[k]
    <3>1. k # n
      OBVIOUS
    <3>2. [Next]_vars
      BY <1>1, WorksIsNext
    <3> HIDE DEF FaultTypeOK, TypeOK
    <3>3. TypeOK
      BY DEF FaultTypeOK
    <3> QED
      BY <1>1, <3>1, <3>3
      DEF Works, StartAgain, StartSlotManager, ToFreeze, ToSync, ToPropose, ToCollect, Leaves,
          FinalizeWinner, FinalizeSkip, FinalizeEmergency, FinishFinalize, Skip, Record,
          OnTx, OnDigest, OnBatch, OnLateBatch, OnMempoolSync, clockVars, TypeOK
  <2> QED
    BY <2>1 DEF Down
<1>2. CASE UNCHANGED <<running, history, up, crashed>>
  BY <1>2 DEF Down
<1>3. ASSUME NEW n \in Nodes, Crash(n) PROVE Down'
  <2>1. DOMAIN <<>> = {}
    OBVIOUS
  <2> QED
    BY <1>3, <2>1 DEF Crash, Down
<1>4. ASSUME NEW n \in Nodes, Relaunch(n) PROVE Down'
  BY <1>4 DEF Relaunch, Down
<1>5. ASSUME NEW n \in up, Serves(n) PROVE UNCHANGED <<running, history>>
  BY <1>5 DEF Serves, Submit, SubmitThrows, clockVars
<1> QED
  BY <1>1, <1>2, <1>3, <1>4, <1>5 DEF FaultNext, TickWithFaults, Horizon, vars, clockVars, faultVars

\* A step that empties the memory of node n, or finds it empty, and leaves the
\* others alone: what is said of the proposers in T goes on being true of them.
LEMMA OthersTraceable ==
  ASSUME NEW S, NEW T \in SUBSET S, Traceable(S), NEW n, n \notin T,
         \A k \in Nodes : k # n => /\ running'[k] = running[k] /\ slot'[k] = slot[k]
                                   /\ history'[k] = history[k],
         n \in Nodes => DOMAIN history'[n] = {},
         \A k \in Nodes : proposals'[k] \subseteq proposals[k],
         batchNet' \subseteq batchNet
  PROVE  Traceable(T)'
<1>1. ASSUME NEW p, p.proposer \in T, Proposed(p) PROVE Proposed(p)'
  <2>1. p.proposer \in Nodes /\ p.proposer # n
    BY <1>1 DEF Proposed
  <2> QED
    BY <1>1, <2>1 DEF Proposed
<1>2. ASSUME NEW k \in Nodes, NEW s \in DOMAIN history'[k]
      PROVE  /\ running'[k] /\ s <= slot'[k]
             /\ history'[k][s].proposer \in T => AdoptedBy(k, s)'
  <2>1. k # n
    OBVIOUS
  <2>2. history'[k] = history[k] /\ running'[k] = running[k] /\ slot'[k] = slot[k]
    BY <2>1
  <2>3. running[k] /\ s <= slot[k] /\ (history[k][s].proposer \in S => AdoptedBy(k, s))
    BY <2>2 DEF Traceable
  <2>4. PICK b : b = history[k][s]
    OBVIOUS
  <2>5. b.proposer \in T /\ Proposed(b) => Proposed(b)'
    BY <1>1
  <2> QED
    BY <2>2, <2>3, <2>4, <2>5 DEF AdoptedBy
<1>3. \A k \in Nodes : \A p \in proposals'[k] : p.proposer \in T => Proposed(p)'
  BY <1>1 DEF Traceable
<1>4. ASSUME NEW m \in batchNet', m.body.proposer \in T PROVE Proposed(m.body)'
  <2>1. PICK b : b = m.body
    OBVIOUS
  <2>2. Proposed(b)
    BY <1>4, <2>1 DEF Traceable
  <2>3. Proposed(b)'
    BY <1>1, <1>4, <2>1, <2>2
  <2> QED
    BY <2>1, <2>3
<1> QED
  BY <1>2, <1>3, <1>4 DEF Traceable

\* What the survivors hold can be traced to its proposers through crashes and relaunches.
LEMMA SurvivorsTraceable ==
  ASSUME FaultTypeOK, FaultTypeOK', Down, Traceable(Survivors),
         [FaultNext]_<<vars, faultVars>>
  PROVE  Traceable(Survivors)'
<1>1. PICK S \in SUBSET Nodes : S = Survivors
  BY DEF Survivors
<1>2. TypeOK /\ TypeOK' /\ Traceable(S)
  BY <1>1 DEF FaultTypeOK
<1>3. ASSUME Survivors' = S, Traceable(S)' PROVE Traceable(Survivors)'
  BY <1>3 DEF Traceable
<1>4. ASSUME [Next]_vars, UNCHANGED crashed PROVE Traceable(Survivors)'
  <2>1. Traceable(S)'
    BY <1>2, <1>4, TraceableInductive
  <2>2. Survivors' = S
    BY <1>1, <1>4 DEF Survivors
  <2> QED
    BY <1>3, <2>1, <2>2
<1>5. ASSUME UNCHANGED <<running, slot, history, proposals, batchNet, crashed>>
      PROVE  Traceable(Survivors)'
  <2>1. Traceable(S)'
    BY <1>2, <1>5 DEF Traceable, Proposed, AdoptedBy
  <2>2. Survivors' = S
    BY <1>1, <1>5 DEF Survivors
  <2> QED
    BY <1>3, <2>1, <2>2
<1>6. ASSUME NEW n \in Nodes, Crash(n) PROVE Traceable(Survivors)'
  <2>1. PICK T \in SUBSET S : T = S \ {n}
    OBVIOUS
  <2>2. Survivors' = T
    BY <1>1, <1>6, <2>1 DEF Crash, Survivors
  <2>3. n \notin T
    BY <2>1
  <2>4. DOMAIN <<>> = {}
    OBVIOUS
  <2>5. /\ \A k \in Nodes : k # n => /\ running'[k] = running[k] /\ slot'[k] = slot[k]
                                     /\ history'[k] = history[k]
        /\ DOMAIN history'[n] = {}
        /\ \A k \in Nodes : proposals'[k] \subseteq proposals[k]
        /\ batchNet' \subseteq batchNet
    BY <1>2, <1>6, <2>4 DEF Crash, TypeOK
  <2>6. Traceable(T)'
    BY <1>2, <2>3, <2>5, OthersTraceable
  <2> QED
    BY <2>2, <2>6 DEF Traceable
<1>7. ASSUME NEW n \in Nodes, Relaunch(n) PROVE Traceable(Survivors)'
  <2>1. n \in crashed /\ DOMAIN history[n] = {} /\ UNCHANGED <<running, history, proposals, crashed>>
    BY <1>7 DEF Relaunch, Down
  <2>2. n \notin S
    BY <1>1, <2>1 DEF Survivors
  <2>3. /\ \A k \in Nodes : k # n => slot'[k] = slot[k]
        /\ batchNet' \subseteq batchNet
    BY <1>2, <1>7 DEF Relaunch, NotTo, TypeOK
  <2>4. S \in SUBSET S
    OBVIOUS
  <2>5. Traceable(S)'
    BY <1>2, <2>1, <2>2, <2>3, <2>4, OthersTraceable
  <2>6. Survivors' = S
    BY <1>1, <2>1 DEF Survivors
  <2> QED
    BY <1>3, <2>5, <2>6
<1>8. ASSUME NEW n \in up, Works(n), UNCHANGED crashed PROVE Traceable(Survivors)'
  <2>1. Next
    BY <1>8, WorksIsNext DEF FaultTypeOK
  <2> QED
    BY <1>4, <1>8, <2>1
<1>9. ASSUME NEW n \in up, Serves(n), UNCHANGED crashed PROVE Traceable(Survivors)'
  BY <1>5, <1>9 DEF Serves, Submit, SubmitThrows, clockVars, nets
<1>10. CASE (TickWithFaults \/ Horizon \/ UNCHANGED vars) /\ UNCHANGED crashed
  <2>1. UNCHANGED <<running, slot, history, proposals, batchNet, crashed>>
    BY <1>10 DEF TickWithFaults, Horizon, vars, clockVars, nets
  <2> QED
    BY <1>5, <2>1
<1> QED
  BY <1>6, <1>7, <1>8, <1>9, <1>10 DEF FaultNext, faultVars

\* Nodes that crash, come back with nothing and take part again neither follow
\* the history of the survivors nor make one of them leave it.
THEOREM AdoptionUnderFaults == FaultSpec => []AdoptedFromSurvivors
<1>1. FaultInit => Down /\ Traceable(Survivors)
  <2>1. DOMAIN <<>> = {}
    OBVIOUS
  <2> QED
    BY <2>1 DEF FaultInit, Init, Down, Traceable
<1>2. FaultTypeOK /\ FaultTypeOK' /\ Down /\ [FaultNext]_<<vars, faultVars>> => Down'
  BY DownInductive
<1>3. FaultTypeOK /\ FaultTypeOK' /\ Down /\ Traceable(Survivors)
        /\ [FaultNext]_<<vars, faultVars>> => Traceable(Survivors)'
  BY SurvivorsTraceable
<1>4. Traceable(Survivors) => AdoptedFromSurvivors
  <2> SUFFICES ASSUME Traceable(Survivors), NEW n \in Nodes, NEW s \in DOMAIN history[n],
                      history[n][s].proposer \in Survivors
               PROVE  PrevRoot(history[history[n][s].proposer], s) = PrevRoot(history[n], s)
    BY DEF AdoptedFromSurvivors
  <2> QED
    BY TraceableSuffices
<1> QED
  BY <1>1, <1>2, <1>3, <1>4, FaultTypeCorrect, PTL DEF FaultSpec

-------------------------------------------------------------------------------
\* Transactions that were refused.

\* Transaction tx is known to the mempools and the digests of the nodes in K
\* only, on its way to nobody, and sequenced by nobody.
Confined(tx, K) ==
  /\ \A m \in txNet : m.body # tx
  /\ \A n \in Nodes : \A e \in pool[n] : e[2] = tx => n \in K
  /\ \A n \in Nodes : \A d \in digests[n] : tx \in d.hashes => d.nodeId \in K
  /\ \A m \in digestNet : tx \in m.body.hashes => m.body.nodeId \in K
  /\ \A n \in Nodes : ~Included(n, tx)

\* Nobody holds two digests of one sender for one slot, even if the sender has
\* crashed and gone through SYNC of that slot again.
OneVote ==
  \A n \in Nodes : \A d, e \in digests[n] : d.slot = e.slot /\ d.nodeId = e.nodeId => d = e

\* The inductive invariant behind RefusedNeverSequenced.
RefusedConfined ==
  ~resynced =>
    /\ syncNet = {}
    /\ \A tx \in Txs : ~Known(tx) => Confined(tx, {})
    /\ \A r \in replies : r.status = 400 => Known(r.tx) /\ Confined(r.tx, {r.node})

\* What only one node lists in its digests is in no common subset.
LEMMA OneVoteNoMajority ==
  ASSUME OneVote, Cardinality(Nodes) > 1, NEW tx, NEW K, Confined(tx, K),
         \A i, j \in K : i = j, NEW n \in Nodes
  PROVE  tx \notin Common(n)
<1> DEFINE D == {d \in DigestsOf(digests[n], slot[n]) : tx \in d.hashes}
<1>1. \A d, e \in D : d = e
  <2> SUFFICES ASSUME NEW d \in D, NEW e \in D PROVE d = e
    OBVIOUS
  <2>1. d \in digests[n] /\ e \in digests[n] /\ d.slot = e.slot
    BY DEF DigestsOf
  <2>2. d.nodeId \in K /\ e.nodeId \in K
    BY <2>1 DEF Confined
  <2> QED
    BY <2>1, <2>2 DEF OneVote
<1>2. Cardinality(D) \in {0, 1}
  <2>1. CASE D = {}
    BY <2>1, FS_EmptySet
  <2>2. CASE D # {}
    <3>1. PICK d : d \in D
      BY <2>2
    <3>2. D = {d}
      BY <1>1, <3>1
    <3> HIDE DEF D
    <3> QED
      BY <3>2, FS_Singleton
  <2> QED
    BY <2>1, <2>2
<1>3. Threshold(Cardinality(Nodes)) > 1 /\ Threshold(Cardinality(Nodes)) \in Nat
  <2>1. Cardinality(Nodes) \in Nat
    BY ConsensusAssumption, FS_CardinalityType
  <2> QED
    BY <2>1 DEF Threshold
<1>4. TxCount(digests[n], slot[n], tx) = Cardinality(D)
  BY DEF TxCount
<1> HIDE DEF D
<1> QED
  BY <1>2, <1>3, <1>4 DEF Common, CommonSubset

\* A node has one digest per slot and sender in its map, whoever crashes.
LEMMA OneVoteInductive ==
  ASSUME FaultTypeOK, OneVote, [FaultNext]_<<vars, faultVars>>
  PROVE  OneVote'
<1> USE DEF clockVars, nets
<1>0. TypeOK /\ up \subseteq Nodes
  BY DEF FaultTypeOK
<1>1. ASSUME \A n \in Nodes : digests'[n] \subseteq digests[n] PROVE OneVote'
  BY <1>1 DEF OneVote
<1>2. ASSUME UNCHANGED digests PROVE OneVote'
  BY <1>2 DEF OneVote
<1>3. ASSUME NEW n \in Nodes, NEW d, digests' = [digests EXCEPT ![n] = ReceiveDigest(@, d)]
      PROVE  OneVote'
  <2> SUFFICES ASSUME NEW k \in Nodes, NEW a \in digests'[k], NEW b \in digests'[k],
                      a.slot = b.slot, a.nodeId = b.nodeId
               PROVE  a = b
    BY DEF OneVote
  <2>1. CASE k # n
    BY <1>0, <1>3, <2>1 DEF OneVote, TypeOK
  <2>2. CASE k = n
    <3>1. digests'[k] = ReceiveDigest(digests[k], d)
      BY <1>0, <1>3, <2>2 DEF TypeOK
    <3> QED
      BY <3>1 DEF ReceiveDigest, OneVote
  <2> QED
    BY <2>1, <2>2
<1>4. ASSUME NEW m \in digestNet, OnDigest(m) PROVE OneVote'
  <2>1. m.to \in Nodes
    BY <1>0 DEF TypeOK, Messages
  <2> QED
    BY <1>3, <1>4, <2>1 DEF OnDigest
<1>5. ASSUME NEW n \in Nodes, ToSync(n) PROVE OneVote'
  BY <1>3, <1>5 DEF ToSync
<1>6. ASSUME NEW n \in Nodes, FinalizeWinner(n) \/ FinalizeSkip(n) \/ \E s \in pending[n] : FinishFinalize(n, s)
      PROVE  OneVote'
  <2>1. PICK s, P : Forget(n, s, P)
    BY <1>6 DEF FinalizeWinner, FinalizeSkip, FinishFinalize
  <2>2. \A k \in Nodes : digests'[k] \subseteq digests[k]
    BY <1>0, <2>1 DEF Forget, ClearSlot, TypeOK
  <2> QED
    BY <1>1, <2>2
<1>7. ASSUME NEW n \in up, Works(n) PROVE OneVote'
  <2>1. CASE \/ \E m \in To(txNet, n) : OnTx(m)
             \/ \E m \in To(batchNet, n) : OnBatch(m) \/ OnLateBatch(m)
             \/ \E m \in To(syncNet, n) : OnMempoolSync(m)
             \/ StartAgain(n) \/ ToFreeze(n) \/ ToPropose(n) \/ ToCollect(n)
             \/ FinalizeEmergency(n)
    BY <1>2, <2>1 DEF OnTx, OnBatch, OnLateBatch, OnMempoolSync, StartAgain, StartSlotManager,
                      ToFreeze, ToPropose, ToCollect, FinalizeEmergency
  <2> QED
    BY <1>0, <1>4, <1>5, <1>6, <1>7, <2>1 DEF Works, To
<1>8. ASSUME NEW n \in Nodes, Crash(n) PROVE OneVote'
  BY <1>0, <1>1, <1>8 DEF Crash, TypeOK
<1>9. CASE \/ \E n \in up : Serves(n)
           \/ \E n \in Nodes : Relaunch(n)
           \/ TickWithFaults \/ Horizon \/ UNCHANGED vars
  BY <1>2, <1>9 DEF Serves, Submit, SubmitThrows, Relaunch, TickWithFaults, Horizon, vars
<1> QED
  BY <1>7, <1>8, <1>9 DEF FaultNext

\* A transaction that is confined to one node stays so through every step that
\* is not its submission, as long as nobody resyncs.
LEMMA ConfinedStable ==
  ASSUME FaultTypeOK, OneVote, Cardinality(Nodes) > 1, syncNet = {},
         [FaultNext]_<<vars, faultVars>>,
         NEW tx, NEW K, \A i, j \in K : i = j, Confined(tx, K),
         ~Known(tx)' \/ Known(tx)
  PROVE  Confined(tx, K)'
<1> USE DEF clockVars, nets
<1>0. TypeOK /\ up \subseteq Nodes
  BY DEF FaultTypeOK
<1>1. ASSUME \A n \in Nodes : \A e \in pool'[n] : e[2] = tx => \E f \in pool[n] : f[2] = tx,
             \A n \in Nodes : digests'[n] \subseteq digests[n],
             txNet' \subseteq txNet, digestNet' \subseteq digestNet,
             \A n \in Nodes : ~Included(n, tx)'
      PROVE  Confined(tx, K)'
  BY <1>1 DEF Confined
<1>2. ASSUME UNCHANGED history PROVE \A n \in Nodes : ~Included(n, tx)'
  <2>1. ASSUME NEW n \in Nodes, Included(n, tx)' PROVE FALSE
    <3>1. PICK s \in DOMAIN history'[n] : tx \in TxSet(history'[n][s])
      BY <2>1 DEF Included
    <3>2. Included(n, tx)
      BY <1>2, <3>1 DEF Included
    <3> QED
      BY <3>2 DEF Confined
  <2> QED
    BY <2>1
<1>3. \A n \in Nodes : tx \in Local(n) => n \in K
  BY DEF Local, Snapshot, Bucket, Confined
<1>4. ASSUME NEW n \in Nodes, Submit(n, tx) \/ SubmitThrows(n, tx) PROVE FALSE
  <2>1. PICK e : e = [tx |-> tx, at |-> now]
    OBVIOUS
  <2>2. e \in submitted' /\ e.tx = tx /\ \A f \in submitted : f.tx # tx
    BY <1>4, <2>1 DEF Submit, SubmitThrows
  <2> QED
    BY <2>2 DEF Known
<1>5. ASSUME NEW n \in Nodes, NEW t \in Txs, t # tx, Submit(n, t) \/ SubmitThrows(n, t)
      PROVE  Confined(tx, K)'
  <2>1. pool' = [pool EXCEPT ![n] = Add(@, t, Genesis, now)]
    BY <1>5 DEF Submit, SubmitThrows
  <2>2. \A k \in Nodes : \A e \in pool'[k] : e[2] = tx => e \in pool[k]
    BY <1>0, <1>5, <2>1 DEF Add, TypeOK
  <2>3. \A m \in txNet' : m.body # tx
    BY <1>5 DEF Submit, SubmitThrows, Publish, Confined
  <2>4. UNCHANGED <<digests, digestNet, history>>
    BY <1>5 DEF Submit, SubmitThrows
  <2> QED
    BY <1>2, <2>2, <2>3, <2>4 DEF Confined
<1>6. ASSUME NEW m \in txNet, OnTx(m) PROVE Confined(tx, K)'
  <2>1. m.body # tx
    BY DEF Confined
  <2>2. \A k \in Nodes : \A e \in pool'[k] : e[2] = tx => e \in pool[k]
    BY <1>0, <1>6, <2>1 DEF OnTx, Add, TypeOK
  <2>3. UNCHANGED <<digests, digestNet, history>> /\ txNet' \subseteq txNet
    BY <1>6 DEF OnTx
  <2> QED
    BY <1>1, <1>2, <2>2, <2>3
<1>7. ASSUME NEW n \in Nodes, NEW d, tx \in d.hashes => d.nodeId \in K,
             digests' = [digests EXCEPT ![n] = ReceiveDigest(@, d)]
      PROVE  \A k \in Nodes : \A e \in digests'[k] : tx \in e.hashes => e.nodeId \in K
  <2> SUFFICES ASSUME NEW k \in Nodes, NEW e \in digests'[k], tx \in e.hashes
               PROVE  e.nodeId \in K
    OBVIOUS
  <2>1. e \in digests[k] \/ e = d
    BY <1>0, <1>7 DEF ReceiveDigest, TypeOK
  <2> QED
    BY <1>7, <2>1 DEF Confined
<1>8. ASSUME NEW m \in digestNet, OnDigest(m) PROVE Confined(tx, K)'
  <2>1. m.to \in Nodes
    BY <1>0 DEF TypeOK, Messages
  <2>2. tx \in m.body.hashes => m.body.nodeId \in K
    BY DEF Confined
  <2>3. \A k \in Nodes : \A e \in digests'[k] : tx \in e.hashes => e.nodeId \in K
    BY <1>7, <1>8, <2>1, <2>2 DEF OnDigest
  <2>4. UNCHANGED <<pool, txNet, history>> /\ digestNet' \subseteq digestNet
    BY <1>8 DEF OnDigest
  <2> QED
    BY <1>2, <2>3, <2>4 DEF Confined
<1>9. ASSUME NEW n \in Nodes, ToSync(n) PROVE Confined(tx, K)'
  <2> DEFINE d == [slot |-> slot[n], nodeId |-> n, hashes |-> Snapshot(pool[n], slot[n])]
  <2>1. tx \in d.hashes => d.nodeId \in K
    BY <1>3 DEF Local
  <2>2. /\ digests' = [digests EXCEPT ![n] = ReceiveDigest(@, d)]
        /\ digestNet' = digestNet \cup Publish(n, d)
        /\ UNCHANGED <<pool, txNet, history>>
    BY <1>9 DEF ToSync
  <2> HIDE DEF d
  <2>3. \A k \in Nodes : \A e \in digests'[k] : tx \in e.hashes => e.nodeId \in K
    BY <1>7, <2>1, <2>2
  <2>4. \A m \in digestNet' : tx \in m.body.hashes => m.body.nodeId \in K
    BY <2>1, <2>2 DEF Publish, Confined
  <2> QED
    BY <1>2, <2>2, <2>3, <2>4 DEF Confined
<1>10. ASSUME NEW n \in Nodes, ToPropose(n) PROVE Confined(tx, K)'
  <2>1. \A k \in Nodes : \A e \in pool'[k] : e[2] = tx => e \in pool[k] \/ (k = n /\ tx \in Local(n))
    BY <1>0, <1>10 DEF ToPropose, CarryForward, Excluded, TypeOK
  <2>2. UNCHANGED <<digests, txNet, digestNet, history>>
    BY <1>10 DEF ToPropose
  <2> QED
    BY <1>2, <1>3, <2>1, <2>2 DEF Confined
<1>11. ASSUME NEW n \in Nodes, NEW b, Record(n, b), tx \notin TxSet(b)
       PROVE  \A k \in Nodes : ~Included(k, tx)'
  <2> SUFFICES ASSUME NEW k \in Nodes, NEW s \in DOMAIN history'[k], tx \in TxSet(history'[k][s])
               PROVE  FALSE
    BY DEF Included
  <2>1. \/ history'[k][s] = b
        \/ s \in DOMAIN history[k] /\ history'[k][s] = history[k][s]
    BY <1>0, <1>11 DEF Record, TypeOK
  <2> QED
    BY <1>11, <2>1 DEF Confined, Included
<1>12. ASSUME NEW n \in Nodes, FinalizeWinner(n) PROVE Confined(tx, K)'
  <2>1. PICK w \in Valid(n) : Record(n, w)
    BY <1>12 DEF FinalizeWinner, IsWinner
  <2>2. TxSet(w) = Common(n)
    BY <2>1 DEF Valid, ValidProposal
  <2>3. tx \notin TxSet(w)
    BY <2>2, OneVoteNoMajority
  <2>4. /\ \A k \in Nodes : pool'[k] \subseteq pool[k] /\ digests'[k] \subseteq digests[k]
        /\ UNCHANGED <<txNet, digestNet>>
    BY <1>0, <1>12 DEF FinalizeWinner, Forget, Evict, ClearSlot, TypeOK
  <2> QED
    BY <1>1, <1>11, <2>1, <2>3, <2>4
<1>13. ASSUME NEW n \in Nodes, FinalizeSkip(n) \/ FinalizeEmergency(n) PROVE Confined(tx, K)'
  <2>1. Record(n, NullBatch(slot[n]))
    BY <1>13 DEF FinalizeSkip, FinalizeEmergency, Skip
  <2>2. tx \notin TxSet(NullBatch(slot[n]))
    BY DEF TxSet, NullBatch
  <2>3. \A k \in Nodes : \A e \in pool'[k] : e[2] = tx => e \in pool[k] \/ (k = n /\ tx \in Local(n))
    BY <1>0, <1>13 DEF FinalizeSkip, FinalizeEmergency, Forget, Evict, CarriedPool, CarryForward, TypeOK
  <2>4. /\ \A k \in Nodes : digests'[k] \subseteq digests[k]
        /\ UNCHANGED <<txNet, digestNet>>
    BY <1>0, <1>13 DEF FinalizeSkip, FinalizeEmergency, Forget, ClearSlot, TypeOK
  <2>5. \A k \in Nodes : ~Included(k, tx)'
    BY <1>11, <2>1, <2>2
  <2> QED
    BY <1>3, <2>3, <2>4, <2>5 DEF Confined
<1>14. ASSUME NEW n \in Nodes, NEW s \in pending[n], FinishFinalize(n, s) PROVE Confined(tx, K)'
  <2>1. /\ \A k \in Nodes : pool'[k] \subseteq pool[k] /\ digests'[k] \subseteq digests[k]
        /\ UNCHANGED <<txNet, digestNet, history>>
    BY <1>0, <1>14 DEF FinishFinalize, Forget, Evict, ClearSlot, TypeOK
  <2> QED
    BY <1>1, <1>2, <2>1
<1>15. ASSUME UNCHANGED <<pool, digests, txNet, digestNet, history>> PROVE Confined(tx, K)'
  BY <1>15 DEF Confined, Included
<1>16. ASSUME NEW n \in up, Works(n) PROVE Confined(tx, K)'
  <2>1. CASE \/ \E m \in To(batchNet, n) : OnBatch(m) \/ OnLateBatch(m)
             \/ StartAgain(n) \/ ToFreeze(n) \/ ToCollect(n)
    BY <1>15, <2>1 DEF OnBatch, OnLateBatch, StartAgain, StartSlotManager, ToFreeze, ToCollect
  <2> QED
    BY <1>0, <1>6, <1>8, <1>9, <1>10, <1>12, <1>13, <1>14, <1>16, <2>1 DEF Works, To
<1>17. ASSUME NEW n \in up, Serves(n) PROVE Confined(tx, K)'
  <2>1. PICK t \in Txs : Submit(n, t) \/ SubmitThrows(n, t)
    BY <1>17 DEF Serves
  <2>2. CASE t = tx
    BY <1>0, <1>4, <2>1, <2>2
  <2>3. CASE t # tx
    BY <1>0, <1>5, <2>1, <2>3
  <2> QED
    BY <2>2, <2>3
<1>18. ASSUME NEW n \in Nodes, Crash(n) PROVE Confined(tx, K)'
  <2>1. \A k \in Nodes : pool'[k] \subseteq pool[k] /\ digests'[k] \subseteq digests[k]
    BY <1>0, <1>18 DEF Crash, TypeOK
  <2>2. txNet' \subseteq txNet /\ digestNet' \subseteq digestNet
    BY <1>18 DEF Crash
  <2>3. \A k \in Nodes : ~Included(k, tx)'
    <3>1. \A k \in Nodes : history'[k] = history[k] \/ history'[k] = <<>>
      BY <1>0, <1>18 DEF Crash, TypeOK
    <3>2. DOMAIN <<>> = {}
      OBVIOUS
    <3> QED
      BY <3>1, <3>2 DEF Confined, Included
  <2> QED
    BY <1>1, <2>1, <2>2, <2>3
<1>19. ASSUME NEW n \in Nodes, Relaunch(n) PROVE Confined(tx, K)'
  <2>1. UNCHANGED <<pool, digests, history>> /\ txNet' \subseteq txNet /\ digestNet' \subseteq digestNet
    BY <1>19 DEF Relaunch, NotTo
  <2> QED
    BY <1>1, <1>2, <2>1
<1>20. CASE TickWithFaults \/ Horizon \/ UNCHANGED vars
  BY <1>15, <1>20 DEF TickWithFaults, Horizon, vars
<1> QED
  BY <1>16, <1>17, <1>18, <1>19, <1>20 DEF FaultNext

\* A refused transaction stays on the node that refused it, whatever that node publishes.
LEMMA RefusedConfinedInductive ==
  ASSUME FaultTypeOK, FaultTypeOK', OneVote, Cardinality(Nodes) > 1, RefusedConfined,
         [FaultNext]_<<vars, faultVars>>
  PROVE  RefusedConfined'
<1> USE DEF clockVars, nets
<1>1. SUFFICES ASSUME ~resynced'
               PROVE  /\ syncNet' = {}
                      /\ \A tx \in Txs : ~Known(tx)' => Confined(tx, {})'
                      /\ \A r \in replies' : r.status = 400 => Known(r.tx)' /\ Confined(r.tx, {r.node})'
  BY DEF RefusedConfined
<1>2. ~resynced
  BY <1>1 DEF FaultNext, NotesResync, Crash, Relaunch, faultVars
<1>3. syncNet = {}
  BY <1>2 DEF RefusedConfined
<1>4. syncNet' = {}
  <2>1. ASSUME NEW n \in up, Serves(n) PROVE syncNet' = syncNet
    BY <2>1 DEF Serves, Submit, SubmitThrows
  <2>2. ASSUME NotesResync PROVE syncNet' \subseteq syncNet
    BY <1>1, <2>2 DEF NotesResync
  <2>3. ASSUME NEW n \in Nodes, Crash(n) \/ Relaunch(n) PROVE syncNet' \subseteq syncNet
    BY <2>3 DEF Crash, Relaunch, NotTo
  <2>4. CASE TickWithFaults \/ Horizon \/ UNCHANGED vars
    BY <1>3, <2>4 DEF TickWithFaults, Horizon, vars
  <2> QED
    BY <1>3, <2>1, <2>2, <2>3, <2>4 DEF FaultNext
<1>5. \A tx : Known(tx) => Known(tx)'
  <2>1. submitted \subseteq submitted'
    <3>1. ASSUME NEW n \in up, Works(n) PROVE submitted' = submitted
      BY <3>1 DEF Works, OnTx, OnDigest, OnBatch, OnLateBatch, OnMempoolSync, StartAgain,
                  StartSlotManager, ToFreeze, ToSync, ToPropose, ToCollect, Leaves,
                  FinalizeWinner, FinalizeSkip, FinalizeEmergency, Skip, FinishFinalize
    <3>2. ASSUME NEW n \in up, Serves(n) PROVE submitted \subseteq submitted'
      BY <3>2 DEF Serves, Submit, SubmitThrows
    <3>3. ASSUME NEW n \in Nodes, Crash(n) \/ Relaunch(n) PROVE submitted' = submitted
      BY <3>3 DEF Crash, Relaunch
    <3>4. CASE TickWithFaults \/ Horizon \/ UNCHANGED vars
      BY <3>4 DEF TickWithFaults, Horizon, vars
    <3> QED
      BY <3>1, <3>2, <3>3, <3>4 DEF FaultNext
  <2> QED
    BY <2>1 DEF Known
<1>6. ASSUME NEW tx \in Txs, ~Known(tx)' PROVE Confined(tx, {})'
  <2>1. ~Known(tx)
    BY <1>5, <1>6
  <2>2. Confined(tx, {})
    BY <1>2, <2>1 DEF RefusedConfined
  <2>3. \A i, j \in {} : i = j
    OBVIOUS
  <2> QED
    BY <1>3, <1>6, <2>2, <2>3, ConfinedStable
<1>7. ASSUME NEW tx, NEW k, Known(tx), Confined(tx, {k}) PROVE Confined(tx, {k})'
  <2>1. \A i, j \in {k} : i = j
    OBVIOUS
  <2> QED
    BY <1>3, <1>7, <2>1, ConfinedStable
<1>8. ASSUME NEW r \in replies, r.status = 400 PROVE Known(r.tx)' /\ Confined(r.tx, {r.node})'
  <2>1. PICK tx, k : tx = r.tx /\ k = r.node
    OBVIOUS
  <2>2. Known(tx) /\ Confined(tx, {k})
    BY <1>2, <1>8, <2>1 DEF RefusedConfined
  <2>3. Known(tx)' /\ Confined(tx, {k})'
    BY <1>5, <1>7, <2>2
  <2> QED
    BY <2>1, <2>3
<1>9. ASSUME NEW n \in up, NEW tx \in Txs, SubmitThrows(n, tx) PROVE Known(tx)' /\ Confined(tx, {n})'
  <2>1. ~Known(tx)
    BY <1>9 DEF SubmitThrows, Known
  <2>2. Confined(tx, {})
    BY <1>2, <2>1 DEF RefusedConfined
  <2>3. TypeOK /\ n \in Nodes
    BY DEF FaultTypeOK
  <2>4. \A k \in Nodes : k # n => pool'[k] = pool[k]
    BY <1>9, <2>3 DEF SubmitThrows, TypeOK
  <2>5. UNCHANGED <<digests, txNet, digestNet, history>>
    BY <1>9 DEF SubmitThrows
  <2>6. Confined(tx, {n})'
    BY <2>2, <2>4, <2>5 DEF Confined, Included
  <2>7. Known(tx)'
    <3>1. PICK e : e = [tx |-> tx, at |-> now]
      OBVIOUS
    <3>2. e \in submitted' /\ e.tx = tx
      BY <1>9, <3>1 DEF SubmitThrows
    <3> QED
      BY <3>2 DEF Known
  <2> QED
    BY <2>6, <2>7
<1>10. ASSUME NEW r \in replies', r.status = 400, r \notin replies
       PROVE  Known(r.tx)' /\ Confined(r.tx, {r.node})'
  <2>1. PICK n \in up : Serves(n)
    BY <1>10 DEF FaultNext, Crash, Relaunch, faultVars
  <2>2. PICK tx \in Txs : SubmitThrows(n, tx) /\ Reply(n, tx, 400)
    BY <1>10, <2>1 DEF Serves, Reply
  <2>3. r.tx = tx /\ r.node = n
    BY <1>10, <2>2 DEF Reply
  <2> QED
    BY <1>9, <2>2, <2>3
<1> QED
  BY <1>4, <1>6, <1>8, <1>10

\* A transaction whose publish threw is never sequenced, whoever crashes and
\* comes back, until an emergency resync hands it on.  A network of one node is
\* left out: its own digest is a majority.
THEOREM RefusedCorrect ==
  ASSUME Cardinality(Nodes) > 1
  PROVE  FaultSpec => []RefusedNeverSequenced
<1>1. FaultInit => OneVote /\ RefusedConfined
  <2>1. DOMAIN <<>> = {}
    OBVIOUS
  <2> QED
    BY <2>1 DEF FaultInit, Init, OneVote, RefusedConfined, Confined, Included
<1>2. FaultTypeOK /\ OneVote /\ [FaultNext]_<<vars, faultVars>> => OneVote'
  BY OneVoteInductive
<1>3. FaultTypeOK /\ FaultTypeOK' /\ OneVote /\ RefusedConfined
        /\ [FaultNext]_<<vars, faultVars>> => RefusedConfined'
  BY RefusedConfinedInductive
<1>4. RefusedConfined => RefusedNeverSequenced
  BY DEF RefusedConfined, Confined, RefusedNeverSequenced
<1> QED
  BY <1>1, <1>2, <1>3, <1>4, FaultTypeCorrect, PTL DEF FaultSpec

-------------------------------------------------------------------------------
\* Broadcasts.  What h has each node hold and what is on its way in net; it is about
\* digests and about proposals alike.

\* Body b has reached node n, or is under way to it.
Reaches(h, net, n, b) == b \in h[n] \/ \E m \in net : m.to = n /\ m.body = b

\* What a node of S holds or is to receive.
KnownIn(S, h, net) == (UNION {h[n] : n \in S}) \cup {m.body : m \in {e \in net : e.to \in S}}

\* What one node of S knows of gets to all that have its slot open.
Spread(S, h, net, open) ==
  \A n \in S : \A b \in KnownIn(S, h, net) : b.slot >= open[n] => Reaches(h, net, n, b)

\* A message is its fields, on its way from one node to another, that does not hold
\* its body and gets no other copy of it.
Once(h, net) ==
  \A m \in net :
    /\ m = [body |-> m.body, from |-> m.from, to |-> m.to, at |-> m.at]
    /\ m.from \in Nodes /\ m.to \in Nodes /\ m.from # m.to
    /\ m.body \notin h[m.to]
    /\ \A e \in net : e.to = m.to /\ e.body = m.body => e = m

\* What is known is known to somebody.
LEMMA KnownTo ==
  ASSUME NEW S, NEW h, NEW net, NEW b
  PROVE  b \in KnownIn(S, h, net) <=> \E k \in S : Reaches(h, net, k, b)
BY DEF KnownIn, Reaches

\* Dropping what is of a slot that is settled cuts nobody off.
LEMMA SpreadDrop ==
  ASSUME NEW S, NEW h, NEW net, NEW open, Spread(S, h, net, open),
         NEW h2, NEW net2, NEW open2, \A n \in S : open[n] \in Nat /\ open2[n] \in Nat,
         \A b \in KnownIn(S, h, net) : b.slot \in Nat,
         \A n \in S : /\ open2[n] >= open[n]
                      /\ h2[n] \subseteq h[n]
                      /\ \A b \in h[n] : b \in h2[n] \/ b.slot < open2[n],
         net2 \subseteq net,
         \A m \in net \ net2 : m.to \in S => m.body.slot < open2[m.to]
  PROVE  /\ Spread(S, h2, net2, open2)
         /\ KnownIn(S, h2, net2) \subseteq KnownIn(S, h, net)
<1>1. KnownIn(S, h2, net2) \subseteq KnownIn(S, h, net)
  BY DEF KnownIn
<1>2. ASSUME NEW n \in S, NEW b \in KnownIn(S, h2, net2), b.slot >= open2[n]
      PROVE  Reaches(h2, net2, n, b)
  <2>1. b \in KnownIn(S, h, net) /\ b.slot \in Nat /\ open[n] \in Nat /\ open2[n] \in Nat
    BY <1>1
  <2>2. b.slot >= open[n] /\ ~(b.slot < open2[n])
    BY <1>2, <2>1
  <2>3. Reaches(h, net, n, b)
    BY <2>1, <2>2 DEF Spread
  <2> QED
    BY <2>2, <2>3 DEF Reaches
<1> QED
  BY <1>1, <1>2 DEF Spread

\* Nor does delivering a message.
LEMMA SpreadDeliver ==
  ASSUME NEW S \in SUBSET Nodes, NEW h, DOMAIN h = Nodes, NEW net, NEW open,
         Spread(S, h, net, open), NEW m \in net, m.to \in Nodes
  PROVE  LET h2   == [h EXCEPT ![m.to] = @ \cup {m.body}]
             net2 == net \ {m}
         IN  /\ Spread(S, h2, net2, open)
             /\ KnownIn(S, h2, net2) = KnownIn(S, h, net)
             /\ \A n \in Nodes : h[n] \subseteq h2[n]
<1> DEFINE h2   == [h EXCEPT ![m.to] = @ \cup {m.body}]
           net2 == net \ {m}
<1>1. \A n \in Nodes : h[n] \subseteq h2[n] /\ (m.to = n => m.body \in h2[n])
                       /\ (\A b \in h2[n] : b \in h[n] \/ (b = m.body /\ m.to = n))
  OBVIOUS
<1>2. net2 \subseteq net /\ \A e \in net : e \in net2 \/ e = m
  OBVIOUS
<1> HIDE DEF h2, net2
<1>3. ASSUME NEW n \in Nodes, NEW b PROVE Reaches(h2, net2, n, b) <=> Reaches(h, net, n, b)
  BY <1>1, <1>2 DEF Reaches
<1>4. KnownIn(S, h2, net2) = KnownIn(S, h, net)
  <2>1. \A b : b \in KnownIn(S, h2, net2) <=> b \in KnownIn(S, h, net)
    BY <1>3, KnownTo
  <2> QED
    BY <2>1
<1>5. Spread(S, h2, net2, open)
  BY <1>3, <1>4 DEF Spread
<1> QED
  BY <1>1, <1>4, <1>5 DEF h2, net2

\* What is published gets to everybody.
LEMMA SpreadPublish ==
  ASSUME NEW S \in SUBSET Nodes, NEW h, DOMAIN h = Nodes, NEW net, NEW open,
         Spread(S, h, net, open), NEW k \in Nodes, NEW c
  PROVE  LET h2   == [h EXCEPT ![k] = @ \cup {c}]
             net2 == net \cup Publish(k, c)
         IN  /\ Spread(S, h2, net2, open)
             /\ KnownIn(S, h, net) \subseteq KnownIn(S, h2, net2)
             /\ KnownIn(S, h2, net2) \subseteq KnownIn(S, h, net) \cup {c}
<1> DEFINE h2   == [h EXCEPT ![k] = @ \cup {c}]
           net2 == net \cup Publish(k, c)
<1>1. \A n \in Nodes : /\ h[n] \subseteq h2[n] /\ (n = k => c \in h2[n])
                       /\ \A b \in h2[n] : b \in h[n] \/ b = c
  OBVIOUS
<1>2. /\ net \subseteq net2
      /\ \A m \in net2 : m \in net \/ m.body = c
      /\ \A n \in Nodes : n # k => \E m \in net2 : m.to = n /\ m.body = c
  <2>1. ASSUME NEW n \in Nodes, n # k PROVE \E m \in net2 : m.to = n /\ m.body = c
    <3>1. [body |-> c, from |-> k, to |-> n, at |-> now] \in net2
      BY <2>1 DEF Publish
    <3> QED
      BY <3>1
  <2>2. net \subseteq net2 /\ \A m \in net2 : m \in net \/ m.body = c
    BY DEF Publish
  <2> QED
    BY <2>1, <2>2
<1> HIDE DEF h2, net2
<1>3. ASSUME NEW n \in Nodes, NEW b
      PROVE  /\ Reaches(h, net, n, b) => Reaches(h2, net2, n, b)
             /\ Reaches(h2, net2, n, b) => Reaches(h, net, n, b) \/ b = c
             /\ Reaches(h2, net2, n, c)
  BY <1>1, <1>2 DEF Reaches
<1>4. /\ KnownIn(S, h, net) \subseteq KnownIn(S, h2, net2)
      /\ KnownIn(S, h2, net2) \subseteq KnownIn(S, h, net) \cup {c}
  <2>1. \A b : /\ b \in KnownIn(S, h, net) => b \in KnownIn(S, h2, net2)
               /\ b \in KnownIn(S, h2, net2) => b \in KnownIn(S, h, net) \/ b = c
    BY <1>3, KnownTo
  <2> QED
    BY <2>1
<1>5. Spread(S, h2, net2, open)
  BY <1>3, <1>4 DEF Spread
<1> QED
  BY <1>4, <1>5 DEF h2, net2

\* What a crash loses is known to nobody else, unless it splits a broadcast.
LEMMA LostUnknown ==
  ASSUME NEW S \in SUBSET Nodes, NEW h, NEW net, Once(h, net), NEW x,
         NEW lost \in SUBSET InFlight(net, x), ~Splits(lost), NEW m \in lost, m.to \in S
  PROVE  m.body \notin KnownIn(S \ {x}, h, net \ lost)
<1>1. SUFFICES ASSUME NEW k \in S \ {x}, Reaches(h, net \ lost, k, m.body) PROVE FALSE
  BY KnownTo
<1>2. m \in net /\ m.from = x
  BY DEF InFlight
<1>3. m.body \notin h[m.to] /\ \A e \in net : e.to = m.to /\ e.body = m.body => e = m
  BY <1>2 DEF Once
<1>4. CASE k = m.to
  BY <1>1, <1>3, <1>4 DEF Reaches
<1>5. CASE k # m.to
  <2>1. PICK e : e = [m EXCEPT !.to = k]
    OBVIOUS
  <2>2. e \in lost /\ e \in net
    <3>1. k \in Nodes \ {m.from, m.to}
      BY <1>2, <1>5
    <3> QED
      BY <2>1, <3>1 DEF Splits, InFlight
  <2>3. e.to = k /\ e.body = m.body
    <3>1. m = [body |-> m.body, from |-> m.from, to |-> m.to, at |-> m.at]
      BY <1>2 DEF Once
    <3>2. e = [body |-> m.body, from |-> m.from, to |-> k, at |-> m.at]
      BY <2>1, <3>1
    <3> QED
      BY <3>2
  <2>4. m.body \notin h[k] /\ \A f \in net : f.to = k /\ f.body = m.body => f = e
    BY <2>2, <2>3 DEF Once
  <2> QED
    BY <1>1, <2>2, <2>4 DEF Reaches
<1> QED
  BY <1>4, <1>5

\* The others remain in touch when one crashes.
LEMMA SpreadLose ==
  ASSUME NEW S \in SUBSET Nodes, NEW h, NEW net, Once(h, net), NEW open,
         Spread(S, h, net, open), NEW x, NEW lost \in SUBSET InFlight(net, x), ~Splits(lost),
         NEW h2, \A n \in S \ {x} : h2[n] = h[n]
  PROVE  /\ Spread(S \ {x}, h2, net \ lost, open)
         /\ KnownIn(S \ {x}, h2, net \ lost) \subseteq KnownIn(S, h, net)
<1> DEFINE T == S \ {x}
           rest == net \ lost
<1>1. KnownIn(T, h2, rest) = KnownIn(T, h, rest) /\ KnownIn(T, h, rest) \subseteq KnownIn(S, h, net)
  BY DEF KnownIn
<1>2. ASSUME NEW n \in T, NEW b \in KnownIn(T, h, rest), b.slot >= open[n]
      PROVE  Reaches(h2, rest, n, b)
  <2>1. Reaches(h, net, n, b)
    BY <1>1, <1>2 DEF Spread
  <2>2. ASSUME NEW m \in lost, m.to = n, m.body = b PROVE FALSE
    BY <1>2, <2>2, LostUnknown
  <2> QED
    BY <2>1, <2>2 DEF Reaches
<1> QED
  BY <1>1, <1>2 DEF Spread

\* Messages that go or are delivered leave the others as they are.
LEMMA OnceFewer ==
  ASSUME NEW h, NEW net, Once(h, net), NEW h2, NEW net2 \in SUBSET net,
         \A m \in net2 : h2[m.to] \subseteq h[m.to] \cup {e.body : e \in {d \in net \ net2 : d.to = m.to}}
  PROVE  Once(h2, net2)
<1> SUFFICES ASSUME NEW m \in net2 PROVE m.body \notin h2[m.to]
  BY DEF Once
<1> SUFFICES ASSUME NEW e \in net \ net2, e.to = m.to, e.body = m.body PROVE FALSE
  BY DEF Once
<1> QED
  BY DEF Once

\* A body nobody knows of can be published.
LEMMA OncePublish ==
  ASSUME NEW h, DOMAIN h = Nodes, NEW net, Once(h, net), NEW k \in Nodes, NEW c,
         \A n \in Nodes : c \notin h[n], \A m \in net : m.body # c
  PROVE  Once([h EXCEPT ![k] = @ \cup {c}], net \cup Publish(k, c))
<1> DEFINE h2   == [h EXCEPT ![k] = @ \cup {c}]
           net2 == net \cup Publish(k, c)
<1>1. \A n \in Nodes : h2[n] = IF n = k THEN h[n] \cup {c} ELSE h[n]
  OBVIOUS
<1>2. ASSUME NEW m \in net2, m \notin net
      PROVE  /\ m = [body |-> c, from |-> k, to |-> m.to, at |-> now]
             /\ m.body = c /\ m.from = k /\ m.at = now
             /\ m.to \in Nodes /\ m.to # k
  BY <1>2 DEF Publish
<1> HIDE DEF h2, net2
<1>3. ASSUME NEW m \in net2, m \in net
      PROVE  /\ m = [body |-> m.body, from |-> m.from, to |-> m.to, at |-> m.at]
             /\ m.from \in Nodes /\ m.to \in Nodes /\ m.from # m.to
             /\ m.body \notin h2[m.to]
             /\ \A e \in net2 : e.to = m.to /\ e.body = m.body => e = m
  <2>1. /\ m = [body |-> m.body, from |-> m.from, to |-> m.to, at |-> m.at]
        /\ m.from \in Nodes /\ m.to \in Nodes /\ m.from # m.to
        /\ m.body \notin h[m.to] /\ m.body # c
    BY <1>3 DEF Once
  <2>2. m.body \notin h2[m.to]
    BY <1>1, <2>1
  <2>3. ASSUME NEW e \in net2, e.to = m.to, e.body = m.body PROVE e = m
    <3>1. e \in net
      BY <1>2, <2>1, <2>3
    <3> QED
      BY <1>3, <2>3, <3>1 DEF Once
  <2> QED
    BY <2>1, <2>2, <2>3
<1>4. ASSUME NEW m \in net2, m \notin net
      PROVE  /\ m = [body |-> m.body, from |-> m.from, to |-> m.to, at |-> m.at]
             /\ m.from \in Nodes /\ m.to \in Nodes /\ m.from # m.to
             /\ m.body \notin h2[m.to]
             /\ \A e \in net2 : e.to = m.to /\ e.body = m.body => e = m
  <2>1. m.body = c /\ m.to \in Nodes /\ m.to # k /\ m.from = k
        /\ m = [body |-> c, from |-> k, to |-> m.to, at |-> now] /\ m.at = now
    BY <1>2, <1>4
  <2>2. m.body \notin h2[m.to]
    BY <1>1, <2>1
  <2>3. ASSUME NEW e \in net2, e.to = m.to, e.body = m.body PROVE e = m
    <3>1. e \notin net
      BY <2>1, <2>3
    <3>2. e = [body |-> c, from |-> k, to |-> e.to, at |-> now]
      BY <1>2, <3>1
    <3> QED
      BY <2>1, <2>3, <3>2
  <2> QED
    BY <2>1, <2>2, <2>3
<1>5. Once(h2, net2)
  BY <1>3, <1>4 DEF Once
<1> QED
  BY <1>5 DEF h2, net2

-------------------------------------------------------------------------------
\* Steps with faults, and what they leave of a node.

\* A client is told that its transaction is accepted.
Accepts(r) ==
  /\ r.status = 200 /\ r.node \in Nodes /\ r.tx \in Txs /\ r.at = now
  /\ Submit(r.node, r.tx)

\* The nodes that are up go on; a returned one starts only after its wait.
Ordinary ==
  /\ [Next]_vars
  /\ UNCHANGED <<now, up, launched, crashed, split>>
  /\ \A k \in Nodes : ~running[k] /\ running'[k] =>
       k \in up /\ (k \in crashed => now >= launched[k] + RestartWait)
  /\ \A r \in replies' : r \in replies \/ Accepts(r)

\* Time passes, or a submission fails: the slots see nothing of it.
Aside ==
  /\ UNCHANGED <<clockVars, digests, proposals, history, stateRoot, pending, nets>>
  /\ UNCHANGED <<up, launched, crashed, split>>
  /\ \A k \in Nodes : pool[k] \subseteq pool'[k]
  /\ \A r \in replies' : r \in replies \/ r.status # 200
  /\ \/ now' = now
     \/ now' = now + 1 /\ \A n \in up : ~running[n] => now < StartBy(n)

\* The steps as the survivors see them.
LEMMA FaultSteps ==
  ASSUME FaultTypeOK, [FaultNext]_<<vars, faultVars>>
  PROVE  Ordinary \/ Aside \/ \E n \in Nodes : Crash(n) \/ Relaunch(n)
<1>a. TypeOK /\ up \subseteq Nodes
  BY DEF FaultTypeOK
<1> USE DEF clockVars, nets
<1>1. ASSUME NEW n \in up, Works(n), UNCHANGED <<up, launched, crashed, split, replies>>
      PROVE  Ordinary
  <2>1. Next
    BY <1>1, <1>a, WorksIsNext
  <2>2. /\ now' = now
        /\ \A k \in Nodes : ~running[k] /\ running'[k] => k = n /\ StartAgain(n)
    BY <1>1, <1>a
    DEF Works, StartAgain, StartSlotManager, ToFreeze, ToSync, ToPropose, ToCollect, Leaves,
        FinalizeWinner, FinalizeSkip, FinalizeEmergency, FinishFinalize, Skip,
        OnTx, OnDigest, OnBatch, OnLateBatch, OnMempoolSync, TypeOK
  <2>3. StartAgain(n) /\ n \in crashed => now >= launched[n] + RestartWait
    BY DEF StartAgain, StartBy
  <2> QED
    BY <1>1, <2>1, <2>2, <2>3 DEF Ordinary
<1>2. ASSUME NEW n \in up, Serves(n), UNCHANGED <<up, launched, crashed, split, resynced>>
      PROVE  Ordinary \/ Aside
  <2>1. ASSUME NEW tx \in Txs, Submit(n, tx), Reply(n, tx, 200) PROVE Ordinary
    <3>1. Next
      BY <1>a, <2>1, SubmitIsNext
    <3>2. UNCHANGED <<now, running>>
      BY <2>1 DEF Submit
    <3>3. ASSUME NEW r \in replies', r \notin replies PROVE Accepts(r)
      <4>1. r.tx = tx /\ r.node = n /\ r.at = now /\ r.status = 200
        BY <2>1, <3>3 DEF Reply
      <4> QED
        BY <1>a, <2>1, <4>1 DEF Accepts
    <3> QED
      BY <1>2, <3>1, <3>2, <3>3 DEF Ordinary
  <2>2. ASSUME NEW tx \in Txs, SubmitThrows(n, tx), Reply(n, tx, 400) PROVE Aside
    <3>1. \A k \in Nodes : pool[k] \subseteq pool'[k]
      BY <1>a, <2>2 DEF SubmitThrows, Add, TypeOK
    <3>2. \A r \in replies' : r \in replies \/ r.status # 200
      BY <2>2 DEF Reply
    <3> QED
      BY <1>2, <2>2, <3>1, <3>2 DEF SubmitThrows, Aside
  <2> QED
    BY <1>2, <2>1, <2>2 DEF Serves
<1>3. CASE TickWithFaults /\ UNCHANGED faultVars
  BY <1>3 DEF TickWithFaults, Aside, faultVars
<1>4. CASE UNCHANGED <<vars, faultVars>>
  BY <1>4 DEF Aside, vars, faultVars
<1> QED
  BY <1>1, <1>2, <1>3, <1>4 DEF FaultNext, Horizon, faultVars

\* A survivor is up.
LEMMA SurvivorsUp == ASSUME Down, NEW n \in Survivors PROVE n \in Nodes /\ n \in up /\ n \notin crashed
BY DEF Down, Survivors

\* What a step does to node k.
LEMMA NodeMoves ==
  ASSUME TypeOK, [Next]_vars, NEW k \in Nodes
  PROVE  \/ /\ running'[k] = running[k] /\ slot'[k] = slot[k] /\ phase'[k] = phase[k]
            /\ history'[k] = history[k]
         \/ StartSlotManager(k)
         \/ Proceeds(k)
         \/ ToCollect(k)
         \/ \E b : Finalises(k, b)
<1> DEFINE Stays == /\ running'[k] = running[k] /\ slot'[k] = slot[k] /\ phase'[k] = phase[k]
                    /\ history'[k] = history[k]
<1>1. ASSUME NEW n \in Nodes, n # k, StartSlotManager(n) \/ Proceeds(n) \/ ToCollect(n) PROVE Stays
  BY <1>1 DEF StartSlotManager, Proceeds, ToCollect, Leaves, TypeOK
<1>2. ASSUME NEW n \in Nodes, n # k, NEW b, Finalises(n, b) PROVE Stays
  BY <1>2 DEF Finalises, Record, TypeOK
<1> QED
  BY <1>1, <1>2, BookSteps

\* A node that has not been started is in slot 0, and not later than LastStart.
StartsInSlot0(k) == ~running[k] => phase[k] = "COLLECT" /\ slot[k] = 0 /\ now <= LastStart

\* The moves of a node that has been up from the beginning: it goes from one slot to
\* the next by settling the one it has open, and has settled every slot from 0 on.
LEMMA SteadyMoves ==
  ASSUME LastStart < Genesis + BaseDelta,
         TypeOK, TypeOK', [Next]_vars, NEW k \in Nodes, StartsInSlot0(k)
  PROVE  /\ OpenSlot(k) \in Nat /\ OpenSlot(k)' \in Nat
         /\ \/ OpenSlot(k)' = OpenSlot(k)
            \/ /\ Enters(k, "FINALIZE") /\ phase[k] = "PROPOSE"
               /\ OpenSlot(k) = slot[k] /\ OpenSlot(k)' = slot[k] + 1
         /\ phase'[k] = "PROPOSE" => slot'[k] = slot[k] /\ phase[k] \in {"SYNC", "PROPOSE"}
         /\ DOMAIN history[k] = 0 .. OpenSlot(k) - 1 => DOMAIN history'[k] = 0 .. OpenSlot(k)' - 1
         /\ now' = now => StartsInSlot0(k)'
<1>a. slot[k] \in Nat /\ slot'[k] \in Nat /\ phase[k] \in Phases /\ running[k] \in BOOLEAN
  BY DEF TypeOK
<1>b. OpenSlot(k) \in Nat /\ OpenSlot(k)' \in Nat
  BY <1>a DEF OpenSlot
<1> DEFINE Goal == /\ \/ OpenSlot(k)' = OpenSlot(k)
                      \/ /\ Enters(k, "FINALIZE") /\ phase[k] = "PROPOSE"
                         /\ OpenSlot(k) = slot[k] /\ OpenSlot(k)' = slot[k] + 1
                   /\ phase'[k] = "PROPOSE" => slot'[k] = slot[k] /\ phase[k] \in {"SYNC", "PROPOSE"}
                   /\ DOMAIN history[k] = 0 .. OpenSlot(k) - 1 => DOMAIN history'[k] = 0 .. OpenSlot(k)' - 1
                   /\ now' = now => StartsInSlot0(k)'
<1>1. CASE /\ running'[k] = running[k] /\ slot'[k] = slot[k] /\ phase'[k] = phase[k]
           /\ history'[k] = history[k]
  <2>1. OpenSlot(k)' = OpenSlot(k)
    BY <1>1 DEF OpenSlot
  <2>2. phase'[k] = "PROPOSE" => slot'[k] = slot[k] /\ phase[k] \in {"SYNC", "PROPOSE"}
    BY <1>1
  <2>3. DOMAIN history[k] = 0 .. OpenSlot(k) - 1 => DOMAIN history'[k] = 0 .. OpenSlot(k)' - 1
    BY <1>1, <2>1
  <2>4. now' = now => StartsInSlot0(k)'
    BY <1>1 DEF StartsInSlot0
  <2> QED
    BY <1>b, <2>1, <2>2, <2>3, <2>4
<1>2. CASE StartSlotManager(k)
  <2>1. now \in Nat /\ now < Genesis + BaseDelta
    <3>1. now \in Nat /\ now <= LastStart
      BY <1>2 DEF StartSlotManager, StartsInSlot0, TypeOK
    <3> QED
      BY <3>1, SequencerAssumption, TimingAssumption
  <2>2. WallSlot(Genesis, now) = 0
    BY <2>1, WallSlot0
  <2>3. phase[k] = "COLLECT" /\ slot[k] = 0 /\ phase'[k] = "COLLECT" /\ slot'[k] = 0
        /\ history'[k] = history[k] /\ running'[k]
    BY <1>2, <2>2 DEF StartSlotManager, StartsInSlot0, TypeOK
  <2> QED
    BY <2>3 DEF OpenSlot, StartsInSlot0
<1>3. CASE Proceeds(k)
  <2>1. /\ phase[k] \in {"COLLECT", "FREEZE", "SYNC"} /\ phase'[k] = NextPhase[phase[k]]
        /\ slot'[k] = slot[k] /\ history'[k] = history[k] /\ running'[k]
    BY <1>3 DEF Proceeds, TypeOK
  <2>2. /\ phase'[k] \in {"FREEZE", "SYNC", "PROPOSE"}
        /\ phase'[k] = "PROPOSE" => phase[k] = "SYNC"
    BY <2>1 DEF NextPhase
  <2>3. OpenSlot(k)' = OpenSlot(k)
    BY <2>1, <2>2 DEF OpenSlot
  <2>4. StartsInSlot0(k)'
    BY <2>1 DEF StartsInSlot0
  <2>5. DOMAIN history[k] = 0 .. OpenSlot(k) - 1 => DOMAIN history'[k] = 0 .. OpenSlot(k)' - 1
    BY <2>1, <2>3
  <2> QED
    BY <1>b, <2>1, <2>2, <2>3, <2>4, <2>5
<1>4. CASE ToCollect(k)
  <2>1. /\ phase[k] = "FINALIZE" /\ phase'[k] = "COLLECT" /\ slot'[k] = slot[k] + 1
        /\ history'[k] = history[k] /\ running'[k]
    BY <1>4 DEF ToCollect, Leaves, NextPhase, TypeOK
  <2>2. OpenSlot(k)' = OpenSlot(k)
    BY <2>1 DEF OpenSlot
  <2>3. StartsInSlot0(k)'
    BY <2>1 DEF StartsInSlot0
  <2>4. DOMAIN history[k] = 0 .. OpenSlot(k) - 1 => DOMAIN history'[k] = 0 .. OpenSlot(k)' - 1
    BY <2>1, <2>2
  <2> QED
    BY <1>b, <2>1, <2>2, <2>3, <2>4
<1>5. ASSUME NEW b, Finalises(k, b) PROVE Goal
  <2>1. /\ phase[k] = "PROPOSE" /\ phase'[k] = "FINALIZE" /\ slot'[k] = slot[k] /\ running'[k]
        /\ DOMAIN history'[k] = DOMAIN history[k] \cup {slot[k]}
    BY <1>5 DEF Finalises, Record, TypeOK
  <2>2. OpenSlot(k) = slot[k] /\ OpenSlot(k)' = slot[k] + 1
    BY <2>1 DEF OpenSlot
  <2>3. (0 .. slot[k] - 1) \cup {slot[k]} = 0 .. (slot[k] + 1) - 1
    BY <1>a
  <2> QED
    BY <2>1, <2>2, <2>3 DEF Enters, StartsInSlot0
<1> QED
  BY <1>b, <1>1, <1>2, <1>3, <1>4, <1>5, NodeMoves

-------------------------------------------------------------------------------
\* One vote and one proposal, in spite of crashes.

\* Node k, which is not running, has crashed after the cutoff of slot s, and is only
\* launched again after it.
Beyond(k, s) == k \in crashed /\ (k \in up => launched[k] >= Freeze(Genesis, s, BaseDelta))

\* Node k does not come to SYNC of slot s any more.
VotedBefore(k, s) ==
  /\ now >= Freeze(Genesis, s, BaseDelta)
  /\ IF running[k] THEN HasVoted(k, s) ELSE Beyond(k, s)

\* Nor to PROPOSE.
ProposedBefore(k, s) ==
  /\ now >= Freeze(Genesis, s, BaseDelta)
  /\ IF running[k] THEN LeftSync(k, s) ELSE Beyond(k, s)

\* Who has been launched after the cutoff of a slot and has waited starts in a later one.
LEMMA StartsBeyond ==
  ASSUME Epsilon <= RestartWait, NEW l \in Nat, NEW t \in Nat, NEW s \in Nat,
         l >= Freeze(Genesis, s, BaseDelta), t >= l + RestartWait
  PROVE  WallSlot(Genesis, t) \in Nat /\ WallSlot(Genesis, t) > s
<1>1. /\ Start(Genesis, s) \in Int /\ Start(Genesis, s + 1) = Start(Genesis, s) + BaseDelta
      /\ Genesis \in Int /\ BaseDelta \in Nat /\ Epsilon \in Nat /\ RestartWait \in Nat
  BY StartsGrow, SequencerAssumption, TimingAssumption, FaultAssumption
<1>2. Freeze(Genesis, s, BaseDelta) = Start(Genesis, s) + BaseDelta - Epsilon
  BY DEF Freeze
<1>3. t >= Start(Genesis, s + 1)
  BY <1>1, <1>2
<1>4. WallSlot(Genesis, t) >= s + 1 /\ WallSlot(Genesis, t) \in Nat
  BY <1>1, <1>3, WallSlotReaches, WallSlotBrackets
<1> QED
  BY <1>4

\* The cutoff of a slot is a time.
LEMMA CutoffType == ASSUME NEW s \in Nat PROVE Freeze(Genesis, s, BaseDelta) \in Int
<1>1. Start(Genesis, s) \in Int
  BY StartsGrow
<1> QED
  BY <1>1, TimingAssumption DEF Freeze

\* What node k has been through it does not come to again.
LEMMA PastKept ==
  ASSUME Epsilon <= RestartWait, FaultTypeOK, FaultTypeOK', Down,
         [FaultNext]_<<vars, faultVars>>, NEW k \in Nodes, NEW s \in Nat
  PROVE  /\ VotedBefore(k, s) => VotedBefore(k, s)'
         /\ ProposedBefore(k, s) => ProposedBefore(k, s)'
<1>a. TypeOK /\ TypeOK'
  BY DEF FaultTypeOK
<1>b. /\ now \in Nat /\ now' \in Nat /\ slot[k] \in Nat /\ phase[k] \in Phases
      /\ running[k] \in BOOLEAN /\ launched[k] \in Nat /\ Freeze(Genesis, s, BaseDelta) \in Int
  BY CutoffType DEF FaultTypeOK, TypeOK
<1> DEFINE Goal == /\ VotedBefore(k, s) => VotedBefore(k, s)'
                   /\ ProposedBefore(k, s) => ProposedBefore(k, s)'
\* The node as it was, perhaps later.
<1>1. ASSUME now' = now \/ now' = now + 1, UNCHANGED <<up, launched, crashed>>,
             running'[k] = running[k], slot'[k] = slot[k], phase'[k] = phase[k]
      PROVE  Goal
  <2>1. now >= Freeze(Genesis, s, BaseDelta) => now' >= Freeze(Genesis, s, BaseDelta)
    BY <1>1, <1>b
  <2> QED
    BY <1>1, <2>1 DEF VotedBefore, ProposedBefore, HasVoted, LeftSync, Beyond
\* A node that goes on from where it was.
<1>2. ASSUME now' = now, running[k], running'[k],
             HasVoted(k, s) => HasVoted(k, s)', LeftSync(k, s) => LeftSync(k, s)'
      PROVE  Goal
  BY <1>2 DEF VotedBefore, ProposedBefore
<1>3. CASE Ordinary
  <2>1. UNCHANGED <<now, up, launched, crashed>>
    BY <1>3 DEF Ordinary
  <2>2. CASE StartSlotManager(k)
    <3>1. ~running[k] /\ running'[k] /\ slot'[k] = WallSlot(Genesis, now)
      BY <1>a, <2>2 DEF StartSlotManager, TypeOK
    <3>2. Beyond(k, s) => WallSlot(Genesis, now) \in Nat /\ WallSlot(Genesis, now) > s
      <4>1. k \in crashed /\ k \in up => now >= launched[k] + RestartWait
        BY <1>3, <3>1 DEF Ordinary
      <4>2. k \in up
        BY <1>3, <3>1 DEF Ordinary
      <4> QED
        BY <1>b, <4>1, <4>2, StartsBeyond DEF Beyond
    <3>3. Beyond(k, s) => HasVoted(k, s)' /\ LeftSync(k, s)'
      BY <3>1, <3>2 DEF HasVoted, LeftSync
    <3> QED
      BY <2>1, <3>1, <3>3 DEF VotedBefore, ProposedBefore
  <2>3. CASE Proceeds(k)
    <3>1. /\ running[k] /\ running'[k] /\ phase[k] \in {"COLLECT", "FREEZE", "SYNC"}
          /\ phase'[k] = NextPhase[phase[k]] /\ slot'[k] = slot[k]
      BY <1>a, <2>3 DEF Proceeds, TypeOK
    <3>2. (HasVoted(k, s) => HasVoted(k, s)') /\ (LeftSync(k, s) => LeftSync(k, s)')
      BY <3>1 DEF HasVoted, LeftSync, NextPhase
    <3> QED
      BY <1>2, <2>1, <3>1, <3>2
  <2>4. CASE ToCollect(k)
    <3>1. running[k] /\ running'[k] /\ slot'[k] = slot[k] + 1
      BY <1>a, <2>4 DEF ToCollect, Leaves, TypeOK
    <3>2. (HasVoted(k, s) => HasVoted(k, s)') /\ (LeftSync(k, s) => LeftSync(k, s)')
      BY <1>b, <3>1 DEF HasVoted, LeftSync
    <3> QED
      BY <1>2, <2>1, <3>1, <3>2
  <2>5. ASSUME NEW b, Finalises(k, b) PROVE Goal
    <3>1. running[k] /\ running'[k] /\ slot'[k] = slot[k] /\ phase'[k] = "FINALIZE"
      BY <1>a, <2>5 DEF Finalises, TypeOK
    <3>2. (HasVoted(k, s) => HasVoted(k, s)') /\ (LeftSync(k, s) => LeftSync(k, s)')
      BY <3>1 DEF HasVoted, LeftSync
    <3> QED
      BY <1>2, <2>1, <3>1, <3>2
  <2>6. [Next]_vars
    BY <1>3 DEF Ordinary
  <2> QED
    BY <1>1, <1>a, <2>1, <2>2, <2>3, <2>4, <2>5, <2>6, NodeMoves
<1>4. CASE Aside
  BY <1>1, <1>4 DEF Aside, clockVars
<1>5. ASSUME NEW x \in Nodes, Crash(x) PROVE Goal
  <2>1. CASE k = x
    <3>1. ~running'[k] /\ k \in crashed' /\ k \notin up' /\ now' = now
      BY <1>5, <1>a, <2>1 DEF Crash, TypeOK
    <3> QED
      BY <3>1 DEF VotedBefore, ProposedBefore, Beyond
  <2>2. CASE k # x
    <3>1. /\ running'[k] = running[k] /\ slot'[k] = slot[k] /\ phase'[k] = phase[k] /\ now' = now
          /\ launched' = launched /\ (k \in up' <=> k \in up) /\ (k \in crashed' <=> k \in crashed)
      BY <1>5, <1>a, <2>2 DEF Crash, TypeOK
    <3> QED
      BY <3>1 DEF VotedBefore, ProposedBefore, HasVoted, LeftSync, Beyond
  <2> QED
    BY <2>1, <2>2
<1>6. ASSUME NEW x \in Nodes, Relaunch(x) PROVE Goal
  <2>1. CASE k = x
    <3>1. ~running[k] /\ ~running'[k] /\ k \in crashed' /\ launched'[k] = now /\ now' = now
      BY <1>6, <2>1 DEF Relaunch, Down, FaultTypeOK
    <3> QED
      BY <3>1 DEF VotedBefore, ProposedBefore, Beyond
  <2>2. CASE k # x
    <3>1. /\ running'[k] = running[k] /\ slot'[k] = slot[k] /\ phase'[k] = phase[k] /\ now' = now
          /\ launched'[k] = launched[k] /\ (k \in up' <=> k \in up) /\ (k \in crashed' <=> k \in crashed)
      BY <1>6, <1>a, <2>2 DEF Relaunch, FaultTypeOK, TypeOK
    <3> QED
      BY <3>1 DEF VotedBefore, ProposedBefore, HasVoted, LeftSync, Beyond
  <2> QED
    BY <2>1, <2>2
<1> QED
  BY <1>3, <1>4, <1>5, <1>6, FaultSteps

-------------------------------------------------------------------------------
\* What stays true whatever a crash cuts.

\* The slot each node has open.
Open == [n \in Nodes |-> OpenSlot(n)]

\* Who has sent a digest does not send one for that slot again, nor a proposal.
NothingTwice ==
  /\ \A d \in AllDigests : VotedBefore(d.nodeId, d.slot)
  /\ \A p \in AllBatches : Shaped(p) /\ ProposedBefore(p.proposer, p.slot)

\* A survivor starts in slot 0 and leaves no slot out.
FromSlot0(n) == StartsInSlot0(n) /\ DOMAIN history[n] = 0 .. OpenSlot(n) - 1

\* The inductive invariant that needs no timetable and outlives every crash.
Standing ==
  /\ FaultTypeOK /\ Down /\ PendingOver /\ UniqueDigests /\ NothingTwice
  /\ Once(digests, digestNet) /\ Once(proposals, batchNet)
  /\ \A n \in Survivors : FromSlot0(n)

\* What goes to PROPOSE or SYNC of a slot does so after its cutoff.
LEMMA CutoffPassed ==
  ASSUME TypeOK, NEW n \in Nodes, phase[n] \in {"FREEZE", "SYNC"}, now >= Due(n)
  PROVE  now >= Freeze(Genesis, slot[n], BaseDelta)
<1>1. PICK e : e = effectiveDelta[n]
  OBVIOUS
<1>2. e \in Int /\ e >= BaseDelta
  <2>1. PICK j \in 0 .. 2 : e = EffectiveSlotDuration(j)
    BY <1>1 DEF TypeOK
  <2> QED
    BY <2>1, StretchAtLeastSlot
<1>3. Due(n) \in {Start(Genesis, slot[n]) + e - Epsilon, Start(Genesis, slot[n]) + e}
  BY <1>1 DEF Due, LeaveTime, Freeze, SyncEnd
<1>4. Start(Genesis, slot[n]) \in Int /\ now \in Nat /\ Epsilon \in Nat /\ BaseDelta \in Nat
  BY StartsGrow, TimingAssumption DEF TypeOK
<1> QED
  BY <1>2, <1>3, <1>4 DEF Freeze

\* A node that enters SYNC has no digest for its slot about.
LEMMA VoteIsFresh ==
  ASSUME Standing, NEW n \in Nodes, ToSync(n), NEW e \in AllDigests
  PROVE  ~(e.slot = slot[n] /\ e.nodeId = n)
<1> SUFFICES ASSUME e.slot = slot[n], e.nodeId = n PROVE FALSE
  OBVIOUS
<1>1. VotedBefore(n, slot[n]) /\ slot[n] \in Nat
  BY DEF Standing, NothingTwice, FaultTypeOK, TypeOK
<1>2. running[n] /\ phase[n] = "FREEZE"
  BY DEF ToSync, Leaves
<1> QED
  BY <1>1, <1>2 DEF VotedBefore, HasVoted

\* A node that enters PROPOSE has no proposal for its slot about.
LEMMA ProposalIsFresh ==
  ASSUME Standing, NEW n \in Nodes, ToPropose(n), NEW p \in AllBatches
  PROVE  ~(p.slot = slot[n] /\ p.proposer = n)
<1> SUFFICES ASSUME p.slot = slot[n], p.proposer = n PROVE FALSE
  OBVIOUS
<1>1. ProposedBefore(n, slot[n]) /\ slot[n] \in Nat
  BY DEF Standing, NothingTwice, FaultTypeOK, TypeOK
<1>2. running[n] /\ phase[n] = "SYNC"
  BY DEF ToPropose, Leaves
<1> QED
  BY <1>1, <1>2 DEF ProposedBefore, LeftSync

\* The steps of the nodes that are up as digests and proposals see them: what is of
\* settled slots goes, one is delivered or found late, or one is published.
Trims(h, net, h2, net2) ==
  /\ net2 = net
  /\ \A k \in Nodes : /\ h2[k] \subseteq h[k]
                      /\ \A b \in h[k] : b \in h2[k] \/ b.slot < OpenSlot(k)'

\* A copy arrives.
Delivers(h, net, h2, net2) ==
  \E m \in net : /\ m.to \in Nodes /\ net2 = net \ {m}
                 /\ h2 = [h EXCEPT ![m.to] = @ \cup {m.body}]

\* Node n files c with itself and publishes it.
Publishes(h, net, h2, net2, n, c) ==
  /\ h2 = [h EXCEPT ![n] = @ \cup {c}] /\ net2 = net \cup Publish(n, c)
  /\ \A k \in Nodes : c \notin h[k]
  /\ \A m \in net : m.body # c

\* Node n enters SYNC and publishes digest c.
VotesNow(n, c) ==
  /\ ToSync(n) /\ Enters(n, "SYNC") /\ c.slot = slot[n] /\ c.nodeId = n /\ c.hashes = Local(n)
  /\ running[n] /\ running' = running /\ slot' = slot /\ phase' = [phase EXCEPT ![n] = "SYNC"]
  /\ now' = now /\ now >= Freeze(Genesis, slot[n], BaseDelta)
  /\ Publishes(digests, digestNet, digests', digestNet', n, c)
  /\ \A e \in AllDigests : ~(e.slot = c.slot /\ e.nodeId = c.nodeId)

\* Who enters SYNC publishes a digest nobody has seen.
LEMMA SyncVotes ==
  ASSUME Standing, Ordinary, NEW n \in Nodes, ToSync(n)
  PROVE  \E c : VotesNow(n, c)
<1>a. TypeOK /\ UniqueDigests /\ PendingOver /\ [Next]_vars /\ now' = now
  BY DEF Standing, FaultTypeOK, Ordinary
<1>1. \A e \in AllDigests : ~(e.slot = slot[n] /\ e.nodeId = n)
  BY VoteIsFresh
<1>2. PICK c : /\ c.slot = slot[n] /\ c.nodeId = n
               /\ \A e \in AllDigests : ~(e.slot = c.slot /\ e.nodeId = c.nodeId)
               /\ running[n] /\ phase[n] = "FREEZE"
               /\ phase' = [phase EXCEPT ![n] = "SYNC"]
               /\ running' = running /\ slot' = slot
               /\ digests' = [digests EXCEPT ![n] = @ \cup {c}]
               /\ digestNet' = digestNet \cup Publish(n, c)
  BY <1>a, <1>1, SyncAdds
<1>3. c \notin AllDigests
  BY <1>2
<1>4. (\A k \in Nodes : c \notin digests[k]) /\ (\A m \in digestNet : m.body # c)
  BY <1>3 DEF AllDigests
<1>5. now >= Freeze(Genesis, slot[n], BaseDelta)
  <2>1. now >= Due(n)
    BY DEF ToSync, Leaves
  <2> QED
    BY <1>a, <1>2, <2>1, CutoffPassed
<1>6. Enters(n, "SYNC")
  BY <1>a, <1>2 DEF Enters, TypeOK
<1>7. c.hashes = Local(n)
  <2> DEFINE new == [slot |-> slot[n], nodeId |-> n, hashes |-> Snapshot(pool[n], slot[n])]
  <2>1. digests' = [digests EXCEPT ![n] = ReceiveDigest(@, new)]
    BY DEF ToSync
  <2>2. new.hashes = Local(n)
    BY DEF Local
  <2> HIDE DEF new
  <2>3. \A d \in ReceiveDigest(digests[n], new) : d \in digests[n] \/ d = new
    BY DEF ReceiveDigest
  <2>4. c \in digests'[n] /\ c \notin digests[n]
    BY <1>a, <1>2, <1>4 DEF TypeOK
  <2>5. digests'[n] = ReceiveDigest(digests[n], new)
    BY <1>a, <2>1 DEF TypeOK
  <2>6. c = new
    BY <2>3, <2>4, <2>5
  <2> QED
    BY <2>2, <2>6
<1>8. VotesNow(n, c)
  BY <1>a, <1>2, <1>4, <1>5, <1>6, <1>7 DEF VotesNow, Publishes
<1> QED
  BY <1>8

\* What an ordinary step does to the digests.
LEMMA OrdinaryDigests ==
  ASSUME Standing, Ordinary
  PROVE  \/ Trims(digests, digestNet, digests', digestNet')
         \/ Delivers(digests, digestNet, digests', digestNet') /\ UNCHANGED <<slot, phase>>
         \/ \E n \in Nodes : \E c : VotesNow(n, c)
<1>a. TypeOK /\ UniqueDigests /\ PendingOver /\ [Next]_vars /\ now' = now
  BY DEF Standing, FaultTypeOK, Ordinary
<1>1. ASSUME NEW n \in Nodes, ToSync(n) PROVE \E c : VotesNow(n, c)
  BY <1>1, SyncVotes
<1>2. ASSUME NEW m \in digestNet,
              digestNet' = digestNet \ {m},
              digests' = [digests EXCEPT ![m.to] = @ \cup {m.body}]
      PROVE  Delivers(digests, digestNet, digests', digestNet')
  <2>1. m.to \in Nodes
    BY <1>a DEF TypeOK, Messages
  <2> QED
    BY <1>2, <2>1 DEF Delivers
<1>3. CASE /\ digestNet' = digestNet
            /\ \A k \in Nodes :
                 /\ digests'[k] \subseteq digests[k]
                 /\ \A d \in digests[k] : d \in digests'[k] \/ d.slot < OpenSlot(k)'
  BY <1>3 DEF Trims
<1> QED
  BY <1>a, <1>1, <1>2, <1>3, DigestChanges

\* Node n enters PROPOSE and publishes proposal c.
ProposesNow(n, c) ==
  /\ Enters(n, "PROPOSE") /\ phase[n] = "SYNC" /\ c.slot = slot[n] /\ c.proposer = n /\ Shaped(c)
  /\ running[n] /\ running' = running /\ slot' = slot /\ phase' = [phase EXCEPT ![n] = "PROPOSE"]
  /\ history' = history /\ now' = now /\ now >= Freeze(Genesis, slot[n], BaseDelta)
  /\ Publishes(proposals, batchNet, proposals', batchNet', n, c)

\* What it does to the proposals.
LEMMA OrdinaryBatches ==
  ASSUME Standing, Ordinary
  PROVE  \/ Trims(proposals, batchNet, proposals', batchNet')
         \/ Delivers(proposals, batchNet, proposals', batchNet')
         \/ \E m \in batchNet : OnLateBatch(m)
         \/ \E n \in Nodes : \E c : ProposesNow(n, c)
<1>a. TypeOK /\ PendingOver /\ [Next]_vars /\ now' = now
  BY DEF Standing, FaultTypeOK, Ordinary
<1>1. ASSUME NEW n \in Nodes, ToPropose(n), ~UNCHANGED <<proposals, batchNet>>
      PROVE  \E c : ProposesNow(n, c)
  <2>1. PICK c : /\ Shaped(c) /\ c.slot = slot[n] /\ c.proposer = n
                 /\ proposals' = [proposals EXCEPT ![n] = @ \cup {c}]
                 /\ batchNet' = batchNet \cup Publish(n, c)
    BY <1>1, <1>a, ProposeAdds
  <2>2. /\ phase[n] = "SYNC" /\ phase' = [phase EXCEPT ![n] = "PROPOSE"]
        /\ UNCHANGED <<slot, history>>
    BY <1>1, <1>a, ProposeAdds
  <2>3. c \notin AllBatches
    BY <1>1, <2>1, ProposalIsFresh
  <2>4. (\A k \in Nodes : c \notin proposals[k]) /\ (\A m \in batchNet : m.body # c)
    BY <2>3 DEF AllBatches
  <2>5. running[n] /\ running' = running /\ now >= Due(n)
    BY <1>1 DEF ToPropose, Leaves
  <2>6. now >= Freeze(Genesis, slot[n], BaseDelta)
    BY <1>a, <2>2, <2>5, CutoffPassed
  <2>7. Enters(n, "PROPOSE")
    BY <1>a, <2>2 DEF Enters, TypeOK
  <2>8. ProposesNow(n, c)
    BY <1>a, <2>1, <2>2, <2>4, <2>5, <2>6, <2>7 DEF ProposesNow, Publishes
  <2> QED
    BY <2>8
<1>2. ASSUME UNCHANGED <<proposals, batchNet>> PROVE Trims(proposals, batchNet, proposals', batchNet')
  BY <1>2 DEF Trims
<1>3. ASSUME NEW m \in batchNet,
              batchNet' = batchNet \ {m},
              proposals' = [proposals EXCEPT ![m.to] = @ \cup {m.body}]
      PROVE  Delivers(proposals, batchNet, proposals', batchNet')
  BY <1>a, <1>3 DEF Delivers, TypeOK
<1>4. CASE /\ batchNet' = batchNet
            /\ \A k \in Nodes :
                 /\ proposals'[k] \subseteq proposals[k]
                 /\ \A p \in proposals[k] : p \in proposals'[k] \/ p.slot < OpenSlot(k)'
  BY <1>4 DEF Trims
<1> QED
  BY <1>a, <1>1, <1>2, <1>3, <1>4, BatchChanges

\* Faults cost digests and proposals, and bring none.
Fewer(h, net, h2, net2) == net2 \subseteq net /\ \A k \in Nodes : h2[k] \subseteq h[k]

\* A crash, a relaunch and the passing of time.
LEMMA FaultsCost ==
  ASSUME FaultTypeOK, Aside \/ \E x \in Nodes : Crash(x) \/ Relaunch(x)
  PROVE  /\ Fewer(digests, digestNet, digests', digestNet')
         /\ Fewer(proposals, batchNet, proposals', batchNet')
<1>a. TypeOK
  BY DEF FaultTypeOK
<1>1. CASE Aside
  BY <1>1 DEF Aside, Fewer, nets
<1>2. ASSUME NEW x \in Nodes, Crash(x)
      PROVE  /\ Fewer(digests, digestNet, digests', digestNet')
             /\ Fewer(proposals, batchNet, proposals', batchNet')
  BY <1>a, <1>2 DEF Crash, Fewer, TypeOK
<1>3. ASSUME NEW x \in Nodes, Relaunch(x)
      PROVE  /\ Fewer(digests, digestNet, digests', digestNet')
             /\ Fewer(proposals, batchNet, proposals', batchNet')
  BY <1>3 DEF Relaunch, NotTo, Fewer
<1> QED
  BY <1>1, <1>2, <1>3

\* What is left of messages in transit is as it was.
LEMMA OnceKept ==
  ASSUME NEW h, NEW net, NEW h2, NEW net2, DOMAIN h = Nodes, Once(h, net),
         \/ Fewer(h, net, h2, net2)
         \/ Delivers(h, net, h2, net2)
         \/ \E n \in Nodes : \E c : Publishes(h, net, h2, net2, n, c)
  PROVE  Once(h2, net2)
<1>1. CASE Fewer(h, net, h2, net2)
  <2>1. \A m \in net2 : h2[m.to] \subseteq h[m.to]
    BY <1>1 DEF Fewer, Once
  <2>2. net2 \in SUBSET net
    BY <1>1 DEF Fewer
  <2> QED
    BY <2>1, <2>2, OnceFewer
<1>2. CASE Delivers(h, net, h2, net2)
  <2>1. PICK m \in net : /\ m.to \in Nodes /\ net2 = net \ {m}
                         /\ h2 = [h EXCEPT ![m.to] = @ \cup {m.body}]
    BY <1>2 DEF Delivers
  <2>2. net2 \in SUBSET net
    BY <2>1
  <2>3. ASSUME NEW e \in net2, NEW b \in h2[e.to]
        PROVE  b \in h[e.to] \cup {f.body : f \in {d \in net \ net2 : d.to = e.to}}
    <3>1. e.to \in Nodes
      BY <2>2 DEF Once
    <3>2. b \in h[e.to] \/ (m.to = e.to /\ b = m.body)
      BY <2>1, <2>3, <3>1
    <3> QED
      BY <2>1, <3>2
  <2> QED
    BY <2>2, <2>3, OnceFewer
<1>3. ASSUME NEW n \in Nodes, NEW c, Publishes(h, net, h2, net2, n, c) PROVE Once(h2, net2)
  BY <1>3, OncePublish DEF Publishes
<1> QED
  BY <1>1, <1>2, <1>3

\* The digests after a step were there, but for the one that is published.
LEMMA DigestsFrom ==
  ASSUME Standing, NEW d \in AllDigests'
  PROVE  /\ Fewer(digests, digestNet, digests', digestNet') => d \in AllDigests
         /\ Delivers(digests, digestNet, digests', digestNet') => d \in AllDigests
         /\ \A n \in Nodes : \A c : VotesNow(n, c) => d \in AllDigests \/ d = c
<1>a. DOMAIN digests = Nodes
  BY DEF Standing, FaultTypeOK, TypeOK
<1>1. ASSUME Fewer(digests, digestNet, digests', digestNet') PROVE d \in AllDigests
  BY <1>1 DEF Fewer, AllDigests
<1>2. ASSUME NEW c, \A k \in Nodes : digests'[k] \subseteq digests[k] \cup {c},
             \A m \in digestNet' : m \in digestNet \/ m.body = c
      PROVE  d \in AllDigests \/ d = c
  <2>1. CASE \E k \in Nodes : d \in digests'[k]
    BY <1>2, <2>1 DEF AllDigests
  <2>2. CASE \E m \in digestNet' : d = m.body
    BY <1>2, <2>2 DEF AllDigests
  <2> QED
    BY <2>1, <2>2 DEF AllDigests
<1>3. ASSUME NEW m \in digestNet, digestNet' = digestNet \ {m},
             digests' = [digests EXCEPT ![m.to] = @ \cup {m.body}]
      PROVE  d \in AllDigests
  <2>1. \A k \in Nodes : digests'[k] \subseteq digests[k] \cup {m.body}
    BY <1>a, <1>3
  <2>2. m.body \in AllDigests
    BY DEF AllDigests
  <2> QED
    BY <1>2, <1>3, <2>1, <2>2
<1>4. ASSUME NEW n \in Nodes, NEW c, VotesNow(n, c) PROVE d \in AllDigests \/ d = c
  <2>1. digests' = [digests EXCEPT ![n] = @ \cup {c}] /\ digestNet' = digestNet \cup Publish(n, c)
    BY <1>4 DEF VotesNow, Publishes
  <2>2. \A k \in Nodes : digests'[k] \subseteq digests[k] \cup {c}
    BY <1>a, <2>1
  <2>3. \A m \in digestNet' : m \in digestNet \/ m.body = c
    BY <2>1 DEF Publish
  <2> QED
    BY <1>2, <2>2, <2>3
<1> QED
  BY <1>1, <1>3, <1>4 DEF Delivers

\* Nobody sends two digests for a slot, come what may.
LEMMA DigestsStand ==
  ASSUME Epsilon <= RestartWait, Standing, FaultTypeOK', [FaultNext]_<<vars, faultVars>>
  PROVE  /\ UniqueDigests'
         /\ \A d \in AllDigests' : VotedBefore(d.nodeId, d.slot)'
         /\ Once(digests', digestNet')
<1>a. /\ FaultTypeOK /\ Down /\ TypeOK /\ TypeOK' /\ UniqueDigests
      /\ Once(digests, digestNet) /\ DOMAIN digests = Nodes
  BY DEF Standing, FaultTypeOK, TypeOK
<1>b. ASSUME NEW d \in AllDigests PROVE VotedBefore(d.nodeId, d.slot)'
  <2>1. d \in Digest
    BY <1>a, DigestsTyped
  <2>2. d.nodeId \in Nodes /\ d.slot \in Nat
    BY <2>1 DEF Digest
  <2>3. PICK k \in Nodes, s \in Nat : k = d.nodeId /\ s = d.slot
    BY <2>2
  <2>4. VotedBefore(k, s)
    BY <2>3 DEF Standing, NothingTwice
  <2>5. VotedBefore(k, s)'
    BY <1>a, <2>4, PastKept
  <2> QED
    BY <2>3, <2>5
<1>1. CASE Fewer(digests, digestNet, digests', digestNet')
  <2>1. AllDigests' \subseteq AllDigests
    BY <1>1, DigestsFrom
  <2>2. \A n \in Nodes : IsFiniteSet(digests'[n])
    BY <1>1, <1>a, FS_Subset DEF Fewer, UniqueDigests
  <2>3. Once(digests', digestNet')
    BY <1>1, <1>a, OnceKept
  <2> QED
    BY <1>a, <1>b, <2>1, <2>2, <2>3 DEF UniqueDigests
<1>2. CASE Delivers(digests, digestNet, digests', digestNet')
  <2>1. AllDigests' \subseteq AllDigests
    BY <1>2, DigestsFrom
  <2>2. ASSUME NEW n \in Nodes PROVE IsFiniteSet(digests'[n])
    <3>1. PICK m \in digestNet : digests'[n] = digests[n] \/ digests'[n] = digests[n] \cup {m.body}
      BY <1>2, <1>a DEF Delivers
    <3>2. IsFiniteSet(digests[n])
      BY <1>a DEF UniqueDigests
    <3> QED
      BY <3>1, <3>2, FS_AddElement
  <2>3. Once(digests', digestNet')
    BY <1>2, <1>a, OnceKept
  <2> QED
    BY <1>a, <1>b, <2>1, <2>2, <2>3 DEF UniqueDigests
<1>3. ASSUME NEW n \in Nodes, NEW c, VotesNow(n, c)
      PROVE  /\ UniqueDigests'
             /\ \A d \in AllDigests' : VotedBefore(d.nodeId, d.slot)'
             /\ Once(digests', digestNet')
  <2>1. \A d \in AllDigests' : d \in AllDigests \/ d = c
    BY <1>3, DigestsFrom
  <2>2. \A e \in AllDigests : ~(e.slot = c.slot /\ e.nodeId = c.nodeId)
    BY <1>3 DEF VotesNow
  <2>3. ASSUME NEW k \in Nodes PROVE IsFiniteSet(digests'[k])
    <3>1. digests'[k] = digests[k] \/ digests'[k] = digests[k] \cup {c}
      BY <1>3, <1>a DEF VotesNow, Publishes
    <3>2. IsFiniteSet(digests[k])
      BY <1>a DEF UniqueDigests
    <3> QED
      BY <3>1, <3>2, FS_AddElement
  <2>4. Once(digests', digestNet')
    BY <1>3, <1>a, OnceKept DEF VotesNow
  <2>5. VotedBefore(n, slot[n])'
    <3>1. PICK s : s = slot[n]
      OBVIOUS
    <3>2. /\ running'[n] /\ slot'[n] = s /\ phase'[n] = "SYNC" /\ now' = now
          /\ now >= Freeze(Genesis, s, BaseDelta)
      BY <1>3, <1>a, <3>1 DEF VotesNow, TypeOK
    <3>3. VotedBefore(n, s)'
      BY <3>2 DEF VotedBefore, HasVoted
    <3> QED
      BY <3>2, <3>3
  <2>6. VotedBefore(c.nodeId, c.slot)'
    <3>1. c.nodeId = n /\ c.slot = slot[n] /\ slot' = slot
      BY <1>3 DEF VotesNow
    <3> QED
      BY <2>5, <3>1
  <2>7. \A d, e \in AllDigests' : d.slot = e.slot /\ d.nodeId = e.nodeId => d = e
    BY <1>a, <2>1, <2>2 DEF UniqueDigests
  <2> QED
    BY <1>b, <2>1, <2>3, <2>4, <2>6, <2>7 DEF UniqueDigests
<1>4. CASE Trims(digests, digestNet, digests', digestNet')
  BY <1>1, <1>4 DEF Trims, Fewer
<1> QED
  BY <1>a, <1>1, <1>2, <1>3, <1>4, FaultSteps, FaultsCost, OrdinaryDigests

\* The proposals after a step were there, but for the one that is published.
LEMMA BatchesFrom ==
  ASSUME Standing, NEW p \in AllBatches'
  PROVE  /\ Fewer(proposals, batchNet, proposals', batchNet') => p \in AllBatches
         /\ Delivers(proposals, batchNet, proposals', batchNet') => p \in AllBatches
         /\ \A n \in Nodes : \A c : ProposesNow(n, c) => p \in AllBatches \/ p = c
<1>a. DOMAIN proposals = Nodes
  BY DEF Standing, FaultTypeOK, TypeOK
<1>1. ASSUME Fewer(proposals, batchNet, proposals', batchNet') PROVE p \in AllBatches
  BY <1>1 DEF Fewer, AllBatches
<1>2. ASSUME NEW c, \A k \in Nodes : proposals'[k] \subseteq proposals[k] \cup {c},
             \A m \in batchNet' : m \in batchNet \/ m.body = c
      PROVE  p \in AllBatches \/ p = c
  <2>1. CASE \E k \in Nodes : p \in proposals'[k]
    BY <1>2, <2>1 DEF AllBatches
  <2>2. CASE \E m \in batchNet' : p = m.body
    BY <1>2, <2>2 DEF AllBatches
  <2> QED
    BY <2>1, <2>2 DEF AllBatches
<1>3. ASSUME NEW m \in batchNet, batchNet' = batchNet \ {m},
             proposals' = [proposals EXCEPT ![m.to] = @ \cup {m.body}]
      PROVE  p \in AllBatches
  <2>1. \A k \in Nodes : proposals'[k] \subseteq proposals[k] \cup {m.body}
    BY <1>a, <1>3
  <2>2. m.body \in AllBatches
    BY DEF AllBatches
  <2> QED
    BY <1>2, <1>3, <2>1, <2>2
<1>4. ASSUME NEW n \in Nodes, NEW c, ProposesNow(n, c) PROVE p \in AllBatches \/ p = c
  <2>1. proposals' = [proposals EXCEPT ![n] = @ \cup {c}] /\ batchNet' = batchNet \cup Publish(n, c)
    BY <1>4 DEF ProposesNow, Publishes
  <2>2. \A k \in Nodes : proposals'[k] \subseteq proposals[k] \cup {c}
    BY <1>a, <2>1
  <2>3. \A m \in batchNet' : m \in batchNet \/ m.body = c
    BY <2>1 DEF Publish
  <2> QED
    BY <1>2, <2>2, <2>3
<1> QED
  BY <1>1, <1>3, <1>4 DEF Delivers

\* Nor two proposals.
LEMMA BatchesStand ==
  ASSUME Epsilon <= RestartWait, Standing, FaultTypeOK', [FaultNext]_<<vars, faultVars>>
  PROVE  /\ \A p \in AllBatches' : Shaped(p) /\ ProposedBefore(p.proposer, p.slot)'
         /\ Once(proposals', batchNet')
<1>a. /\ FaultTypeOK /\ Down /\ TypeOK /\ TypeOK'
      /\ Once(proposals, batchNet) /\ DOMAIN proposals = Nodes
  BY DEF Standing, FaultTypeOK, TypeOK
<1>b. ASSUME NEW p \in AllBatches PROVE Shaped(p) /\ ProposedBefore(p.proposer, p.slot)'
  <2>1. p.proposer \in Nodes /\ p.slot \in Nat
    BY <1>a, BatchesTyped
  <2>2. PICK k \in Nodes, s \in Nat : k = p.proposer /\ s = p.slot
    BY <2>1
  <2>3. ProposedBefore(k, s) /\ Shaped(p)
    BY <2>2 DEF Standing, NothingTwice
  <2>4. ProposedBefore(k, s)'
    BY <1>a, <2>3, PastKept
  <2> QED
    BY <2>2, <2>3, <2>4
<1>1. CASE \/ Fewer(proposals, batchNet, proposals', batchNet')
           \/ Delivers(proposals, batchNet, proposals', batchNet')
  <2>1. AllBatches' \subseteq AllBatches
    BY <1>1, BatchesFrom
  <2>2. Once(proposals', batchNet')
    BY <1>1, <1>a, OnceKept
  <2> QED
    BY <1>b, <2>1, <2>2
<1>2. ASSUME NEW n \in Nodes, NEW c, ProposesNow(n, c)
      PROVE  /\ \A p \in AllBatches' : Shaped(p) /\ ProposedBefore(p.proposer, p.slot)'
             /\ Once(proposals', batchNet')
  <2>1. \A p \in AllBatches' : p \in AllBatches \/ p = c
    BY <1>2, BatchesFrom
  <2>2. Once(proposals', batchNet')
    BY <1>2, <1>a, OnceKept DEF ProposesNow
  <2>3. PICK s : s = slot[n]
    OBVIOUS
  <2>4. /\ running'[n] /\ slot'[n] = s /\ phase'[n] = "PROPOSE" /\ now' = now
        /\ now >= Freeze(Genesis, s, BaseDelta)
    BY <1>2, <1>a, <2>3 DEF ProposesNow, TypeOK
  <2>5. ProposedBefore(n, s)'
    BY <2>4 DEF ProposedBefore, LeftSync
  <2>6. c.proposer = n /\ c.slot = s /\ Shaped(c)
    BY <1>2, <2>3 DEF ProposesNow
  <2>7. Shaped(c) /\ ProposedBefore(c.proposer, c.slot)'
    BY <2>5, <2>6
  <2> QED
    BY <1>b, <2>1, <2>2, <2>7
<1>3. CASE Trims(proposals, batchNet, proposals', batchNet')
  BY <1>1, <1>3 DEF Trims, Fewer
<1>4. ASSUME NEW m \in batchNet, OnLateBatch(m)
      PROVE  Fewer(proposals, batchNet, proposals', batchNet')
  BY <1>4 DEF OnLateBatch, Fewer
<1> QED
  BY <1>a, <1>1, <1>2, <1>3, <1>4, FaultSteps, FaultsCost, OrdinaryBatches

\* A crash leaves no handler waiting.
LEMMA PendingStands ==
  ASSUME Standing, FaultTypeOK', [FaultNext]_<<vars, faultVars>>
  PROVE  PendingOver'
<1>a. TypeOK /\ TypeOK' /\ PendingOver /\ Down
  BY DEF Standing, FaultTypeOK
<1>1. CASE Ordinary
  BY <1>a, <1>1, PendingOverInductive DEF Ordinary
<1>2. CASE Aside
  BY <1>a, <1>2 DEF Aside, clockVars, PendingOver, OpenSlot
<1>3. ASSUME NEW x \in Nodes, Crash(x) PROVE PendingOver'
  <2> SUFFICES ASSUME NEW k \in Nodes
               PROVE  /\ ~running'[k] => pending'[k] = {}
                      /\ \A s \in pending'[k] : s < OpenSlot(k)'
    BY DEF PendingOver
  <2>1. CASE k = x
    BY <1>a, <1>3, <2>1 DEF Crash, TypeOK
  <2>2. CASE k # x
    <3>1. UNCHANGED slot /\ running'[k] = running[k] /\ phase'[k] = phase[k] /\ pending'[k] = pending[k]
      BY <1>a, <1>3, <2>2 DEF Crash, TypeOK
    <3> QED
      BY <1>a, <3>1 DEF PendingOver, OpenSlot
  <2> QED
    BY <2>1, <2>2
<1>4. ASSUME NEW x \in Nodes, Relaunch(x) PROVE PendingOver'
  <2> SUFFICES ASSUME NEW k \in Nodes
               PROVE  /\ ~running'[k] => pending'[k] = {}
                      /\ \A s \in pending'[k] : s < OpenSlot(k)'
    BY DEF PendingOver
  <2>1. CASE k = x
    <3>1. ~running[k] /\ UNCHANGED <<running, pending>>
      BY <1>a, <1>4, <2>1 DEF Relaunch, Down
    <3> QED
      BY <1>a, <3>1 DEF PendingOver
  <2>2. CASE k # x
    <3>1. UNCHANGED <<running, phase, pending>> /\ slot'[k] = slot[k]
      BY <1>a, <1>4, <2>2 DEF Relaunch, TypeOK
    <3> QED
      BY <1>a, <3>1 DEF PendingOver, OpenSlot
  <2> QED
    BY <2>1, <2>2
<1> QED
  BY <1>1, <1>2, <1>3, <1>4, FaultSteps DEF Standing

\* A survivor that is not in a step.
LEMMA SurvivorsApart ==
  ASSUME FaultTypeOK, Down, NEW k \in Nodes, k \in Survivors',
         NEW x \in Nodes, Crash(x) \/ Relaunch(x)
  PROVE  /\ k # x /\ k \in Survivors
         /\ running'[k] = running[k] /\ slot'[k] = slot[k] /\ phase'[k] = phase[k] /\ now' = now
         /\ history'[k] = history[k] /\ digests'[k] = digests[k] /\ proposals'[k] = proposals[k]
         /\ OpenSlot(k)' = OpenSlot(k)
<1>a. TypeOK
  BY DEF FaultTypeOK
<1>1. k # x /\ k \in Survivors
  BY DEF Crash, Relaunch, Down, Survivors
<1>2. CASE Crash(x)
  BY <1>a, <1>1, <1>2 DEF Crash, TypeOK, OpenSlot
<1>3. CASE Relaunch(x)
  BY <1>a, <1>1, <1>3 DEF Relaunch, TypeOK, OpenSlot
<1> QED
  BY <1>1, <1>2, <1>3

\* The survivors go from one slot to the next.
LEMMA FromSlot0Stands ==
  ASSUME LastStart < Genesis + BaseDelta, Standing, FaultTypeOK',
         [FaultNext]_<<vars, faultVars>>, NEW k \in Survivors'
  PROVE  FromSlot0(k)'
<1>a. FaultTypeOK /\ TypeOK /\ TypeOK' /\ Down
  BY DEF Standing, FaultTypeOK
<1>b. k \in Nodes /\ k \in Survivors
  <2>1. crashed \subseteq crashed'
    <3>1. ASSUME NEW x \in Nodes, Crash(x) \/ Relaunch(x) PROVE crashed \subseteq crashed'
      BY <3>1 DEF Crash, Relaunch
    <3> QED
      BY <1>a, <3>1, FaultSteps DEF Ordinary, Aside
  <2> QED
    BY <2>1 DEF Survivors
<1>c. FromSlot0(k)
  BY <1>b DEF Standing
<1>1. CASE Ordinary
  <2>1. [Next]_vars /\ now' = now
    BY <1>1 DEF Ordinary
  <2> QED
    BY <1>a, <1>b, <1>c, <2>1, SteadyMoves DEF FromSlot0
<1>2. CASE Aside
  <2>1. UNCHANGED <<running, slot, phase, history>>
    BY <1>2 DEF Aside, clockVars
  <2>2. OpenSlot(k)' = OpenSlot(k)
    BY <2>1 DEF OpenSlot
  <2>3. ~running[k] /\ now <= LastStart => now' <= LastStart
    <3>1. CASE now' = now
      BY <3>1
    <3>2. CASE now' = now + 1 /\ \A n \in up : ~running[n] => now < StartBy(n)
      <4>1. k \in up /\ StartBy(k) = LastStart
        BY <1>a, <1>b, SurvivorsUp DEF StartBy
      <4>2. now \in Nat /\ LastStart \in Nat
        BY <1>a, SequencerAssumption DEF TypeOK
      <4> QED
        BY <3>2, <4>1, <4>2
    <3> QED
      BY <1>2, <3>1, <3>2 DEF Aside
  <2> QED
    BY <1>c, <2>1, <2>2, <2>3 DEF FromSlot0, StartsInSlot0
<1>3. ASSUME NEW x \in Nodes, Crash(x) \/ Relaunch(x) PROVE FromSlot0(k)'
  <2>1. /\ running'[k] = running[k] /\ slot'[k] = slot[k] /\ phase'[k] = phase[k] /\ now' = now
        /\ history'[k] = history[k] /\ OpenSlot(k)' = OpenSlot(k)
    BY <1>a, <1>b, <1>3, SurvivorsApart
  <2> QED
    BY <1>c, <2>1 DEF FromSlot0, StartsInSlot0
<1> QED
  BY <1>a, <1>1, <1>2, <1>3, FaultSteps

\* All that stands through every step.
LEMMA StandingInductive ==
  ASSUME LastStart < Genesis + BaseDelta, Epsilon <= RestartWait, Standing,
         [FaultNext]_<<vars, faultVars>>
  PROVE  Standing'
<1>1. FaultTypeOK /\ Down
  BY DEF Standing
<1>2. FaultTypeOK' /\ Down'
  BY <1>1, FaultTypeInductive, DownInductive
<1>3. PendingOver' /\ UniqueDigests' /\ NothingTwice'
  BY <1>2, PendingStands, DigestsStand, BatchesStand DEF NothingTwice
<1>4. Once(digests, digestNet)' /\ Once(proposals, batchNet)'
  BY <1>2, DigestsStand, BatchesStand DEF Once
<1>5. \A n \in Survivors' : FromSlot0(n)'
  BY <1>2, FromSlot0Stands
<1> QED
  BY <1>2, <1>3, <1>4, <1>5 DEF Standing

\* It does to begin with.
LEMMA StandingInit ==
  ASSUME FaultInit, LastStart < Genesis + BaseDelta
  PROVE  Standing
<1>1. FaultTypeOK
  <2>1. [n \in Nodes |-> 0] \in [Nodes -> Nat]
    OBVIOUS
  <2> QED
    BY <2>1, InitType DEF FaultInit, FaultTypeOK
<1>2. AllDigests = {} /\ AllBatches = {}
  BY DEF FaultInit, Init, AllDigests, AllBatches
<1>3. Down /\ PendingOver /\ UniqueDigests /\ NothingTwice
  <2>1. \A n \in Nodes : digests[n] = {} /\ pending[n] = {} /\ IsFiniteSet(digests[n])
    BY FS_EmptySet DEF FaultInit, Init
  <2> QED
    BY <1>2, <2>1 DEF FaultInit, Down, PendingOver, UniqueDigests, NothingTwice
<1>4. Once(digests, digestNet) /\ Once(proposals, batchNet)
  BY DEF FaultInit, Init, Once
<1>5. ASSUME NEW n \in Survivors PROVE FromSlot0(n)
  <2>1. 0 < Genesis + BaseDelta /\ 0 <= LastStart
    BY SequencerAssumption, TimingAssumption
  <2>2. WallSlot(Genesis, 0) = 0
    BY <2>1, WallSlot0
  <2>3. DOMAIN <<>> = {}
    OBVIOUS
  <2>4. n \in Nodes
    BY DEF Survivors
  <2>5. slot[n] = 0 /\ phase[n] = "COLLECT" /\ now = 0 /\ DOMAIN history[n] = {}
    BY <2>2, <2>3, <2>4 DEF FaultInit, Init
  <2>6. 0 .. 0 - 1 = {}
    OBVIOUS
  <2> QED
    BY <2>1, <2>5, <2>6 DEF FromSlot0, StartsInSlot0, OpenSlot
<1> QED
  BY <1>1, <1>3, <1>4, <1>5 DEF Standing

-------------------------------------------------------------------------------
\* What the survivors have in common as long as no crash has cut a broadcast in two.

\* No digest of the slot that a node of S is deciding is still under way to it.
Quiet(S) ==
  \A n \in S : phase[n] = "PROPOSE" => \A m \in digestNet : m.to = n => m.body.slot # slot[n]

\* A proposal under way to a node that has settled its slot is of a slot all have settled.
Stragglers(S) ==
  \A m \in batchNet : m.to \in S /\ m.body.slot < OpenSlot(m.to) =>
    \A k \in S : OpenSlot(k) > m.body.slot

\* The proposals of its slot that node n takes for valid, among those S knows of.
ChoicesIn(S, n) ==
  {p \in KnownIn(S, proposals, batchNet) : ValidProposal(p, slot[n], SeedOf(n), Common(n))}

\* Who in S has finalised a slot decided as those in S will that are still to do so.
VerdictsIn(S) ==
  \A n, m \in S :
    phase[m] = "PROPOSE" /\ slot[m] \in DOMAIN history[n]
      => IsDecision(history[n][slot[m]], slot[m], ChoicesIn(S, m))

\* No two in S have finalised a slot differently.
AgreementIn(S) ==
  \A n, m \in S : \A s \in DOMAIN history[n] \cap DOMAIN history[m] : history[n][s] = history[m][s]

\* The inductive invariant behind the survivors' agreement.
InStep(S) ==
  /\ Quiet(S)
  /\ Spread(S, digests, digestNet, Open)
  /\ Spread(S, proposals, batchNet, Open)
  /\ Stragglers(S)
  /\ VerdictsIn(S)
  /\ AgreementIn(S)

\* What is known to some is known.
LEMMA KnownTyped ==
  ASSUME TypeOK, NEW S \in SUBSET Nodes
  PROVE  /\ KnownIn(S, digests, digestNet) \subseteq AllDigests
         /\ KnownIn(S, proposals, batchNet) \subseteq AllBatches
         /\ \A d \in KnownIn(S, digests, digestNet) : d.slot \in Nat
         /\ \A p \in KnownIn(S, proposals, batchNet) : p.slot \in Nat
<1>1. KnownIn(S, digests, digestNet) \subseteq AllDigests
  BY DEF KnownIn, AllDigests
<1>2. KnownIn(S, proposals, batchNet) \subseteq AllBatches
  BY DEF KnownIn, AllBatches
<1>3. \A d \in AllDigests : d.slot \in Nat
  BY DigestsTyped DEF Digest
<1> QED
  BY <1>1, <1>2, <1>3, BatchesTyped

\* A survivor in an ordinary step.
LEMMA SurvivorMoves ==
  ASSUME LastStart < Genesis + BaseDelta, Standing, FaultTypeOK', Ordinary, NEW k \in Survivors
  PROVE  /\ k \in Nodes /\ slot[k] \in Nat
         /\ OpenSlot(k) \in Nat /\ OpenSlot(k)' \in Nat /\ OpenSlot(k)' >= OpenSlot(k)
         /\ \/ OpenSlot(k)' = OpenSlot(k)
            \/ /\ Enters(k, "FINALIZE") /\ phase[k] = "PROPOSE"
               /\ OpenSlot(k) = slot[k] /\ OpenSlot(k)' = slot[k] + 1
         /\ phase'[k] = "PROPOSE" => slot'[k] = slot[k] /\ phase[k] \in {"SYNC", "PROPOSE"}
         /\ DOMAIN history[k] = 0 .. OpenSlot(k) - 1
<1>1. TypeOK /\ TypeOK' /\ [Next]_vars /\ k \in Nodes
  BY DEF Standing, FaultTypeOK, Ordinary, Survivors
<1>2. StartsInSlot0(k) /\ DOMAIN history[k] = 0 .. OpenSlot(k) - 1
  BY DEF Standing, FromSlot0
<1>3. slot[k] \in Nat
  BY <1>1 DEF TypeOK
<1>4. /\ OpenSlot(k) \in Nat /\ OpenSlot(k)' \in Nat
      /\ \/ OpenSlot(k)' = OpenSlot(k)
         \/ /\ Enters(k, "FINALIZE") /\ phase[k] = "PROPOSE"
            /\ OpenSlot(k) = slot[k] /\ OpenSlot(k)' = slot[k] + 1
      /\ phase'[k] = "PROPOSE" => slot'[k] = slot[k] /\ phase[k] \in {"SYNC", "PROPOSE"}
  BY <1>1, <1>2, SteadyMoves
<1>5. OpenSlot(k)' >= OpenSlot(k)
  BY <1>3, <1>4
<1> QED
  BY <1>1, <1>2, <1>3, <1>4, <1>5

\* A step without faults cuts nobody off, and nobody loses what is of its open slot.
LEMMA SpreadOn ==
  ASSUME NEW S \in SUBSET Nodes, NEW h, DOMAIN h = Nodes, NEW net, NEW open,
         Spread(S, h, net, open), NEW h2, NEW net2, NEW open2,
         \A n \in S : open[n] \in Nat /\ open2[n] \in Nat /\ open2[n] >= open[n],
         \A b \in KnownIn(S, h, net) : b.slot \in Nat,
         \/ /\ net2 \subseteq net
            /\ \A n \in S : h2[n] \subseteq h[n] /\ \A b \in h[n] : b \in h2[n] \/ b.slot < open2[n]
            /\ \A m \in net \ net2 : m.to \in S => m.body.slot < open2[m.to]
         \/ Delivers(h, net, h2, net2)
         \/ \E n \in Nodes : \E c : c.slot \in Nat /\ Publishes(h, net, h2, net2, n, c)
  PROVE  /\ Spread(S, h2, net2, open2)
         /\ \A n \in S : \A b \in KnownIn(S, h, net) :
              b.slot >= open2[n] => b \in KnownIn(S, h2, net2)
<1> DEFINE Goal ==
             /\ Spread(S, h2, net2, open2)
             /\ \A n \in S : \A b \in KnownIn(S, h, net) :
                  b.slot >= open2[n] => b \in KnownIn(S, h2, net2)
<1>1. ASSUME NEW g, NEW rest, Spread(S, g, rest, open), \A b \in KnownIn(S, g, rest) : b.slot \in Nat
      PROVE  Spread(S, g, rest, open2)
  <2> SUFFICES ASSUME NEW n \in S, NEW b \in KnownIn(S, g, rest), b.slot >= open2[n]
               PROVE  Reaches(g, rest, n, b)
    BY DEF Spread
  <2>1. b.slot >= open[n]
    BY <1>1
  <2> QED
    BY <1>1, <2>1 DEF Spread
<1>2. CASE /\ net2 \subseteq net
           /\ \A n \in S : h2[n] \subseteq h[n] /\ \A b \in h[n] : b \in h2[n] \/ b.slot < open2[n]
           /\ \A m \in net \ net2 : m.to \in S => m.body.slot < open2[m.to]
  <2>1. Spread(S, h2, net2, open2) /\ KnownIn(S, h2, net2) \subseteq KnownIn(S, h, net)
    BY <1>2, SpreadDrop
  <2>2. ASSUME NEW n \in S, NEW b \in KnownIn(S, h, net), b.slot >= open2[n]
        PROVE  b \in KnownIn(S, h2, net2)
    <3>1. b.slot >= open[n] /\ ~(b.slot < open2[n])
      BY <2>2
    <3>2. Reaches(h, net, n, b)
      BY <3>1 DEF Spread
    <3>3. Reaches(h2, net2, n, b)
      BY <1>2, <3>1, <3>2 DEF Reaches
    <3> QED
      BY <3>3, KnownTo
  <2> QED
    BY <2>1, <2>2
<1>3. CASE Delivers(h, net, h2, net2)
  <2>1. PICK m \in net : /\ m.to \in Nodes /\ net2 = net \ {m}
                         /\ h2 = [h EXCEPT ![m.to] = @ \cup {m.body}]
    BY <1>3 DEF Delivers
  <2>2. Spread(S, h2, net2, open) /\ KnownIn(S, h2, net2) = KnownIn(S, h, net)
    BY <2>1, SpreadDeliver
  <2>3. Spread(S, h2, net2, open2)
    BY <1>1, <2>2
  <2> QED
    BY <2>2, <2>3
<1>4. ASSUME NEW n \in Nodes, NEW c, c.slot \in Nat, Publishes(h, net, h2, net2, n, c) PROVE Goal
  <2>1. h2 = [h EXCEPT ![n] = @ \cup {c}] /\ net2 = net \cup Publish(n, c)
    BY <1>4 DEF Publishes
  <2>2. /\ Spread(S, h2, net2, open)
        /\ KnownIn(S, h, net) \subseteq KnownIn(S, h2, net2)
        /\ KnownIn(S, h2, net2) \subseteq KnownIn(S, h, net) \cup {c}
    BY <2>1, SpreadPublish
  <2>3. \A b \in KnownIn(S, h2, net2) : b.slot \in Nat
    BY <1>4, <2>2
  <2>4. Spread(S, h2, net2, open2)
    BY <1>1, <2>2, <2>3
  <2> QED
    BY <1>4, <2>2, <2>4
<1> QED
  BY <1>2, <1>3, <1>4

\* The survivors' digests in an ordinary step.
LEMMA SurvivorsShareDigests ==
  ASSUME LastStart < Genesis + BaseDelta, Standing, FaultTypeOK', Ordinary,
         NEW S \in SUBSET Nodes, S = Survivors, Spread(S, digests, digestNet, Open)
  PROVE  /\ Spread(S, digests', digestNet', Open')
         /\ \A n \in S : \A d \in KnownIn(S, digests, digestNet) :
              d.slot >= OpenSlot(n)' => d \in KnownIn(S, digests', digestNet')
<1>a. TypeOK /\ DOMAIN digests = Nodes
  BY DEF Standing, FaultTypeOK, TypeOK
<1>b. \A k \in S : Open[k] \in Nat /\ Open'[k] \in Nat /\ Open'[k] >= Open[k]
  BY SurvivorMoves DEF Open
<1>c. \A d \in KnownIn(S, digests, digestNet) : d.slot \in Nat
  BY <1>a, KnownTyped
<1> DEFINE On == /\ Spread(S, digests', digestNet', Open')
                 /\ \A n \in S : \A d \in KnownIn(S, digests, digestNet) :
                      d.slot >= Open'[n] => d \in KnownIn(S, digests', digestNet')
<1>1. ASSUME Trims(digests, digestNet, digests', digestNet') PROVE On
  <2>1. \A k \in S : /\ digests'[k] \subseteq digests[k]
                     /\ \A b \in digests[k] : b \in digests'[k] \/ b.slot < Open'[k]
    BY <1>1 DEF Trims, Open
  <2>2. digestNet' \subseteq digestNet /\ \A m \in digestNet \ digestNet' : m.body.slot < Open'[m.to]
    BY <1>1 DEF Trims
  <2> QED
    BY <1>a, <1>b, <1>c, <2>1, <2>2, SpreadOn
<1>2. ASSUME Delivers(digests, digestNet, digests', digestNet') PROVE On
  BY <1>a, <1>b, <1>c, <1>2, SpreadOn
<1>3. ASSUME NEW n \in Nodes, NEW c, VotesNow(n, c) PROVE On
  <2>1. c.slot \in Nat /\ Publishes(digests, digestNet, digests', digestNet', n, c)
    BY <1>3, <1>a DEF VotesNow, TypeOK
  <2> QED
    BY <1>a, <1>b, <1>c, <2>1, SpreadOn
<1>4. On
  <2> HIDE DEF On
  <2> QED
    BY <1>1, <1>2, <1>3, OrdinaryDigests
<1>5. ASSUME NEW n \in S, NEW d \in KnownIn(S, digests, digestNet), d.slot >= OpenSlot(n)'
      PROVE  d \in KnownIn(S, digests', digestNet')
  <2>1. d.slot >= Open'[n]
    BY <1>5 DEF Open
  <2> QED
    BY <1>4, <2>1
<1> QED
  BY <1>4, <1>5

\* And their proposals.
LEMMA SurvivorsShareBatches ==
  ASSUME LastStart < Genesis + BaseDelta, Standing, FaultTypeOK', Ordinary, SurvivorProposalsTimely,
         NEW S \in SUBSET Nodes, S = Survivors, Spread(S, proposals, batchNet, Open)
  PROVE  /\ Spread(S, proposals', batchNet', Open')
         /\ \A n \in S : \A p \in KnownIn(S, proposals, batchNet) :
              p.slot >= OpenSlot(n)' => p \in KnownIn(S, proposals', batchNet')
         /\ \A p \in KnownIn(S, proposals', batchNet') :
              \/ p \in KnownIn(S, proposals, batchNet)
              \/ \E n \in Nodes : Enters(n, "PROPOSE") /\ p.slot = slot[n]
<1>a. TypeOK /\ DOMAIN proposals = Nodes
  BY DEF Standing, FaultTypeOK, TypeOK
<1>b. \A k \in S : Open[k] \in Nat /\ Open'[k] \in Nat /\ Open'[k] >= Open[k]
  BY SurvivorMoves DEF Open
<1>c. \A p \in KnownIn(S, proposals, batchNet) : p.slot \in Nat
  BY <1>a, KnownTyped
<1>d. \A n \in S : Open'[n] = OpenSlot(n)'
  BY DEF Open
<1> DEFINE On == /\ Spread(S, proposals', batchNet', Open')
                 /\ \A n \in S : \A p \in KnownIn(S, proposals, batchNet) :
                      p.slot >= Open'[n] => p \in KnownIn(S, proposals', batchNet')
<1>e. ASSUME On, \A p \in KnownIn(S, proposals', batchNet') :
                   \/ p \in KnownIn(S, proposals, batchNet)
                   \/ \E n \in Nodes : Enters(n, "PROPOSE") /\ p.slot = slot[n]
      PROVE  /\ Spread(S, proposals', batchNet', Open')
             /\ \A n \in S : \A p \in KnownIn(S, proposals, batchNet) :
                  p.slot >= OpenSlot(n)' => p \in KnownIn(S, proposals', batchNet')
             /\ \A p \in KnownIn(S, proposals', batchNet') :
                  \/ p \in KnownIn(S, proposals, batchNet)
                  \/ \E n \in Nodes : Enters(n, "PROPOSE") /\ p.slot = slot[n]
  <2>1. Spread(S, proposals', batchNet', Open')
    BY <1>e
  <2>2. ASSUME NEW n \in S, NEW p \in KnownIn(S, proposals, batchNet), p.slot >= OpenSlot(n)'
        PROVE  p \in KnownIn(S, proposals', batchNet')
    <3>1. p.slot >= Open'[n]
      BY <1>d, <2>2
    <3> QED
      BY <1>e, <3>1
  <2> QED
    BY <1>e, <2>1, <2>2
<1> HIDE DEF On
<1>1. CASE Trims(proposals, batchNet, proposals', batchNet')
  <2>1. \A k \in S : /\ proposals'[k] \subseteq proposals[k]
                     /\ \A b \in proposals[k] : b \in proposals'[k] \/ b.slot < Open'[k]
    BY <1>1 DEF Trims, Open
  <2>2. batchNet' \subseteq batchNet /\ \A m \in batchNet \ batchNet' : m.body.slot < Open'[m.to]
    BY <1>1 DEF Trims
  <2>3. On
    BY <1>a, <1>b, <1>c, <2>1, <2>2, SpreadOn DEF On
  <2>4. KnownIn(S, proposals', batchNet') \subseteq KnownIn(S, proposals, batchNet)
    BY <2>1, <2>2 DEF KnownIn
  <2> QED
    BY <1>e, <2>3, <2>4
<1>2. CASE Delivers(proposals, batchNet, proposals', batchNet')
  <2>1. On
    BY <1>a, <1>b, <1>c, <1>2, SpreadOn DEF On
  <2>2. KnownIn(S, proposals', batchNet') \subseteq KnownIn(S, proposals, batchNet)
    <3>1. PICK m \in batchNet : /\ m.to \in Nodes /\ batchNet' = batchNet \ {m}
                                /\ proposals' = [proposals EXCEPT ![m.to] = @ \cup {m.body}]
      BY <1>2 DEF Delivers
    <3> QED
      BY <1>a, <3>1, SpreadDeliver
  <2> QED
    BY <1>e, <2>1, <2>2
<1>3. ASSUME NEW m \in batchNet, OnLateBatch(m)
      PROVE  /\ On /\ KnownIn(S, proposals', batchNet') \subseteq KnownIn(S, proposals, batchNet)
  <2>1. proposals' = proposals /\ batchNet' = batchNet \ {m}
    BY <1>3 DEF OnLateBatch
  <2>2. m.to \in S => m.body.slot < Open'[m.to]
    <3>1. m.to \in S => ~(m.body.slot >= OpenSlot(m.to))
      BY <1>3 DEF SurvivorProposalsTimely
    <3>2. m.body.slot \in Nat /\ m.to \in Nodes
      BY <1>a DEF TypeOK, WellFormed
    <3>3. m.to \in Nodes => Open[m.to] = OpenSlot(m.to)
      BY DEF Open
    <3> QED
      BY <1>b, <3>1, <3>2, <3>3
  <2>3. /\ batchNet' \subseteq batchNet
        /\ \A e \in batchNet \ batchNet' : e.to \in S => e.body.slot < Open'[e.to]
        /\ \A k \in S : /\ proposals'[k] \subseteq proposals[k]
                        /\ \A b \in proposals[k] : b \in proposals'[k] \/ b.slot < Open'[k]
    BY <2>1, <2>2
  <2>4. On
    BY <1>a, <1>b, <1>c, <2>3, SpreadOn DEF On
  <2> QED
    BY <2>1, <2>4 DEF KnownIn
<1>4. ASSUME NEW n \in Nodes, NEW c, ProposesNow(n, c)
      PROVE  /\ On
             /\ KnownIn(S, proposals', batchNet') \subseteq KnownIn(S, proposals, batchNet) \cup {c}
  <2>1. c.slot \in Nat /\ Publishes(proposals, batchNet, proposals', batchNet', n, c)
    BY <1>4, <1>a DEF ProposesNow, TypeOK
  <2>2. On
    BY <1>a, <1>b, <1>c, <2>1, SpreadOn DEF On
  <2>3. KnownIn(S, proposals', batchNet') \subseteq KnownIn(S, proposals, batchNet) \cup {c}
    BY <1>a, <2>1, SpreadPublish DEF Publishes
  <2> QED
    BY <2>2, <2>3
<1>5. ASSUME NEW n \in Nodes, NEW c, ProposesNow(n, c) PROVE Enters(n, "PROPOSE") /\ c.slot = slot[n]
  BY <1>5 DEF ProposesNow
<1> DEFINE Goal == /\ Spread(S, proposals', batchNet', Open')
                   /\ \A n \in S : \A p \in KnownIn(S, proposals, batchNet) :
                        p.slot >= OpenSlot(n)' => p \in KnownIn(S, proposals', batchNet')
                   /\ \A p \in KnownIn(S, proposals', batchNet') :
                        \/ p \in KnownIn(S, proposals, batchNet)
                        \/ \E n \in Nodes : Enters(n, "PROPOSE") /\ p.slot = slot[n]
<1>6. ASSUME NEW m \in batchNet, OnLateBatch(m) PROVE Goal
  BY <1>e, <1>3, <1>6
<1>7. ASSUME NEW n \in Nodes, NEW c, ProposesNow(n, c) PROVE Goal
  BY <1>e, <1>4, <1>5, <1>7
<1> QED
  BY <1>1, <1>2, <1>6, <1>7, OrdinaryBatches

\* No digest comes in while a survivor decides.
LEMMA QuietKept ==
  ASSUME LastStart < Genesis + BaseDelta, Standing, FaultTypeOK', Ordinary, SurvivorDigestsTimely,
         NEW S \in SUBSET Nodes, S = Survivors, Quiet(S)
  PROVE  Quiet(S)'
<1>a. TypeOK
  BY DEF Standing, FaultTypeOK
<1> SUFFICES ASSUME NEW n \in S, phase'[n] = "PROPOSE", NEW m \in digestNet', m.to = n,
                    m.body.slot = slot'[n]
             PROVE  FALSE
  BY DEF Quiet
<1>1. slot'[n] = slot[n] /\ phase[n] \in {"SYNC", "PROPOSE"} /\ n \in Nodes
  BY SurvivorMoves
<1>2. m \notin digestNet
  <2>1. CASE phase[n] = "PROPOSE"
    BY <1>1, <2>1 DEF Quiet
  <2>2. CASE phase[n] = "SYNC"
    BY <1>1, <2>2 DEF SurvivorDigestsTimely, Enters
  <2> QED
    BY <1>1, <2>1, <2>2
<1>3. PICK k \in Nodes : \E c : VotesNow(k, c)
  BY <1>2, OrdinaryDigests DEF Trims, Delivers
<1>4. PICK c : VotesNow(k, c)
  BY <1>3
<1>5. m.body = c /\ c.slot = slot[k]
  BY <1>2, <1>4 DEF VotesNow, Publishes, Publish
<1>6. phase[n] = "PROPOSE"
  <2>1. phase' = [phase EXCEPT ![k] = "SYNC"]
    BY <1>4 DEF VotesNow
  <2> QED
    BY <1>a, <1>1, <2>1 DEF TypeOK
<1>7. Enters(k, "SYNC")
  BY <1>4 DEF VotesNow
<1> QED
  BY <1>1, <1>5, <1>6, <1>7 DEF SurvivorDigestsTimely

\* No survivor settles a slot before a proposal for it that is under way to it, nor is
\* one published when some of them have.
LEMMA StragglersKept ==
  ASSUME LastStart < Genesis + BaseDelta, Standing, FaultTypeOK', Ordinary, SurvivorProposalsTimely,
         NEW S \in SUBSET Nodes, S = Survivors, Stragglers(S)
  PROVE  Stragglers(S)'
<1>a. TypeOK
  BY DEF Standing, FaultTypeOK
<1> SUFFICES ASSUME NEW m \in batchNet', m.to \in S, m.body.slot < OpenSlot(m.to)', NEW k \in S
             PROVE  OpenSlot(k)' > m.body.slot
  BY DEF Stragglers
<1>b. /\ OpenSlot(k) \in Nat /\ OpenSlot(k)' \in Nat /\ OpenSlot(k)' >= OpenSlot(k)
  BY SurvivorMoves
<1>1. CASE m \in batchNet
  <2>1. m.body.slot \in Nat
    BY <1>a, <1>1 DEF TypeOK, WellFormed
  <2>2. CASE m.body.slot < OpenSlot(m.to)
    BY <1>1, <1>b, <2>1, <2>2 DEF Stragglers
  <2>3. CASE ~(m.body.slot < OpenSlot(m.to))
    <3>1. PICK n \in S : n = m.to
      OBVIOUS
    <3>2. Enters(n, "FINALIZE") /\ OpenSlot(n) = slot[n] /\ OpenSlot(n)' = slot[n] + 1 /\ slot[n] \in Nat
      BY <2>3, <3>1, SurvivorMoves
    <3>3. m.body.slot = slot[n]
      BY <2>1, <2>3, <3>1, <3>2
    <3> QED
      BY <1>1, <3>1, <3>2, <3>3 DEF SurvivorProposalsTimely
  <2> QED
    BY <2>2, <2>3
<1>2. CASE m \notin batchNet
  <2>1. PICK n \in Nodes : \E c : ProposesNow(n, c)
    BY <1>2, OrdinaryBatches DEF Trims, Delivers, OnLateBatch
  <2>2. PICK c : ProposesNow(n, c)
    BY <2>1
  <2>3. m.body = c /\ c.slot = slot[n]
    BY <1>2, <2>2 DEF ProposesNow, Publishes, Publish
  <2>4. \A j \in S : OpenSlot(j)' = OpenSlot(j)
    <3>1. phase[n] = "SYNC" /\ slot' = slot /\ phase' = [phase EXCEPT ![n] = "PROPOSE"]
      BY <2>2 DEF ProposesNow
    <3> QED
      BY <1>a, <3>1 DEF OpenSlot, TypeOK
  <2>5. Enters(n, "PROPOSE")
    BY <2>2 DEF ProposesNow
  <2>6. PICK j \in S : j = m.to
    OBVIOUS
  <2>7. OpenSlot(j) > slot[n] /\ OpenSlot(j) \in Nat /\ slot[n] \in Nat
    BY <1>a, <2>3, <2>4, <2>6, SurvivorMoves DEF TypeOK
  <2>8. ~(OpenSlot(j) <= slot[n])
    BY <2>7
  <2>9. OpenSlot(k) > slot[n]
    BY <2>5, <2>8 DEF SurvivorProposalsTimely
  <2> QED
    BY <2>3, <2>4, <2>9
<1> QED
  BY <1>1, <1>2

\* The digests of its slot do not change under a survivor that is in PROPOSE.
LEMMA SurvivorVotesKept ==
  ASSUME LastStart < Genesis + BaseDelta, Standing, FaultTypeOK', Ordinary,
         NEW S \in SUBSET Nodes, S = Survivors, Quiet(S),
         NEW m \in S, phase[m] = "PROPOSE", phase'[m] = "PROPOSE"
  PROVE  Common(m)' = Common(m)
<1>a. TypeOK /\ DOMAIN digests = Nodes
  BY DEF Standing, FaultTypeOK, TypeOK
<1>b. slot'[m] = slot[m] /\ OpenSlot(m)' = slot[m] /\ slot[m] \in Nat /\ m \in Nodes
  BY SurvivorMoves DEF OpenSlot
<1>1. CASE Trims(digests, digestNet, digests', digestNet')
  <2>1. digests'[m] \subseteq digests[m] /\ \A d \in digests[m] : d \in digests'[m] \/ d.slot < slot[m]
    BY <1>1, <1>b DEF Trims
  <2>2. DigestsOf(digests'[m], slot[m]) = DigestsOf(digests[m], slot[m])
    BY <1>b, <2>1 DEF DigestsOf
  <2> QED
    BY <1>b, <2>2 DEF Common, CommonSubset, TxCount
<1>2. CASE Delivers(digests, digestNet, digests', digestNet')
  <2>1. PICK e \in digestNet : digests' = [digests EXCEPT ![e.to] = @ \cup {e.body}]
    BY <1>2 DEF Delivers
  <2>2. digests'[m] = digests[m] \/ (digests'[m] = digests[m] \cup {e.body} /\ e.to = m)
    BY <1>a, <1>b, <2>1
  <2>3. e.to = m => e.body.slot # slot[m]
    BY DEF Quiet
  <2>4. DigestsOf(digests'[m], slot[m]) = DigestsOf(digests[m], slot[m])
    BY <2>2, <2>3 DEF DigestsOf
  <2> QED
    BY <1>b, <2>4 DEF Common, CommonSubset, TxCount
<1>3. ASSUME NEW k \in Nodes, NEW c, VotesNow(k, c) PROVE Common(m)' = Common(m)
  <2>1. digests' = [digests EXCEPT ![k] = @ \cup {c}] /\ phase' = [phase EXCEPT ![k] = "SYNC"]
    BY <1>3 DEF VotesNow, Publishes
  <2>2. digests'[m] = digests[m]
    BY <1>a, <1>b, <2>1 DEF TypeOK
  <2> QED
    BY <1>b, <2>2 DEF Common
<1> QED
  BY <1>1, <1>2, <1>3, OrdinaryDigests

\* Nor do its choices, unless a node goes to PROPOSE of the same slot.
LEMMA SurvivorChoicesKept ==
  ASSUME LastStart < Genesis + BaseDelta, Standing, FaultTypeOK', Ordinary, SurvivorProposalsTimely,
         NEW S \in SUBSET Nodes, S = Survivors, InStep(S),
         NEW m \in S, phase[m] = "PROPOSE", phase'[m] = "PROPOSE",
         \A k \in Nodes : Enters(k, "PROPOSE") => slot[k] # slot[m]
  PROVE  ChoicesIn(S, m)' = ChoicesIn(S, m) /\ slot'[m] = slot[m]
<1>a. TypeOK /\ [Next]_vars
  BY DEF Standing, FaultTypeOK, Ordinary
<1>b. slot'[m] = slot[m] /\ OpenSlot(m)' = slot[m] /\ slot[m] \in Nat /\ m \in Nodes
  BY SurvivorMoves DEF OpenSlot
<1>1. Common(m)' = Common(m)
  BY SurvivorVotesKept DEF InStep
<1>2. history'[m] = history[m]
  <2>1. ASSUME NEW b, Finalises(m, b) PROVE FALSE
    BY <1>a, <1>b, <2>1 DEF Finalises, TypeOK
  <2>2. StartSlotManager(m) \/ Proceeds(m) \/ ToCollect(m) => history' = history
    BY DEF StartSlotManager, Proceeds, ToCollect
  <2> QED
    BY <1>a, <1>b, <2>1, <2>2, NodeMoves
<1>3. SeedOf(m)' = SeedOf(m)
  BY <1>2, <1>b DEF SeedOf
<1>4. ASSUME NEW p, p.slot = slot[m]
      PROVE  p \in KnownIn(S, proposals', batchNet') <=> p \in KnownIn(S, proposals, batchNet)
  <2>1. p.slot >= OpenSlot(m)'
    BY <1>4, <1>b
  <2> QED
    BY <1>4, <2>1, SurvivorsShareBatches DEF InStep
<1>5. \A p : ValidProposal(p, slot[m], SeedOf(m), Common(m)) => p.slot = slot[m]
  BY DEF ValidProposal
<1>6. ChoicesIn(S, m)' = {p \in KnownIn(S, proposals', batchNet') :
                            ValidProposal(p, slot[m], SeedOf(m), Common(m))}
  BY <1>1, <1>3, <1>b DEF ChoicesIn, KnownIn
<1> QED
  BY <1>b, <1>4, <1>5, <1>6 DEF ChoicesIn

\* Survivors that are about to finalise the same slot have the same choice.
LEMMA SurvivorsSameChoices ==
  ASSUME Standing, NEW S \in SUBSET Nodes, S = Survivors, InStep(S),
         NEW n \in S, NEW m \in S,
         phase[n] = "PROPOSE", phase[m] = "PROPOSE", slot[n] = slot[m]
  PROVE  ChoicesIn(S, n) = ChoicesIn(S, m)
<1>a. TypeOK /\ slot[n] \in Nat
  BY DEF Standing, FaultTypeOK, TypeOK
<1>1. ASSUME NEW i \in S, NEW j \in S, phase[i] = "PROPOSE", phase[j] = "PROPOSE", slot[i] = slot[j],
             NEW d \in digests[i], d.slot = slot[i]
      PROVE  d \in digests[j]
  <2>1. d \in KnownIn(S, digests, digestNet)
    BY <1>1 DEF KnownIn
  <2>2. Open[j] = slot[j] /\ slot[j] \in Nat
    BY <1>a, <1>1 DEF Open, OpenSlot, TypeOK
  <2>3. d.slot >= Open[j]
    BY <1>1, <2>2
  <2>4. Reaches(digests, digestNet, j, d)
    BY <2>1, <2>3 DEF InStep, Spread
  <2>5. \A e \in digestNet : e.to = j => e.body.slot # slot[j]
    BY <1>1 DEF InStep, Quiet
  <2> QED
    BY <1>1, <2>4, <2>5 DEF Reaches
<1>2. DigestsOf(digests[n], slot[n]) = DigestsOf(digests[m], slot[m])
  BY <1>1 DEF DigestsOf
<1>3. Common(n) = Common(m)
  BY <1>2 DEF Common, CommonSubset, TxCount
<1>4. PrevRoot(history[n], slot[n]) = PrevRoot(history[m], slot[n])
  <2>1. DOMAIN history[n] = 0 .. slot[n] - 1 /\ DOMAIN history[m] = 0 .. slot[n] - 1
    BY DEF Standing, FromSlot0, OpenSlot
  <2>2. \A i \in DOMAIN history[n] \cap DOMAIN history[m] : history[n][i] = history[m][i]
    BY DEF InStep, AgreementIn
  <2>3. DOMAIN history[n] \subseteq Nat /\ DOMAIN history[m] \subseteq Nat
    BY <1>a DEF TypeOK
  <2> QED
    BY <1>a, <2>1, <2>2, <2>3, SamePrevRoot
<1>5. SeedOf(n) = SeedOf(m)
  BY <1>4 DEF SeedOf
<1> QED
  BY <1>3, <1>5 DEF ChoicesIn

\* A survivor that finalises has before it all there is to choose from.
LEMMA SurvivorFinalises ==
  ASSUME Standing, SurvivorProposalsTimely, NEW S \in SUBSET Nodes, S = Survivors, InStep(S),
         NEW n \in S, NEW b, Finalises(n, b)
  PROVE  IsDecision(b, slot[n], ChoicesIn(S, n))
<1>a. TypeOK /\ slot[n] \in Nat
  BY DEF Standing, FaultTypeOK, TypeOK
<1>1. phase[n] = "PROPOSE" /\ Enters(n, "FINALIZE")
  BY <1>a DEF Finalises, Enters, TypeOK
<1>2. \A m \in batchNet : m.to = n => m.body.slot # slot[n]
  BY <1>1 DEF SurvivorProposalsTimely
<1>3. proposals[n] \subseteq KnownIn(S, proposals, batchNet)
  BY DEF KnownIn
<1>4. ASSUME NEW p \in KnownIn(S, proposals, batchNet), p.slot = slot[n] PROVE p \in proposals[n]
  <2>1. Open[n] = slot[n]
    BY <1>1 DEF Open, OpenSlot
  <2>2. Reaches(proposals, batchNet, n, p)
    BY <1>a, <1>4, <2>1 DEF InStep, Spread
  <2> QED
    BY <1>2, <1>4, <2>2 DEF Reaches
<1>5. \A p : ValidProposal(p, slot[n], SeedOf(n), Common(n)) => p.slot = slot[n]
  BY DEF ValidProposal
<1>6. Valid(n) = ChoicesIn(S, n)
  BY <1>3, <1>4, <1>5 DEF Valid, ChoicesIn
<1> QED
  BY <1>6 DEF Finalises, IsDecision

\* Nobody changes what a survivor has to choose from once another has chosen.
LEMMA VerdictsKept ==
  ASSUME LastStart < Genesis + BaseDelta, Standing, FaultTypeOK', Ordinary, SurvivorProposalsTimely,
         NEW S \in SUBSET Nodes, S = Survivors, InStep(S)
  PROVE  VerdictsIn(S)'
<1>a. TypeOK /\ [Next]_vars
  BY DEF Standing, FaultTypeOK, Ordinary
<1> SUFFICES ASSUME NEW n \in S, NEW m \in S, phase'[m] = "PROPOSE", slot'[m] \in DOMAIN history'[n]
             PROVE  IsDecision(history'[n][slot'[m]], slot'[m], ChoicesIn(S, m)')
  BY DEF VerdictsIn
<1>b. /\ slot'[m] = slot[m] /\ phase[m] \in {"SYNC", "PROPOSE"} /\ slot[m] \in Nat
      /\ OpenSlot(m) = slot[m] /\ n \in Nodes /\ m \in Nodes
  BY SurvivorMoves DEF OpenSlot
<1>c. DOMAIN history[n] = 0 .. OpenSlot(n) - 1 /\ OpenSlot(n) \in Nat
  BY SurvivorMoves
\* A slot that a survivor has just gone to PROPOSE in is finalised by none.
<1>1. CASE phase[m] = "SYNC"
  <2>1. Enters(m, "PROPOSE")
    BY <1>1 DEF Enters
  <2>2. OpenSlot(n) <= slot[m]
    BY <1>b, <2>1 DEF SurvivorProposalsTimely
  <2>3. slot[m] \notin DOMAIN history[n]
    BY <1>b, <1>c, <2>2
  <2>4. PICK b : Finalises(n, b)
    BY <1>a, <1>b, <2>3, WhatIsFinal
  <2>5. phase[n] = "PROPOSE" /\ phase' = [phase EXCEPT ![n] = "FINALIZE"]
    BY <2>4 DEF Finalises
  <2> QED
    BY <1>1, <1>a, <1>b, <2>5 DEF TypeOK
<1>2. CASE phase[m] = "PROPOSE"
  \* Nobody goes to PROPOSE of a slot that a survivor has finalised.
  <2>1. ASSUME slot[m] \in DOMAIN history[n] PROVE ChoicesIn(S, m)' = ChoicesIn(S, m)
    <3>1. OpenSlot(n) > slot[m]
      BY <1>b, <1>c, <2>1
    <3>2. \A k \in Nodes : Enters(k, "PROPOSE") => slot[k] # slot[m]
      BY <1>b, <1>c, <3>1 DEF SurvivorProposalsTimely
    <3> QED
      BY <1>2, <3>2, SurvivorChoicesKept
  <2>2. CASE slot[m] \in DOMAIN history[n] /\ history'[n][slot[m]] = history[n][slot[m]]
    BY <1>2, <1>b, <2>1, <2>2 DEF InStep, VerdictsIn
  <2>3. ASSUME NEW b, Finalises(n, b), slot[m] = slot[n], history'[n][slot[m]] = b
        PROVE  IsDecision(history'[n][slot'[m]], slot'[m], ChoicesIn(S, m)')
    <3>1. phase[n] = "PROPOSE" /\ phase' = [phase EXCEPT ![n] = "FINALIZE"]
      BY <2>3 DEF Finalises
    <3>2. \A k \in Nodes : ~Enters(k, "PROPOSE")
      BY <1>a, <3>1 DEF Enters, TypeOK
    <3>3. ChoicesIn(S, m)' = ChoicesIn(S, m)
      BY <1>2, <3>2, SurvivorChoicesKept
    <3>4. IsDecision(b, slot[n], ChoicesIn(S, n))
      BY <2>3, SurvivorFinalises
    <3>5. ChoicesIn(S, n) = ChoicesIn(S, m)
      BY <1>2, <2>3, <3>1, SurvivorsSameChoices
    <3> QED
      BY <1>b, <2>3, <3>3, <3>4, <3>5
  <2> QED
    BY <1>a, <1>b, <2>2, <2>3, WhatIsFinal
<1> QED
  BY <1>b, <1>1, <1>2

\* A survivor that finalises a slot later than others decides as they did.
LEMMA SurvivorsAgreementKept ==
  ASSUME LastStart < Genesis + BaseDelta, OutputsAreNumbers,
         Standing, FaultTypeOK', Ordinary, SurvivorProposalsTimely,
         NEW S \in SUBSET Nodes, S = Survivors, InStep(S)
  PROVE  AgreementIn(S)'
<1>a. TypeOK /\ [Next]_vars
  BY DEF Standing, FaultTypeOK, Ordinary
\* A survivor that finalises a slot decides as whoever of them has finalised it.
<1>1. ASSUME NEW n \in S, NEW b, Finalises(n, b), NEW m \in S, slot[n] \in DOMAIN history[m]
      PROVE  history[m][slot[n]] = b
  <2>1. phase[n] = "PROPOSE" /\ slot[n] \in Nat
    BY <1>1, <1>a DEF Finalises, TypeOK
  <2>2. IsDecision(history[m][slot[n]], slot[n], ChoicesIn(S, n))
    BY <1>1, <2>1 DEF InStep, VerdictsIn
  <2>3. IsDecision(b, slot[n], ChoicesIn(S, n))
    BY <1>1, SurvivorFinalises
  <2> DEFINE r == PrevRoot(history[n], slot[n])
             c == history[m][slot[n]]
             V == ChoicesIn(S, n)
  <2>4. \A p \in V : Shaped(p) /\ ValidProposal(p, slot[n], Seed(r, slot[n]), Common(n))
    <3>1. V \subseteq AllBatches
      BY <1>a, KnownTyped DEF ChoicesIn
    <3> QED
      BY <3>1 DEF ChoicesIn, SeedOf, Standing, NothingTwice
  <2>5. IsDecision(b, slot[n], V) /\ IsDecision(c, slot[n], V)
    BY <2>2, <2>3
  <2> HIDE DEF r, c, V
  <2>6. c = b
    BY <2>1, <2>4, <2>5, OneDecision
  <2> QED
    BY <2>6 DEF c
<1>2. SUFFICES ASSUME NEW n \in S, NEW m \in S, NEW s \in DOMAIN history'[n] \cap DOMAIN history'[m]
               PROVE  history'[n][s] = history'[m][s]
  BY DEF AgreementIn
<1>3. \/ s \in DOMAIN history[n] /\ history'[n][s] = history[n][s]
      \/ \E b : Finalises(n, b) /\ s = slot[n] /\ history'[n][s] = b
  BY <1>a, WhatIsFinal
<1>4. \/ s \in DOMAIN history[m] /\ history'[m][s] = history[m][s]
      \/ \E b : Finalises(m, b) /\ s = slot[m] /\ history'[m][s] = b
  BY <1>a, WhatIsFinal
<1>5. ASSUME NEW b, Finalises(n, b), NEW c, Finalises(m, c) PROVE n = m
  BY <1>5, <1>a DEF Finalises, TypeOK
<1>6. s \in DOMAIN history[n] \cap DOMAIN history[m] => history[n][s] = history[m][s]
  BY DEF InStep, AgreementIn
<1> QED
  BY <1>1, <1>3, <1>4, <1>5, <1>6

\* The survivors stay in step when nobody crashes or returns.
LEMMA InStepOrdinary ==
  ASSUME LastStart < Genesis + BaseDelta, OutputsAreNumbers, Standing, FaultTypeOK', Ordinary,
         SurvivorDigestsTimely, SurvivorProposalsTimely,
         NEW S \in SUBSET Nodes, S = Survivors, InStep(S)
  PROVE  InStep(S)'
<1>1. Quiet(S)'
  BY QuietKept DEF InStep
<1>2. Spread(S, digests, digestNet, Open)'
  BY SurvivorsShareDigests DEF InStep
<1>3. Spread(S, proposals, batchNet, Open)'
  BY SurvivorsShareBatches DEF InStep
<1>4. Stragglers(S)'
  BY StragglersKept DEF InStep
<1> QED
  BY <1>1, <1>2, <1>3, <1>4, VerdictsKept, SurvivorsAgreementKept DEF InStep

\* Nor does anything change for them in a step that is aside.
LEMMA InStepAside ==
  ASSUME Aside, NEW S, InStep(S)
  PROVE  InStep(S)'
<1>1. UNCHANGED <<slot, phase, digests, proposals, history, digestNet, batchNet>>
  BY DEF Aside, clockVars, nets
<1>2. Open' = Open
  BY <1>1 DEF Open, OpenSlot
<1>3. Quiet(S)' /\ Stragglers(S)' /\ AgreementIn(S)'
  BY <1>1 DEF InStep, Quiet, Stragglers, AgreementIn, OpenSlot
<1>4. \A m : ChoicesIn(S, m)' = ChoicesIn(S, m)
  BY <1>1 DEF ChoicesIn, KnownIn, SeedOf, Common
<1>5. VerdictsIn(S)'
  BY <1>1, <1>4 DEF InStep, VerdictsIn
<1> QED
  BY <1>1, <1>2, <1>3, <1>5 DEF InStep

\* Survivors that nothing has happened to stay in step, if what they share still gets to
\* them all and those that decide have the same choice.
LEMMA FewerInStep ==
  ASSUME NEW S, InStep(S), NEW T, T \subseteq S, T \subseteq Nodes,
         \A k \in T : /\ slot'[k] = slot[k] /\ phase'[k] = phase[k] /\ history'[k] = history[k]
                      /\ OpenSlot(k)' = OpenSlot(k),
         digestNet' \subseteq digestNet, batchNet' \subseteq batchNet,
         Spread(T, digests', digestNet', Open), Spread(T, proposals', batchNet', Open),
         \A n, m \in T : phase[m] = "PROPOSE" /\ slot[m] \in DOMAIN history[n] =>
           ChoicesIn(T, m)' = ChoicesIn(S, m)
  PROVE  InStep(T)'
<1>a. \A k \in T : Open'[k] = Open[k]
  BY DEF Open
<1>1. Quiet(T)'
  BY DEF InStep, Quiet
<1>2. Spread(T, digests', digestNet', Open') /\ Spread(T, proposals', batchNet', Open')
  BY <1>a DEF Spread
<1>3. Stragglers(T)'
  BY DEF InStep, Stragglers
<1>4. VerdictsIn(T)'
  <2> SUFFICES ASSUME NEW n \in T, NEW m \in T, phase'[m] = "PROPOSE", slot'[m] \in DOMAIN history'[n]
               PROVE  IsDecision(history'[n][slot'[m]], slot'[m], ChoicesIn(T, m)')
    BY DEF VerdictsIn
  <2> QED
    BY DEF InStep, VerdictsIn
<1>5. AgreementIn(T)'
  BY DEF InStep, AgreementIn
<1> QED
  BY <1>1, <1>2, <1>3, <1>4, <1>5 DEF InStep

\* What a crash loses of a slot that some have settled, no survivor was waiting for.
LEMMA ChoicesSurvive ==
  ASSUME Standing, NEW S \in SUBSET Nodes, S = Survivors, InStep(S), NEW x \in S,
         NEW lost \in SUBSET InFlight(batchNet, x), ~Splits(lost),
         NEW n \in S \ {x}, NEW m \in S \ {x}, phase[m] = "PROPOSE", slot[m] \in DOMAIN history[n],
         NEW p \in KnownIn(S, proposals, batchNet), p.slot = slot[m]
  PROVE  p \in proposals[m] \/ \E e \in batchNet \ lost : e.to = m /\ e.body = p
<1>a. TypeOK /\ n \in Nodes /\ m \in Nodes /\ slot[m] \in Nat
  BY DEF Standing, FaultTypeOK, TypeOK
<1>1. Open[m] = slot[m] /\ OpenSlot(m) = slot[m]
  BY <1>a DEF Open, OpenSlot
<1>2. OpenSlot(n) \in Nat /\ OpenSlot(n) > slot[m]
  <2>1. slot[m] \in 0 .. OpenSlot(n) - 1
    BY DEF Standing, FromSlot0
  <2>2. OpenSlot(n) \in Nat
    BY <1>a DEF OpenSlot, TypeOK
  <2> QED
    BY <1>a, <2>1, <2>2
<1>3. Reaches(proposals, batchNet, m, p)
  BY <1>a, <1>1 DEF InStep, Spread
<1>4. SUFFICES ASSUME NEW e \in lost, e.to = m, e.body = p PROVE FALSE
  BY <1>3 DEF Reaches, InFlight
<1>5. e \in batchNet /\ e.from = x /\ e = [body |-> e.body, from |-> e.from, to |-> e.to, at |-> e.at]
  BY DEF InFlight, Standing, Once
<1>6. n # m
  BY <1>1, <1>2, <1>a
<1>7. [e EXCEPT !.to = n] \in lost
  BY <1>a, <1>4, <1>5, <1>6 DEF Splits
<1>8. [e EXCEPT !.to = n].to = n /\ [e EXCEPT !.to = n].body = p
  BY <1>4, <1>5
<1>9. PICK f \in batchNet : f.to = n /\ f.body = p
  BY <1>7, <1>8 DEF InFlight
<1>10. OpenSlot(m) > slot[m]
  BY <1>2, <1>9 DEF InStep, Stragglers
<1> QED
  BY <1>a, <1>1, <1>10

\* The crash of a survivor leaves the others in step, unless it cuts a broadcast in two.
LEMMA InStepCrash ==
  ASSUME Standing, NEW S \in SUBSET Nodes, S = Survivors, InStep(S),
         NEW T \in SUBSET Nodes, T = Survivors', NEW x \in Nodes, Crash(x), ~split'
  PROVE  InStep(T)'
<1>1. x \in S /\ T = S \ {x}
  BY DEF Crash, Survivors
<1>2. \A k \in T : /\ slot'[k] = slot[k] /\ phase'[k] = phase[k] /\ history'[k] = history[k]
                   /\ OpenSlot(k)' = OpenSlot(k) /\ digests'[k] = digests[k]
                   /\ proposals'[k] = proposals[k]
  BY SurvivorsApart DEF Standing
<1>3. PICK d \in SUBSET InFlight(digestNet, x) : digestNet' = digestNet \ d /\ ~Splits(d)
  BY DEF Crash
<1>4. PICK b \in SUBSET InFlight(batchNet, x) : batchNet' = batchNet \ b /\ ~Splits(b)
  BY DEF Crash
<1>c. Spread(S, digests, digestNet, Open) /\ Spread(S, proposals, batchNet, Open)
  BY DEF InStep
<1>d. Once(digests, digestNet) /\ Once(proposals, batchNet)
  BY DEF Standing
<1>e. \A k \in S \ {x} : digests'[k] = digests[k] /\ proposals'[k] = proposals[k]
  BY <1>1, <1>2
<1>5. Spread(T, digests', digestNet', Open)
  <2>1. Spread(S \ {x}, digests', digestNet \ d, Open)
    BY <1>3, <1>c, <1>d, <1>e, SpreadLose
  <2> QED
    BY <1>1, <1>3, <2>1
<1>6. /\ Spread(T, proposals', batchNet', Open)
      /\ KnownIn(T, proposals', batchNet') \subseteq KnownIn(S, proposals, batchNet)
  <2>1. /\ Spread(S \ {x}, proposals', batchNet \ b, Open)
        /\ KnownIn(S \ {x}, proposals', batchNet \ b) \subseteq KnownIn(S, proposals, batchNet)
    BY <1>4, <1>c, <1>d, <1>e, SpreadLose
  <2> QED
    BY <1>1, <1>4, <2>1
<1>7. ASSUME NEW n \in T, NEW m \in T, phase[m] = "PROPOSE", slot[m] \in DOMAIN history[n]
      PROVE  ChoicesIn(T, m)' = ChoicesIn(S, m)
  <2>1. Common(m)' = Common(m) /\ SeedOf(m)' = SeedOf(m) /\ slot'[m] = slot[m]
    BY <1>2 DEF Common, SeedOf
  <2>2. ASSUME NEW p \in KnownIn(S, proposals, batchNet), p.slot = slot[m]
        PROVE  p \in KnownIn(T, proposals', batchNet')
    <3>1. p \in proposals[m] \/ \E e \in batchNet \ b : e.to = m /\ e.body = p
      BY <1>1, <1>4, <1>7, <2>2, ChoicesSurvive
    <3>2. p \in proposals'[m] \/ \E e \in batchNet' : e.to = m /\ e.body = p
      BY <1>2, <1>4, <3>1
    <3> QED
      BY <3>2 DEF KnownIn
  <2>3. \A p : ValidProposal(p, slot[m], SeedOf(m), Common(m)) => p.slot = slot[m]
    BY DEF ValidProposal
  <2>4. ChoicesIn(T, m)' = {p \in KnownIn(T, proposals', batchNet') :
                              ValidProposal(p, slot[m], SeedOf(m), Common(m))}
    BY <2>1 DEF ChoicesIn, KnownIn
  <2> QED
    BY <1>6, <2>2, <2>3, <2>4 DEF ChoicesIn
<1>8. digestNet' \subseteq digestNet /\ batchNet' \subseteq batchNet /\ T \subseteq S
  BY <1>1, <1>3, <1>4
<1> QED
  BY <1>2, <1>5, <1>6, <1>7, <1>8, FewerInStep

\* A node that returns takes nothing from the survivors.
LEMMA InStepRelaunch ==
  ASSUME Standing, NEW S \in SUBSET Nodes, S = Survivors, InStep(S), NEW x \in Nodes, Relaunch(x)
  PROVE  InStep(S)'
<1>a. TypeOK
  BY DEF Standing, FaultTypeOK
<1>1. x \notin S /\ S = Survivors'
  BY DEF Standing, Down, Relaunch, Survivors
<1>2. \A k \in S : /\ slot'[k] = slot[k] /\ phase'[k] = phase[k] /\ history'[k] = history[k]
                   /\ OpenSlot(k)' = OpenSlot(k)
  BY <1>1, SurvivorsApart DEF Standing
<1>3. /\ digests' = digests /\ proposals' = proposals
      /\ digestNet' \subseteq digestNet /\ batchNet' \subseteq batchNet
      /\ \A m \in digestNet \ digestNet' : m.to \notin S
      /\ \A m \in batchNet \ batchNet' : m.to \notin S
  BY <1>1 DEF Relaunch, NotTo
<1>4. KnownIn(S, proposals', batchNet') = KnownIn(S, proposals, batchNet)
  BY <1>3 DEF KnownIn
<1>5. \A n \in S : \A b : /\ Reaches(digests, digestNet, n, b) => Reaches(digests', digestNet', n, b)
                          /\ Reaches(proposals, batchNet, n, b) => Reaches(proposals', batchNet', n, b)
  BY <1>3 DEF Reaches
<1>6. KnownIn(S, digests', digestNet') = KnownIn(S, digests, digestNet)
  BY <1>3 DEF KnownIn
<1>7. Spread(S, digests', digestNet', Open) /\ Spread(S, proposals', batchNet', Open)
  BY <1>4, <1>5, <1>6 DEF InStep, Spread
<1>8. ASSUME NEW m \in S PROVE ChoicesIn(S, m)' = ChoicesIn(S, m)
  <2>1. Common(m)' = Common(m) /\ SeedOf(m)' = SeedOf(m) /\ slot'[m] = slot[m]
    BY <1>2, <1>3 DEF Common, SeedOf
  <2> QED
    BY <1>4, <2>1 DEF ChoicesIn, KnownIn
<1> QED
  BY <1>2, <1>3, <1>7, <1>8, FewerInStep

\* The survivors are in step as long as no crash has cut a broadcast in two.
Together == ~split => \A S \in SUBSET Nodes : S = Survivors => InStep(S)

\* To begin with nobody knows of anything.
LEMMA TogetherInit == ASSUME FaultInit PROVE Together
<1> SUFFICES ASSUME NEW S \in SUBSET Nodes PROVE InStep(S)
  BY DEF Together
<1>1. DOMAIN <<>> = {}
  OBVIOUS
<1>2. /\ \A n \in S : digests[n] = {} /\ proposals[n] = {} /\ DOMAIN history[n] = {}
      /\ digestNet = {} /\ batchNet = {}
  BY <1>1 DEF FaultInit, Init
<1>3. KnownIn(S, digests, digestNet) = {} /\ KnownIn(S, proposals, batchNet) = {}
  BY <1>2 DEF KnownIn
<1>4. Spread(S, digests, digestNet, Open) /\ Spread(S, proposals, batchNet, Open)
  BY <1>3 DEF Spread
<1>5. Quiet(S) /\ Stragglers(S) /\ VerdictsIn(S) /\ AgreementIn(S)
  BY <1>2 DEF Quiet, Stragglers, VerdictsIn, AgreementIn
<1> QED
  BY <1>4, <1>5 DEF InStep

\* No step puts the survivors out of step.
LEMMA TogetherInductive ==
  ASSUME LastStart < Genesis + BaseDelta, OutputsAreNumbers, Standing, FaultTypeOK', Together,
         [FaultNext]_<<vars, faultVars>>,
         [~split => SurvivorDigestsTimely]_<<vars, faultVars>>,
         [~split => SurvivorProposalsTimely]_<<vars, faultVars>>
  PROVE  Together'
<1> SUFFICES ASSUME ~split', NEW T \in SUBSET Nodes, T = Survivors' PROVE InStep(T)'
  BY DEF Together
<1>a. FaultTypeOK
  BY DEF Standing
<1>1. PICK S \in SUBSET Nodes : S = Survivors
  BY DEF Survivors
<1>2. Ordinary \/ Aside => T = S /\ ~split
  BY <1>1 DEF Ordinary, Aside, Survivors
<1>3. CASE Aside
  BY <1>1, <1>2, <1>3, InStepAside DEF Together
<1>4. CASE Ordinary /\ ~Aside
  <2>1. ~UNCHANGED <<vars, faultVars>>
    BY <1>4 DEF Aside, vars, faultVars, clockVars, nets
  <2>2. SurvivorDigestsTimely /\ SurvivorProposalsTimely
    BY <1>2, <1>4, <2>1
  <2> QED
    BY <1>1, <1>2, <1>4, <2>2, InStepOrdinary DEF Together
<1>5. ASSUME NEW x \in Nodes, Crash(x) PROVE InStep(T)'
  <2>1. ~split
    BY <1>5 DEF Crash
  <2> QED
    BY <1>1, <1>5, <2>1, InStepCrash DEF Together
<1>6. ASSUME NEW x \in Nodes, Relaunch(x) PROVE InStep(T)'
  <2>1. ~split /\ T = S
    BY <1>1, <1>6 DEF Relaunch, Survivors
  <2> QED
    BY <1>1, <1>6, <2>1, InStepRelaunch DEF Together
<1> QED
  BY <1>a, <1>3, <1>4, <1>5, <1>6, FaultSteps

\* Whoever crashes and comes back, and whatever is lost with it, the nodes that have
\* not crashed agree slot by slot, unless a crash has cut a broadcast in two, if the
\* timetable gives their digests and proposals their time, the nodes start in slot 0
\* and a node that returns does not start before the cutoff of the slot it was
\* launched in.
THEOREM SurvivorsAgreeCorrect ==
  ASSUME LastStart < Genesis + BaseDelta, Epsilon <= RestartWait, OutputsAreNumbers
  PROVE  FaultSpec /\ SurvivorDigestsInTime /\ SurvivorProposalsInTime => []SurvivorsAgree
<1>1. FaultInit => Standing /\ Together
  BY StandingInit, TogetherInit
<1>2. Standing /\ [FaultNext]_<<vars, faultVars>> => Standing'
  BY StandingInductive
<1>3. Standing /\ FaultTypeOK' /\ Together /\ [FaultNext]_<<vars, faultVars>>
        /\ [~split => SurvivorDigestsTimely]_<<vars, faultVars>>
        /\ [~split => SurvivorProposalsTimely]_<<vars, faultVars>> => Together'
  BY TogetherInductive
<1>4. Together => SurvivorsAgree
  <2> SUFFICES ASSUME ~split, \A S \in SUBSET Nodes : S = Survivors => InStep(S)
               PROVE  SurvivorsAgree
    BY DEF Together, SurvivorsAgree
  <2>1. PICK S \in SUBSET Nodes : S = Survivors
    BY DEF Survivors
  <2>2. AgreementIn(S)
    BY <2>1 DEF InStep
  <2> QED
    BY <2>1, <2>2 DEF AgreementIn, SurvivorsAgree
<1> QED
  BY <1>1, <1>2, <1>3, <1>4, FaultTypeCorrect, PTL
  DEF FaultSpec, SurvivorDigestsInTime, SurvivorProposalsInTime

-------------------------------------------------------------------------------
\* The survivors' promises to their clients.

\* A digest under way comes from the node whose vote it is.
Signed == \A m \in digestNet : m.from = m.body.nodeId

\* A transaction is under way to a node that is up for MaxDelay at most.
PromptToUp == \A m \in txNet : m.to \in up => now <= m.at + MaxDelay

\* What the promises rest on whatever a crash cuts.
Footing == AllOnTime /\ Signed /\ PromptToUp /\ Cardinality(crashed) <= MaxCrashes

\* The answers with which a node of S has accepted a transaction.
Accepted(S) == {r \in replies : r.status = 200 /\ r.node \in S}

\* The digests of S list what S has promised for their slot and not included yet.
VotesIn(S) ==
  \A d \in KnownIn(S, digests, digestNet) :
    d.nodeId \in S => \A r \in Accepted(S) : VotesFor(d, r)

\* Whoever in S has voted is heard as long as one in S has the slot open.
HeardIn(S) ==
  \A n, k \in S : \A s \in Nat :
    s >= OpenSlot(n) /\ HasVoted(k, s) =>
      \E d \in KnownIn(S, digests, digestNet) : d.slot = s /\ d.nodeId = k

\* The transaction of answer r is under way to n, from the node that has accepted it.
ComingFrom(n, r) ==
  \E m \in txNet : m.to = n /\ m.from = r.node /\ m.body = r.tx /\ m.at = r.at

\* Every node of S has what S has accepted, or gets it, or has included it.
ReachedIn(S) ==
  \A r \in Accepted(S), n \in S : Included(n, r.tx) \/ ComingFrom(n, r) \/ Filed(n, r)

\* The promise: in a slot that is not skipped, from the promised one on, it is included.
IncludedIn(S) ==
  \A r \in Accepted(S), n \in S : \A s \in DOMAIN history[n] :
    s >= PromisedSlot(r.at) /\ history[n][s].proposer # SKIP => Included(n, r.tx)

\* The inductive invariant behind the survivors' promises.
Served(S) == VotesIn(S) /\ HeardIn(S) /\ ReachedIn(S) /\ IncludedIn(S)

\* Every digest under way stays the vote of the node it comes from.
LEMMA SignedInductive ==
  ASSUME Standing, Signed, [FaultNext]_<<vars, faultVars>>
  PROVE  Signed'
<1>a. FaultTypeOK
  BY DEF Standing
<1>1. CASE digestNet' \subseteq digestNet
  BY <1>1 DEF Signed
<1>2. ASSUME NEW n \in Nodes, NEW c, VotesNow(n, c) PROVE Signed'
  <2>1. digestNet' = digestNet \cup Publish(n, c) /\ c.nodeId = n
    BY <1>2 DEF VotesNow, Publishes
  <2>2. \A m \in Publish(n, c) : m.from = n /\ m.body = c
    BY DEF Publish
  <2> QED
    BY <2>1, <2>2 DEF Signed
<1>3. CASE Ordinary
  BY <1>1, <1>2, <1>3, OrdinaryDigests DEF Trims, Delivers
<1>4. ASSUME Aside \/ \E x \in Nodes : Crash(x) \/ Relaunch(x) PROVE digestNet' \subseteq digestNet
  BY <1>a, <1>4, FaultsCost DEF Fewer
<1> QED
  BY <1>a, <1>1, <1>3, <1>4, FaultSteps

\* The clock waits for what is under way to a node that is up.
LEMMA PromptToUpInductive ==
  ASSUME FaultTypeOK, PromptToUp, [FaultNext]_<<vars, faultVars>>
  PROVE  PromptToUp'
<1>a. TypeOK /\ up \subseteq Nodes /\ now \in Nat /\ MaxDelay \in Nat
  BY SequencerAssumption DEF FaultTypeOK, TypeOK
<1>1. ASSUME now' = now, up' \subseteq up, \A m \in txNet' : m \in txNet \/ m.at = now
      PROVE  PromptToUp'
  BY <1>1, <1>a DEF PromptToUp
<1>2. ASSUME NEW n \in up, Works(n), UNCHANGED <<up, launched, crashed, split, replies>>
      PROVE  now' = now /\ \A m \in txNet' : m \in txNet \/ m.at = now
  <2> USE DEF nets
  <2>1. now' = now /\ txNet' \subseteq txNet
    BY <1>2
    DEF Works, StartAgain, StartSlotManager, ToFreeze, ToSync, ToPropose, ToCollect, Leaves,
        FinalizeWinner, FinalizeSkip, FinalizeEmergency, FinishFinalize, Skip,
        OnTx, OnDigest, OnBatch, OnLateBatch, OnMempoolSync
  <2> QED
    BY <2>1
<1>3. ASSUME NEW n \in up, Serves(n)
      PROVE  now' = now /\ \A m \in txNet' : m \in txNet \/ m.at = now
  <2>1. ASSUME NEW tx \in Txs, Submit(n, tx)
        PROVE  now' = now /\ \A m \in txNet' : m \in txNet \/ m.at = now
    BY <2>1 DEF Submit, Publish
  <2>2. ASSUME NEW tx \in Txs, SubmitThrows(n, tx) PROVE now' = now /\ txNet' = txNet
    BY <2>2 DEF SubmitThrows, nets
  <2> QED
    BY <1>3, <2>1, <2>2 DEF Serves
<1>4. ASSUME NEW x \in Nodes, Crash(x) PROVE PromptToUp'
  BY <1>1, <1>4 DEF Crash
<1>5. ASSUME NEW x \in Nodes, Relaunch(x) PROVE PromptToUp'
  <2> SUFFICES ASSUME NEW m \in txNet', m.to \in up' PROVE now' <= m.at + MaxDelay
    BY DEF PromptToUp
  <2>1. m \in txNet /\ m.to # x /\ up' = up \cup {x} /\ now' = now
    BY <1>5 DEF Relaunch, NotTo
  <2> QED
    BY <2>1 DEF PromptToUp
<1>6. CASE TickWithFaults /\ UNCHANGED faultVars
  <2> SUFFICES ASSUME NEW m \in txNet', m.to \in up' PROVE now' <= m.at + MaxDelay
    BY DEF PromptToUp
  <2>1. m \in txNet /\ m.to \in up /\ now' = now + 1
    BY <1>6 DEF TickWithFaults, faultVars, nets
  <2>2. now < m.at + MaxDelay
    BY <1>6, <2>1 DEF TickWithFaults, InTime, To
  <2>3. m.at \in Nat
    BY <1>a, <2>1 DEF TypeOK, Messages
  <2> QED
    BY <1>a, <2>1, <2>2, <2>3
<1>7. CASE UNCHANGED <<vars, faultVars>>
  BY <1>1, <1>7 DEF vars, nets, faultVars
<1> QED
  BY <1>1, <1>2, <1>3, <1>4, <1>5, <1>6, <1>7 DEF FaultNext, Horizon, vars, nets, faultVars

\* No node is ahead of the clock, nor does one get there by crashing.
LEMMA AllOnTimeStands ==
  ASSUME FaultTypeOK, FaultTypeOK', Down, AllOnTime, [FaultNext]_<<vars, faultVars>>
  PROVE  AllOnTime'
<1>a. TypeOK /\ TypeOK'
  BY DEF FaultTypeOK
<1>1. CASE Ordinary
  BY <1>a, <1>1, AllOnTimeInductive DEF Ordinary
<1> SUFFICES ASSUME NEW k \in Nodes, ~Ordinary PROVE OnTime(k)'
  BY <1>1 DEF AllOnTime
<1>b. now \in Nat /\ now' \in Nat /\ OnTime(k) /\ slot[k] \in Nat
  BY <1>a DEF AllOnTime, TypeOK
<1>c. Start(Genesis, slot[k]) \in Int /\ Start(Genesis, slot[k] + 1) \in Int
  BY <1>b, StartsGrow
<1>2. ASSUME now' = now \/ now' = now + 1,
             running'[k] = running[k], slot'[k] = slot[k], phase'[k] = phase[k]
      PROVE  OnTime(k)'
  <2>1. /\ now >= Start(Genesis, slot[k]) => now' >= Start(Genesis, slot[k])
        /\ now >= Start(Genesis, slot[k] + 1) => now' >= Start(Genesis, slot[k] + 1)
    BY <1>2, <1>b, <1>c
  <2> QED
    BY <1>2, <1>b, <2>1 DEF OnTime
<1>3. CASE Aside
  BY <1>2, <1>3 DEF Aside, clockVars
<1>4. ASSUME NEW x \in Nodes, Crash(x) \/ Relaunch(x) PROVE OnTime(k)'
  <2>1. CASE k = x
    <3>1. ~running'[k]
      BY <1>4, <1>a, <2>1 DEF Crash, Relaunch, Down, TypeOK
    <3> QED
      BY <3>1 DEF OnTime
  <2>2. CASE k # x
    <3>1. CASE Crash(x)
      BY <1>2, <1>a, <2>2, <3>1 DEF Crash, TypeOK
    <3>2. CASE Relaunch(x)
      BY <1>2, <1>a, <2>2, <3>2 DEF Relaunch, TypeOK
    <3> QED
      BY <1>4, <3>1, <3>2
  <2> QED
    BY <2>1, <2>2
<1> QED
  BY <1>3, <1>4, FaultSteps

\* No more nodes crash than may.
LEMMA FewCrash ==
  ASSUME FaultTypeOK, Cardinality(crashed) <= MaxCrashes, [FaultNext]_<<vars, faultVars>>
  PROVE  Cardinality(crashed') <= MaxCrashes
<1>1. IsFiniteSet(crashed) /\ Cardinality(crashed) \in Nat
  <2>1. IsFiniteSet(crashed)
    BY FS_Subset, ConsensusAssumption DEF FaultTypeOK
  <2> QED
    BY <2>1, FS_CardinalityType
<1>2. ASSUME NEW x \in Nodes, Crash(x) PROVE Cardinality(crashed') <= MaxCrashes
  <2>1. crashed' = crashed \cup {x} /\ x \notin crashed /\ Cardinality(crashed) < MaxCrashes
    BY <1>2 DEF Crash
  <2>2. Cardinality(crashed') = Cardinality(crashed) + 1
    BY <1>1, <2>1, FS_AddElement
  <2> QED
    BY <1>1, <2>1, <2>2, FaultAssumption
<1>3. ASSUME NEW x \in Nodes, Relaunch(x) PROVE crashed' = crashed
  BY <1>3 DEF Relaunch
<1> QED
  BY <1>2, <1>3, FaultSteps DEF Ordinary, Aside

\* The footing holds from the beginning on.
LEMMA FootingInit ==
  ASSUME FaultInit
  PROVE  Footing
<1>1. Cardinality(crashed) <= MaxCrashes
  BY FS_EmptySet, FaultAssumption DEF FaultInit
<1> QED
  BY <1>1 DEF FaultInit, Init, Footing, AllOnTime, OnTime, Signed, PromptToUp

\* And through every step.
LEMMA FootingInductive ==
  ASSUME Standing, FaultTypeOK', Footing, [FaultNext]_<<vars, faultVars>>
  PROVE  Footing'
<1>1. FaultTypeOK /\ Down
  BY DEF Standing
<1> QED
  BY <1>1, SignedInductive, PromptToUpInductive, AllOnTimeStands, FewCrash DEF Footing

-------------------------------------------------------------------------------
\* The survivors' promises in a step without faults.

\* What a survivor has included it has included for good.
LEMMA SurvivorKeeps ==
  ASSUME LastStart < Genesis + BaseDelta, Standing, FaultTypeOK', Ordinary,
         NEW n \in Survivors, NEW tx
  PROVE  /\ Included(n, tx) => Included(n, tx)'
         /\ \A s : IncludedBefore(n, tx, s) => IncludedBefore(n, tx, s)'
<1>a. TypeOK /\ TypeOK' /\ [Next]_vars /\ n \in Nodes
  BY DEF Standing, FaultTypeOK, Ordinary, Survivors
<1>b. StartsInSlot0(n) /\ DOMAIN history[n] = 0 .. OpenSlot(n) - 1
  BY DEF Standing, FromSlot0
<1>c. /\ OpenSlot(n) \in Nat /\ OpenSlot(n)' \in Nat /\ OpenSlot(n)' >= OpenSlot(n)
  BY SurvivorMoves
<1>d. DOMAIN history'[n] = 0 .. OpenSlot(n)' - 1
  BY <1>a, <1>b, SteadyMoves
<1>1. ASSUME NEW t \in DOMAIN history[n]
      PROVE  t \in DOMAIN history'[n] /\ history'[n][t] = history[n][t]
  <2>1. t \in Nat /\ t < OpenSlot(n) /\ t \in DOMAIN history'[n]
    BY <1>b, <1>c, <1>d
  <2>2. ASSUME NEW b, Finalises(n, b) PROVE t # slot[n]
    <3>1. OpenSlot(n) = slot[n]
      BY <2>2 DEF Finalises, OpenSlot
    <3> QED
      BY <1>c, <2>1, <3>1
  <2> QED
    BY <1>a, <2>1, <2>2, WhatIsFinal
<1> QED
  BY <1>1 DEF Included, IncludedBefore

\* A survivor votes by entering SYNC.
LEMMA SurvivorVoteSteps ==
  ASSUME LastStart < Genesis + BaseDelta, Standing, Ordinary, NEW k \in Survivors, NEW s \in Nat,
         HasVoted(k, s)'
  PROVE  HasVoted(k, s) \/ (Enters(k, "SYNC") /\ s = slot[k])
<1>a. TypeOK /\ [Next]_vars /\ k \in Nodes /\ StartsInSlot0(k)
  BY DEF Standing, FaultTypeOK, Ordinary, Survivors, FromSlot0
<1>b. slot[k] \in Nat /\ phase[k] \in Phases
  BY <1>a DEF TypeOK
<1> DEFINE Goal == HasVoted(k, s) \/ (Enters(k, "SYNC") /\ s = slot[k])
<1>1. ASSUME slot'[k] = slot[k], phase'[k] = phase[k] PROVE Goal
  BY <1>1 DEF HasVoted
<1>2. CASE StartSlotManager(k)
  <2>1. now \in Nat /\ now < Genesis + BaseDelta
    <3>1. now \in Nat /\ now <= LastStart
      BY <1>a, <1>2 DEF StartSlotManager, StartsInSlot0, TypeOK
    <3> QED
      BY <3>1, SequencerAssumption, TimingAssumption
  <2>2. WallSlot(Genesis, now) = 0
    BY <2>1, WallSlot0
  <2>3. slot'[k] = slot[k] /\ phase'[k] = phase[k]
    BY <1>a, <1>2, <2>2 DEF StartSlotManager, StartsInSlot0, TypeOK
  <2> QED
    BY <1>1, <2>3
<1>3. CASE Proceeds(k)
  <2>1. /\ slot'[k] = slot[k] /\ phase[k] \in {"COLLECT", "FREEZE", "SYNC"}
        /\ phase'[k] = NextPhase[phase[k]]
    BY <1>a, <1>3 DEF Proceeds, TypeOK
  <2> QED
    BY <2>1 DEF HasVoted, Enters, NextPhase
<1>4. CASE ToCollect(k)
  <2>1. phase[k] = "FINALIZE" /\ phase'[k] = "COLLECT" /\ slot'[k] = slot[k] + 1
    BY <1>a, <1>4 DEF ToCollect, Leaves, NextPhase, TypeOK
  <2> QED
    BY <1>b, <2>1 DEF HasVoted
<1>5. ASSUME NEW b, Finalises(k, b) PROVE Goal
  <2>1. phase[k] = "PROPOSE" /\ phase'[k] = "FINALIZE" /\ slot'[k] = slot[k]
    BY <1>a, <1>5 DEF Finalises, TypeOK
  <2> QED
    BY <2>1 DEF HasVoted
<1> QED
  BY <1>1, <1>2, <1>3, <1>4, <1>5, <1>a, NodeMoves

\* A digest that gets known is one that is being published.
LEMMA NewlyKnown ==
  ASSUME Standing, Ordinary, NEW S \in SUBSET Nodes, Spread(S, digests, digestNet, Open),
         NEW d \in KnownIn(S, digests', digestNet'), d \notin KnownIn(S, digests, digestNet)
  PROVE  d.nodeId \in Nodes /\ VotesNow(d.nodeId, d)
<1>a. DOMAIN digests = Nodes
  BY DEF Standing, FaultTypeOK, TypeOK
<1>1. CASE Trims(digests, digestNet, digests', digestNet')
  BY <1>1 DEF Trims, KnownIn
<1>2. CASE Delivers(digests, digestNet, digests', digestNet')
  <2>1. PICK m \in digestNet : /\ m.to \in Nodes /\ digestNet' = digestNet \ {m}
                               /\ digests' = [digests EXCEPT ![m.to] = @ \cup {m.body}]
    BY <1>2 DEF Delivers
  <2>2. KnownIn(S, digests', digestNet') = KnownIn(S, digests, digestNet)
    BY <1>a, <2>1, SpreadDeliver
  <2> QED
    BY <2>2
<1>3. ASSUME NEW n \in Nodes, NEW c, VotesNow(n, c) PROVE d.nodeId \in Nodes /\ VotesNow(d.nodeId, d)
  <2>1. /\ digests' = [digests EXCEPT ![n] = @ \cup {c}] /\ digestNet' = digestNet \cup Publish(n, c)
        /\ c.nodeId = n
    BY <1>3 DEF VotesNow, Publishes
  <2>2. KnownIn(S, digests', digestNet') \subseteq KnownIn(S, digests, digestNet) \cup {c}
    BY <1>a, <2>1, SpreadPublish
  <2>3. d = c
    BY <2>2
  <2> QED
    BY <1>3, <2>1, <2>3
<1> QED
  BY <1>1, <1>2, <1>3, OrdinaryDigests

\* A vote stays known until all survivors have settled its slot.
LEMMA HeardOrdinary ==
  ASSUME LastStart < Genesis + BaseDelta, Standing, FaultTypeOK', Ordinary,
         NEW S \in SUBSET Nodes, S = Survivors, Spread(S, digests, digestNet, Open), HeardIn(S)
  PROVE  HeardIn(S)'
<1>a. TypeOK /\ [Next]_vars
  BY DEF Standing, FaultTypeOK, Ordinary
<1> SUFFICES ASSUME NEW n \in S, NEW k \in S, NEW s \in Nat, s >= OpenSlot(n)', HasVoted(k, s)'
             PROVE  \E d \in KnownIn(S, digests', digestNet') : d.slot = s /\ d.nodeId = k
  BY DEF HeardIn
<1>1. CASE HasVoted(k, s)
  <2>1. OpenSlot(n) \in Nat /\ OpenSlot(n)' \in Nat /\ OpenSlot(n)' >= OpenSlot(n)
    BY SurvivorMoves
  <2>2. s >= OpenSlot(n)
    BY <2>1
  <2>3. PICK d \in KnownIn(S, digests, digestNet) : d.slot = s /\ d.nodeId = k
    BY <1>1, <2>2 DEF HeardIn
  <2>4. d \in KnownIn(S, digests', digestNet')
    BY <2>3, SurvivorsShareDigests
  <2> QED
    BY <2>3, <2>4
<1>2. CASE Enters(k, "SYNC") /\ s = slot[k]
  <2>1. ToSync(k)
    BY <1>2, <1>a, EntersBy
  <2>2. PICK c : VotesNow(k, c)
    BY <2>1, SyncVotes
  <2>3. c \in digests'[k]
    BY <2>2, <1>a DEF VotesNow, Publishes, TypeOK
  <2>4. c.slot = s /\ c.nodeId = k
    BY <1>2, <2>2 DEF VotesNow
  <2> QED
    BY <2>3, <2>4 DEF KnownIn
<1> QED
  BY <1>1, <1>2, SurvivorVoteSteps

\* A transaction promised to a slot that is frozen is no longer under way to a survivor.
LEMMA NotComingLate ==
  ASSUME FaultTypeOK, Down, PromptToUp, NEW n \in Survivors, NEW r \in replies,
         NEW s \in Nat, s >= PromisedSlot(r.at), now >= Freeze(Genesis, s, BaseDelta)
  PROVE  ~ComingFrom(n, r)
<1> SUFFICES ASSUME NEW m \in txNet, m.to = n, m.at = r.at PROVE FALSE
  BY DEF ComingFrom
<1>1. n \in up
  BY SurvivorsUp
<1>2. now <= r.at + MaxDelay
  BY <1>1 DEF PromptToUp
<1>3. r.at \in Nat /\ r.at + MaxDelay < Freeze(Genesis, s, BaseDelta)
  <2>1. r.at \in Nat
    BY DEF FaultTypeOK
  <2> QED
    BY <2>1, PromiseDue
<1>4. Freeze(Genesis, s, BaseDelta) \in Int /\ now \in Int /\ MaxDelay \in Int
  BY CutoffType, SequencerAssumption DEF FaultTypeOK, TypeOK
<1> QED
  BY <1>2, <1>3, <1>4

\* The survivors' digests list what the survivors were promised.
LEMMA VotesOrdinary ==
  ASSUME LastStart < Genesis + BaseDelta, Standing, FaultTypeOK', Footing, Ordinary,
         NEW S \in SUBSET Nodes, S = Survivors, Spread(S, digests, digestNet, Open), Served(S)
  PROVE  VotesIn(S)'
<1>a. /\ FaultTypeOK /\ TypeOK /\ Down /\ [Next]_vars /\ now \in Nat
      /\ KnownIn(S, digests, digestNet) \subseteq AllDigests
  BY KnownTyped DEF Standing, FaultTypeOK, Ordinary, TypeOK
<1> SUFFICES ASSUME NEW d \in KnownIn(S, digests', digestNet'), d.nodeId \in S,
                    NEW r \in Accepted(S)'
             PROVE  VotesFor(d, r)'
  BY DEF VotesIn
<1>b. /\ IncludedBefore(d.nodeId, r.tx, d.slot) => IncludedBefore(d.nodeId, r.tx, d.slot)'
  BY SurvivorKeeps
<1>c. r \in Accepted(S) \/ (r.at = now)
  BY DEF Ordinary, Accepted, Accepts
<1>1. CASE d \in KnownIn(S, digests, digestNet)
  <2>1. d \in AllDigests /\ d.slot \in Nat
    BY <1>1, <1>a, DigestsTyped DEF Digest
  <2>2. CASE r \in Accepted(S)
    BY <1>1, <1>b, <2>2 DEF Served, VotesIn, VotesFor
  <2>3. CASE r.at = now
    <3>1. now >= Freeze(Genesis, d.slot, BaseDelta)
      BY <2>1 DEF Standing, NothingTwice, VotedBefore
    <3>2. PromisedSlot(now) \in Nat /\ PromisedSlot(now) > d.slot
      BY <1>a, <2>1, <3>1, PromisedLater
    <3> QED
      BY <2>1, <2>3, <3>2 DEF VotesFor
  <2> QED
    BY <1>c, <2>2, <2>3
<1>2. CASE d \notin KnownIn(S, digests, digestNet)
  <2>1. VotesNow(d.nodeId, d)
    BY <1>2, NewlyKnown
  <2>2. PICK k \in S : k = d.nodeId
    OBVIOUS
  <2>3. /\ ToSync(k) /\ d.slot = slot[k] /\ d.hashes = Local(k)
        /\ now >= Freeze(Genesis, slot[k], BaseDelta)
    BY <2>1, <2>2 DEF VotesNow
  <2>4. slot[k] \in Nat /\ phase[k] = "FREEZE" /\ OpenSlot(k) = slot[k]
    BY <2>3, <1>a DEF ToSync, Leaves, OpenSlot, TypeOK
  <2>5. CASE r.at = now
    <3>1. PromisedSlot(now) \in Nat /\ PromisedSlot(now) > slot[k]
      BY <1>a, <2>3, <2>4, PromisedLater
    <3> QED
      BY <2>3, <2>4, <2>5, <3>1 DEF VotesFor
  <2>6. ASSUME r \in Accepted(S), slot[k] >= PromisedSlot(r.at)
        PROVE  r.tx \in Local(k) \/ IncludedBefore(k, r.tx, slot[k])
    <3>1. r \in replies /\ r.at \in Nat
      BY <1>a, <2>6 DEF Accepted, FaultTypeOK
    <3>2. ~ComingFrom(k, r)
      BY <1>a, <2>3, <2>4, <2>6, <3>1, NotComingLate DEF Footing
    <3>3. CASE Included(k, r.tx)
      <4>1. PICK t \in DOMAIN history[k] : r.tx \in TxSet(history[k][t])
        BY <3>3 DEF Included
      <4>2. t \in 0 .. slot[k] - 1
        BY <2>4 DEF Standing, FromSlot0
      <4>3. t < slot[k]
        BY <2>4, <4>2
      <4> QED
        BY <4>1, <4>3 DEF IncludedBefore
    <3>4. CASE Filed(k, r)
      <4>1. PICK b \in pool[k] : FiledAs(k, r, b)
        BY <3>4 DEF Filed
      <4>2. b[1] \in Nat /\ PromisedSlot(r.at) \in Nat
        BY <1>a, <3>1, PromisedType DEF TypeOK
      <4>3. b[1] = slot[k] /\ b[2] = r.tx
        BY <2>4, <2>6, <4>1, <4>2 DEF FiledAs
      <4> QED
        BY <4>3, InLocal
    <3> QED
      BY <2>6, <3>2, <3>3, <3>4 DEF Served, ReachedIn
  <2>7. CASE r \in Accepted(S)
    BY <1>b, <2>2, <2>3, <2>6, <2>7 DEF VotesFor
  <2> QED
    BY <1>c, <2>5, <2>7
<1> QED
  BY <1>1, <1>2

\* Too few nodes crash to deprive the survivors of their majority.
LEMMA SurvivorsAreMany ==
  ASSUME 2 * MaxCrashes < Cardinality(Nodes), FaultTypeOK, Cardinality(crashed) <= MaxCrashes
  PROVE  /\ IsFiniteSet(Survivors)
         /\ Cardinality(Survivors) \in Nat /\ Cardinality(Survivors) > 0
         /\ Cardinality(Survivors) >= Threshold(Cardinality(Nodes))
<1>1. IsFiniteSet(Nodes) /\ IsFiniteSet(crashed)
  BY FS_Subset, ConsensusAssumption DEF FaultTypeOK
<1>2. Nodes \cap crashed = crashed
  BY DEF FaultTypeOK
<1>3. /\ IsFiniteSet(Survivors)
      /\ Cardinality(Survivors) = Cardinality(Nodes) - Cardinality(crashed)
  BY <1>1, <1>2, FS_Difference DEF Survivors
<1>4. Cardinality(Nodes) \in Nat /\ Cardinality(crashed) \in Nat /\ Cardinality(Survivors) \in Nat
      /\ MaxCrashes \in Nat
  BY <1>1, <1>3, FS_CardinalityType, FaultAssumption
<1> QED
  BY <1>3, <1>4 DEF Threshold

\* The digest of every survivor that has voted is at hand in PROPOSE.
LEMMA SurvivorAtHand ==
  ASSUME Standing, NEW S \in SUBSET Nodes, S = Survivors, InStep(S), HeardIn(S),
         SurvivorDigestsTimely, SurvivorsHaveVoted,
         NEW n \in S, Enters(n, "PROPOSE"), phase[n] = "SYNC", NEW k \in S
  PROVE  \E d \in digests[n] : /\ d \in KnownIn(S, digests, digestNet)
                               /\ d.slot = slot[n] /\ d.nodeId = k
<1>a. slot[n] \in Nat /\ OpenSlot(n) = slot[n] /\ Open[n] = slot[n]
  BY DEF Standing, FaultTypeOK, TypeOK, OpenSlot, Open
<1>1. HasVoted(k, slot[n])
  BY DEF SurvivorsHaveVoted
<1>2. PICK d \in KnownIn(S, digests, digestNet) : d.slot = slot[n] /\ d.nodeId = k
  BY <1>a, <1>1 DEF HeardIn
<1>3. Reaches(digests, digestNet, n, d)
  BY <1>a, <1>2 DEF InStep, Spread
<1>4. \A m \in digestNet : m.to = n => m.body.slot # slot[n]
  BY DEF SurvivorDigestsTimely
<1> QED
  BY <1>2, <1>3, <1>4 DEF Reaches

\* What all survivors were promised is common, unless it is included already.
LEMMA UnanimousSurvivors ==
  ASSUME 2 * MaxCrashes < Cardinality(Nodes), Standing, Footing,
         NEW S \in SUBSET Nodes, S = Survivors, InStep(S), Served(S),
         SurvivorDigestsTimely, SurvivorsHaveVoted,
         NEW n \in S, Enters(n, "PROPOSE"), phase[n] = "SYNC",
         NEW r \in Accepted(S), slot[n] >= PromisedSlot(r.at)
  PROVE  r.tx \in Common(n) \/ Included(n, r.tx)
<1>a. TypeOK /\ FaultTypeOK /\ UniqueDigests
  BY DEF Standing, FaultTypeOK
<1>b. slot[n] \in Nat /\ OpenSlot(n) = slot[n]
  BY <1>a DEF TypeOK, OpenSlot
<1> DEFINE D == {d \in DigestsOf(digests[n], slot[n]) : r.tx \in d.hashes}
<1>1. CASE \E k \in S : IncludedBefore(k, r.tx, slot[n])
  <2>0. PICK k \in S : IncludedBefore(k, r.tx, slot[n])
    BY <1>1
  <2>1. PICK t \in DOMAIN history[k] : t < slot[n] /\ r.tx \in TxSet(history[k][t])
    BY <2>0 DEF IncludedBefore
  <2>2. DOMAIN history[n] = 0 .. slot[n] - 1 /\ t \in 0 .. OpenSlot(k) - 1 /\ OpenSlot(k) \in Nat
    BY <1>a, <1>b, <2>1 DEF Standing, FromSlot0, TypeOK, OpenSlot
  <2>3. t \in DOMAIN history[n]
    BY <1>b, <2>1, <2>2
  <2>4. history[n][t] = history[k][t]
    BY <2>1, <2>3 DEF InStep, AgreementIn
  <2> QED
    BY <2>1, <2>3, <2>4 DEF Included
<1>2. CASE \A k \in S : ~IncludedBefore(k, r.tx, slot[n])
  <2>1. \A k \in S : \E d \in D : d.nodeId = k
    <3> SUFFICES ASSUME NEW k \in S PROVE \E d \in D : d.nodeId = k
      OBVIOUS
    <3>1. PICK d \in digests[n] : /\ d \in KnownIn(S, digests, digestNet)
                                  /\ d.slot = slot[n] /\ d.nodeId = k
      BY SurvivorAtHand DEF Served
    <3>2. VotesFor(d, r)
      BY <3>1 DEF Served, VotesIn
    <3>3. r.tx \in d.hashes
      BY <1>2, <3>1, <3>2 DEF VotesFor
    <3> QED
      BY <3>1, <3>3 DEF DigestsOf
  <2> DEFINE f == [k \in S |-> CHOOSE d \in D : d.nodeId = k]
  <2>2. \A k \in S : f[k] \in D /\ f[k].nodeId = k
    BY <2>1
  <2>3. f \in Injection(S, D)
    <3> HIDE DEF D
    <3>1. f \in [S -> D]
      BY <2>2
    <3>2. \A j, k \in S : f[j] = f[k] => j = k
      BY <2>2
    <3> HIDE DEF f
    <3> QED
      BY <3>1, <3>2 DEF Injection, IsInjective
  <2>4. IsFiniteSet(D) /\ Cardinality(D) \in Nat
    <3>1. D \subseteq digests[n] /\ IsFiniteSet(digests[n])
      BY <1>a DEF DigestsOf, UniqueDigests
    <3> HIDE DEF D
    <3> QED
      BY <3>1, FS_Subset, FS_CardinalityType
  <2>5. Cardinality(S) <= Cardinality(D)
    <3> HIDE DEF D, f
    <3> QED
      BY <2>3, <2>4, FS_Injection
  <2>6. Cardinality(S) \in Nat /\ Cardinality(S) >= Threshold(Cardinality(Nodes)) /\ S # {}
    <3>1. /\ Cardinality(S) \in Nat /\ Cardinality(S) > 0
          /\ Cardinality(S) >= Threshold(Cardinality(Nodes))
      BY <1>a, SurvivorsAreMany DEF Footing
    <3>2. S # {}
      BY <3>1, FS_EmptySet
    <3> QED
      BY <3>1, <3>2
  <2>7. Threshold(Cardinality(Nodes)) \in Int
    <3>1. Cardinality(Nodes) \in Nat
      BY FS_CardinalityType, ConsensusAssumption
    <3> QED
      BY <3>1 DEF Threshold
  <2>8. Cardinality(D) >= Threshold(Cardinality(Nodes))
    <3> HIDE DEF D
    <3> QED
      BY <2>4, <2>5, <2>6, <2>7
  <2>9. TxCount(digests[n], slot[n], r.tx) = Cardinality(D)
    BY DEF TxCount
  <2>10. r.tx \in UNION {d.hashes : d \in DigestsOf(digests[n], slot[n])}
    <3>1. PICK k \in S : TRUE
      BY <2>6
    <3>2. PICK d \in D : d.nodeId = k
      BY <2>1
    <3> QED
      BY <3>2
  <2> QED
    BY <2>8, <2>9, <2>10 DEF Common, CommonSubset
<1> QED
  BY <1>1, <1>2

\* What comes to a survivor in time is filed in time.
LEMMA SurvivorFiles ==
  ASSUME Standing, Footing, NEW n \in Survivors, NEW r, r.at \in Nat,
         Receives(n, r.tx), now <= r.at + MaxDelay
  PROVE  Filed(n, r)'
<1>a. TypeOK /\ n \in Nodes
  BY DEF Standing, FaultTypeOK, Survivors
<1>0. PICK b : b = <<AssignTransactionToSlot(Genesis, now), r.tx>>
  OBVIOUS
<1>1. FiledAs(n, r, b)
  <2>1. OnTime(n) /\ (~running[n] => slot[n] = 0 /\ phase[n] = "COLLECT")
    BY <1>a DEF Footing, AllOnTime, Standing, FromSlot0, StartsInSlot0
  <2> QED
    BY <1>a, <1>0, <2>1, ArrivalFiled
<1>2. pool' = [pool EXCEPT ![n] = @ \cup {b}] /\ UNCHANGED <<slot, phase, digests>>
  BY <1>0 DEF Receives, Submit, OnTx, Add, clockVars
<1>3. b \in pool'[n]
  BY <1>2, <1>a DEF TypeOK
<1>4. OpenSlot(n)' = OpenSlot(n) /\ Common(n)' = Common(n)
  BY <1>2 DEF OpenSlot, Common
<1>5. FiledAs(n, r, b)'
  BY <1>1, <1>2, <1>4 DEF FiledAs
<1> QED
  BY <1>3, <1>5 DEF Filed

\* What a survivor has filed stays filed until it is included.
LEMMA SurvivorKeepsFiled ==
  ASSUME LastStart < Genesis + BaseDelta, 2 * MaxCrashes < Cardinality(Nodes),
         Standing, FaultTypeOK', Footing, Ordinary, SurvivorDigestsTimely, SurvivorsHaveVoted,
         NEW S \in SUBSET Nodes, S = Survivors, InStep(S), Served(S),
         NEW n \in S, NEW r \in Accepted(S), Filed(n, r)
  PROVE  Filed(n, r)' \/ Included(n, r.tx)'
<1>a. /\ TypeOK /\ PendingOver /\ [Next]_vars /\ n \in Nodes /\ n \in Survivors
      /\ r.at \in Nat
  BY DEF Standing, FaultTypeOK, Ordinary, Accepted
<1>b. Included(n, r.tx) => Included(n, r.tx)'
  BY <1>a, SurvivorKeeps
<1>1. CASE Enters(n, "PROPOSE")
  <2>1. phase[n] = "SYNC"
    BY <1>a, <1>1, EntersBy, ProposeCopies
  <2>2. slot[n] >= PromisedSlot(r.at) => r.tx \in Common(n) \/ Included(n, r.tx)
    BY <1>1, <2>1, UnanimousSurvivors
  <2> QED
    BY <1>a, <1>b, <1>1, <2>2, FiledThroughPropose
<1>2. CASE Enters(n, "FINALIZE")
  <2>1. FinalizeWinner(n) \/ FinalizeSkip(n) \/ FinalizeEmergency(n)
    BY <1>a, <1>2, EntersBy
  <2> QED
    BY <1>a, <2>1, FiledThroughFinalize
<1>3. CASE ~Enters(n, "PROPOSE") /\ ~Enters(n, "FINALIZE")
  <2>1. OpenSlot(n)' = OpenSlot(n) /\ OpenSlot(n) \in Nat
    BY <1>a, <1>3, SurvivorMoves
  <2>2. ASSUME phase'[n] = "PROPOSE"
        PROVE  phase[n] = "PROPOSE" /\ slot'[n] = slot[n] /\ Common(n)' = Common(n)
    <3>1. phase[n] = "PROPOSE" /\ slot'[n] = slot[n]
      BY <1>a, <1>3, <2>2, SurvivorMoves DEF Enters
    <3>2. Quiet(S)
      BY DEF InStep
    <3> QED
      BY <2>2, <3>1, <3>2, SurvivorVotesKept
  <2> QED
    BY <1>a, <2>1, <2>2, FiledStays
<1> QED
  BY <1>1, <1>2, <1>3

\* What survivors have accepted gets to all of them.
LEMMA ReachedOrdinary ==
  ASSUME LastStart < Genesis + BaseDelta, 2 * MaxCrashes < Cardinality(Nodes),
         Standing, FaultTypeOK', Footing, Ordinary, SurvivorDigestsTimely, SurvivorsHaveVoted,
         NEW S \in SUBSET Nodes, S = Survivors, InStep(S), Served(S)
  PROVE  ReachedIn(S)'
<1>a. FaultTypeOK /\ TypeOK /\ Down /\ [Next]_vars /\ now \in Nat /\ MaxDelay \in Nat
  BY SequencerAssumption DEF Standing, FaultTypeOK, Ordinary, TypeOK
<1> SUFFICES ASSUME NEW r \in Accepted(S)', NEW n \in S
             PROVE  Included(n, r.tx)' \/ ComingFrom(n, r)' \/ Filed(n, r)'
  BY DEF ReachedIn
<1>b. Included(n, r.tx) => Included(n, r.tx)'
  BY SurvivorKeeps
<1>c. r \in Accepted(S) \/ Accepts(r)
  BY DEF Ordinary, Accepted
<1>1. CASE Accepts(r)
  <2>1. Submit(r.node, r.tx) /\ r.tx \in Txs /\ r.at = now
    BY <1>1 DEF Accepts
  <2>2. CASE r.node = n
    <3>1. Receives(n, r.tx) /\ r.at \in Nat /\ now <= r.at + MaxDelay
      BY <1>a, <2>1, <2>2 DEF Receives
    <3> QED
      BY <3>1, SurvivorFiles
  <2>3. CASE r.node # n
    <3>1. PICK m : m = [body |-> r.tx, from |-> r.node, to |-> n, at |-> now]
      OBVIOUS
    <3>2. m \in txNet'
      BY <2>1, <2>3, <3>1 DEF Submit, Publish
    <3>3. m.to = n /\ m.from = r.node /\ m.body = r.tx /\ m.at = r.at
      BY <2>1, <3>1
    <3> QED
      BY <3>2, <3>3 DEF ComingFrom
  <2> QED
    BY <2>2, <2>3
<1>2. ASSUME r \in Accepted(S), ComingFrom(n, r) PROVE ComingFrom(n, r)' \/ Filed(n, r)'
  <2>1. PICK m \in txNet : m.to = n /\ m.from = r.node /\ m.body = r.tx /\ m.at = r.at
    BY <1>2 DEF ComingFrom
  <2>2. CASE m \in txNet'
    BY <2>1, <2>2 DEF ComingFrom
  <2>3. CASE m \notin txNet'
    <3>1. OnTx(m)
      BY <1>a, <2>3, TxDelivered
    <3>2. m.body \in Txs /\ m.at \in Nat
      BY <1>a DEF TypeOK, Messages
    <3>3. Receives(n, r.tx)
      BY <2>1, <3>1, <3>2 DEF Receives
    <3>4. r.at \in Nat /\ now <= r.at + MaxDelay
      <4>1. n \in up
        BY <1>a, SurvivorsUp
      <4> QED
        BY <2>1, <3>2, <4>1 DEF Footing, PromptToUp
    <3> QED
      BY <3>3, <3>4, SurvivorFiles
  <2> QED
    BY <2>2, <2>3
<1>3. ASSUME r \in Accepted(S), Filed(n, r) PROVE Filed(n, r)' \/ Included(n, r.tx)'
  BY <1>3, SurvivorKeepsFiled
<1>4. r \in Accepted(S) => Included(n, r.tx) \/ ComingFrom(n, r) \/ Filed(n, r)
  BY DEF Served, ReachedIn
<1> QED
  BY <1>b, <1>c, <1>1, <1>2, <1>3, <1>4

\* What a survivor finalises once a transaction is due is a batch with it, or null.
LEMMA IncludedOrdinary ==
  ASSUME LastStart < Genesis + BaseDelta, Standing, FaultTypeOK', Footing, Ordinary,
         NEW S \in SUBSET Nodes, S = Survivors, Served(S)
  PROVE  IncludedIn(S)'
<1>a. FaultTypeOK /\ TypeOK /\ Down /\ [Next]_vars
  BY DEF Standing, FaultTypeOK, Ordinary
<1> SUFFICES ASSUME NEW r \in Accepted(S)', NEW n \in S, NEW s \in DOMAIN history'[n],
                    s >= PromisedSlot(r.at), history'[n][s].proposer # SKIP
             PROVE  Included(n, r.tx)'
  BY DEF IncludedIn
<1>b. Included(n, r.tx) => Included(n, r.tx)'
  BY SurvivorKeeps
<1>c. r \in Accepted(S) \/ Accepts(r)
  BY DEF Ordinary, Accepted
<1>1. CASE r \in Accepted(S) /\ s \in DOMAIN history[n] /\ history'[n][s] = history[n][s]
  BY <1>1, <1>b DEF Served, IncludedIn
<1>2. ASSUME r \in Accepted(S), NEW b, Finalises(n, b), s = slot[n], history'[n][s] = b
      PROVE  Included(n, r.tx)'
  <2>1. phase[n] = "PROPOSE" /\ now >= Due(n) /\ slot[n] \in Nat /\ OpenSlot(n) = slot[n]
    BY <1>2, <1>a DEF Finalises, OpenSlot, TypeOK
  <2>2. now >= Freeze(Genesis, slot[n], BaseDelta)
    BY <2>1, <1>a, DueAfterCutoff
  <2>3. r \in replies /\ r.at \in Nat
    BY <1>2, <1>a DEF Accepted, FaultTypeOK
  <2>4. ~ComingFrom(n, r)
    BY <1>2, <2>1, <2>2, <2>3, <1>a, NotComingLate DEF Footing
  <2>5. ASSUME Filed(n, r) PROVE Included(n, r.tx)'
    BY <1>2, <1>a, <2>3, <2>5, FiledIncluded
  <2> QED
    BY <1>2, <1>b, <2>4, <2>5 DEF Served, ReachedIn
\* What is accepted now is promised no slot that is over.
<1>3. CASE Accepts(r)
  <2>1. r.at = now /\ history' = history
    BY <1>3 DEF Accepts, Submit
  <2>2. DOMAIN history[n] = 0 .. OpenSlot(n) - 1 /\ OpenSlot(n) \in Nat /\ StartsInSlot0(n)
    BY <1>a DEF Standing, FromSlot0, OpenSlot, TypeOK
  <2>3. s \in Nat /\ s < OpenSlot(n)
    BY <2>1, <2>2
  <2>4. running[n] /\ OnTime(n)
    <3>1. ~running[n] => OpenSlot(n) = 0
      BY <2>2 DEF StartsInSlot0, OpenSlot
    <3>2. running[n]
      BY <2>2, <2>3, <3>1
    <3> QED
      BY <3>2 DEF Footing, AllOnTime
  <2>5. now >= Freeze(Genesis, s, BaseDelta)
    BY <1>a, <2>3, <2>4, SettledAfterCutoff
  <2>6. PromisedSlot(now) \in Nat /\ PromisedSlot(now) > s
    BY <2>3, <2>5, <1>a, PromisedLater
  <2> QED
    BY <2>1, <2>3, <2>6
<1>4. \/ s \in DOMAIN history[n] /\ history'[n][s] = history[n][s]
      \/ \E b : Finalises(n, b) /\ s = slot[n] /\ history'[n][s] = b
  BY <1>a, WhatIsFinal
<1> QED
  BY <1>c, <1>1, <1>2, <1>3, <1>4

\* A step without faults breaks no promise to the survivors' clients.
LEMMA ServedOrdinary ==
  ASSUME LastStart < Genesis + BaseDelta, 2 * MaxCrashes < Cardinality(Nodes),
         Standing, FaultTypeOK', Footing, Ordinary, SurvivorDigestsTimely, SurvivorsHaveVoted,
         NEW S \in SUBSET Nodes, S = Survivors, InStep(S), Served(S)
  PROVE  Served(S)'
<1>1. Spread(S, digests, digestNet, Open) /\ HeardIn(S)
  BY DEF InStep, Served
<1>2. VotesIn(S)'
  BY <1>1, VotesOrdinary
<1>3. HeardIn(S)'
  BY <1>1, HeardOrdinary
<1>4. ReachedIn(S)'
  BY ReachedOrdinary
<1>5. IncludedIn(S)'
  BY IncludedOrdinary
<1> QED
  BY <1>2, <1>3, <1>4, <1>5 DEF Served

-------------------------------------------------------------------------------
\* The survivors' promises when a node crashes or returns.

\* What survivors that nothing happens to have promised they keep, as long as what they
\* know of is known still and what one of them is to get from another is not lost.
LEMMA FewerServed ==
  ASSUME NEW S, NEW T, T \subseteq S, T \subseteq Nodes, Served(S),
         \A k \in T : /\ slot'[k] = slot[k] /\ phase'[k] = phase[k] /\ history'[k] = history[k]
                      /\ OpenSlot(k)' = OpenSlot(k) /\ digests'[k] = digests[k]
                      /\ pool[k] \subseteq pool'[k],
         Accepted(T)' \subseteq Accepted(S),
         KnownIn(T, digests', digestNet') \subseteq KnownIn(S, digests, digestNet),
         \A n \in T : \A d \in KnownIn(S, digests, digestNet) :
           d.nodeId \in T /\ d.slot >= OpenSlot(n) => d \in KnownIn(T, digests', digestNet'),
         \A m \in txNet : m.from \in T /\ m.to \in T => m \in txNet',
         \A n \in T : OpenSlot(n) \in Nat
  PROVE  Served(T)'
<1>a. Accepted(T)' \subseteq Accepted(S) /\ \A r \in Accepted(T)' : r.node \in T
  BY DEF Accepted
<1>b. \A n \in T : \A tx : Included(n, tx)' <=> Included(n, tx)
  BY DEF Included
<1>1. VotesIn(T)'
  <2> SUFFICES ASSUME NEW d \in KnownIn(T, digests', digestNet'), d.nodeId \in T, NEW r \in Accepted(T)'
               PROVE  VotesFor(d, r)'
    BY DEF VotesIn
  <2>1. VotesFor(d, r)
    BY <1>a DEF Served, VotesIn
  <2>2. IncludedBefore(d.nodeId, r.tx, d.slot) => IncludedBefore(d.nodeId, r.tx, d.slot)'
    BY DEF IncludedBefore
  <2> QED
    BY <2>1, <2>2 DEF VotesFor
<1>2. HeardIn(T)'
  <2> SUFFICES ASSUME NEW n \in T, NEW k \in T, NEW s \in Nat, s >= OpenSlot(n), HasVoted(k, s)
               PROVE  \E d \in KnownIn(T, digests', digestNet') : d.slot = s /\ d.nodeId = k
    BY DEF HeardIn, HasVoted
  <2>1. PICK d \in KnownIn(S, digests, digestNet) : d.slot = s /\ d.nodeId = k
    BY DEF Served, HeardIn
  <2> QED
    BY <2>1
<1>3. ReachedIn(T)'
  <2> SUFFICES ASSUME NEW r \in Accepted(T)', NEW n \in T
               PROVE  Included(n, r.tx)' \/ ComingFrom(n, r)' \/ Filed(n, r)'
    BY DEF ReachedIn
  <2>1. Included(n, r.tx) \/ ComingFrom(n, r) \/ Filed(n, r)
    BY <1>a DEF Served, ReachedIn
  <2>2. ComingFrom(n, r) => ComingFrom(n, r)'
    <3> SUFFICES ASSUME ComingFrom(n, r) PROVE ComingFrom(n, r)'
      OBVIOUS
    <3>1. PICK m \in txNet : m.to = n /\ m.from = r.node /\ m.body = r.tx /\ m.at = r.at
      BY DEF ComingFrom
    <3>2. m \in txNet'
      BY <1>a, <3>1
    <3> QED
      BY <3>1, <3>2 DEF ComingFrom
  <2>3. Filed(n, r) => Filed(n, r)'
    <3> SUFFICES ASSUME Filed(n, r) PROVE Filed(n, r)'
      OBVIOUS
    <3>1. PICK b \in pool[n] : FiledAs(n, r, b)
      BY DEF Filed
    <3>2. Common(n)' = Common(n)
      BY DEF Common
    <3>3. FiledAs(n, r, b)'
      BY <3>1, <3>2 DEF FiledAs
    <3> QED
      BY <3>1, <3>3 DEF Filed
  <2> QED
    BY <1>b, <2>1, <2>2, <2>3
<1>4. IncludedIn(T)'
  <2> SUFFICES ASSUME NEW r \in Accepted(T)', NEW n \in T, NEW s \in DOMAIN history[n],
                      s >= PromisedSlot(r.at), history[n][s].proposer # SKIP
               PROVE  Included(n, r.tx)'
    BY DEF IncludedIn
  <2>1. Included(n, r.tx)
    BY <1>a DEF Served, IncludedIn
  <2> QED
    BY <1>b, <2>1
<1> QED
  BY <1>1, <1>2, <1>3, <1>4 DEF Served

\* Time that passes and a submission that fails do not touch the promises.
LEMMA ServedAside ==
  ASSUME Standing, Aside, NEW S \in SUBSET Nodes, Served(S)
  PROVE  Served(S)'
<1>1. \A k \in S : /\ slot'[k] = slot[k] /\ phase'[k] = phase[k] /\ history'[k] = history[k]
                   /\ OpenSlot(k)' = OpenSlot(k) /\ digests'[k] = digests[k]
                   /\ pool[k] \subseteq pool'[k]
  BY DEF Aside, clockVars, OpenSlot
<1>2. /\ digests' = digests /\ digestNet' = digestNet /\ txNet' = txNet
      /\ \A r \in replies' : r \in replies \/ r.status # 200
  BY DEF Aside, nets
<1>3. KnownIn(S, digests', digestNet') = KnownIn(S, digests, digestNet)
  BY <1>2
<1>4. \A n \in S : OpenSlot(n) \in Nat
  BY DEF Standing, FaultTypeOK, TypeOK, OpenSlot
<1>5. \A m \in txNet : m.from \in S /\ m.to \in S => m \in txNet'
  BY <1>2
<1>6. Accepted(S)' \subseteq Accepted(S)
  BY <1>2 DEF Accepted
<1> QED
  BY <1>1, <1>3, <1>4, <1>5, <1>6, FewerServed

\* The crash of a survivor breaks no promise the others have given, unless it cuts a
\* broadcast in two.
LEMMA ServedCrash ==
  ASSUME Standing, Footing, NEW S \in SUBSET Nodes, S = Survivors, InStep(S), Served(S),
         NEW T \in SUBSET Nodes, T = Survivors', NEW x \in Nodes, Crash(x), ~split'
  PROVE  Served(T)'
<1>a. TypeOK
  BY DEF Standing, FaultTypeOK
<1>b. \A n \in S : OpenSlot(n) \in Nat /\ Open[n] = OpenSlot(n)
  BY <1>a DEF TypeOK, OpenSlot, Open
<1>1. x \in S /\ T = S \ {x}
  BY DEF Crash, Survivors
<1>2. \A k \in T : /\ slot'[k] = slot[k] /\ phase'[k] = phase[k] /\ history'[k] = history[k]
                   /\ OpenSlot(k)' = OpenSlot(k) /\ digests'[k] = digests[k]
  BY SurvivorsApart DEF Standing
<1>3. \A k \in T : pool[k] \subseteq pool'[k]
  BY <1>1, <1>a DEF Crash, TypeOK
<1>4. PICK d \in SUBSET InFlight(digestNet, x) : digestNet' = digestNet \ d /\ ~Splits(d)
  BY DEF Crash
<1>5. \A m \in txNet : m.from \in T => m \in txNet'
  <2>1. PICK t \in SUBSET InFlight(txNet, x) : txNet' = txNet \ t
    BY DEF Crash
  <2> QED
    BY <1>1, <2>1 DEF InFlight
<1>6. Accepted(T)' \subseteq Accepted(S)
  BY <1>1 DEF Crash, Accepted
<1>c. Spread(S, digests, digestNet, Open) /\ Once(digests, digestNet)
  BY DEF InStep, Standing
<1>e. \A k \in S \ {x} : digests'[k] = digests[k]
  BY <1>1, <1>2
<1>7. KnownIn(T, digests', digestNet') \subseteq KnownIn(S, digests, digestNet)
  <2>1. KnownIn(S \ {x}, digests', digestNet \ d) \subseteq KnownIn(S, digests, digestNet)
    BY <1>4, <1>c, <1>e, SpreadLose
  <2> QED
    BY <1>1, <1>4, <2>1
<1>8. ASSUME NEW n \in T, NEW c \in KnownIn(S, digests, digestNet), c.nodeId \in T,
             c.slot >= OpenSlot(n)
      PROVE  c \in KnownIn(T, digests', digestNet')
  <2>1. Reaches(digests, digestNet, n, c)
    BY <1>1, <1>8, <1>b, <1>c DEF Spread
  <2>2. CASE c \in digests[n]
    BY <1>2, <2>2 DEF KnownIn
  <2>3. ASSUME NEW m \in digestNet, m.to = n, m.body = c PROVE c \in KnownIn(T, digests', digestNet')
    <3>1. m.from # x
      BY <1>1, <1>8, <2>3 DEF Footing, Signed
    <3>2. m \in digestNet'
      BY <1>4, <3>1 DEF InFlight
    <3> QED
      BY <2>3, <3>2 DEF KnownIn
  <2> QED
    BY <2>1, <2>2, <2>3 DEF Reaches
<1>9. T \subseteq S /\ \A n \in T : OpenSlot(n) \in Nat
  BY <1>1, <1>b
<1> QED
  BY <1>2, <1>3, <1>5, <1>6, <1>7, <1>8, <1>9, FewerServed

\* Nor does the return of a node.
LEMMA ServedRelaunch ==
  ASSUME Standing, NEW S \in SUBSET Nodes, S = Survivors, Served(S), NEW x \in Nodes, Relaunch(x)
  PROVE  Served(S)'
<1>a. \A n \in S : OpenSlot(n) \in Nat
  BY DEF Standing, FaultTypeOK, TypeOK, OpenSlot
<1>1. x \notin S /\ S = Survivors'
  BY DEF Standing, Down, Relaunch, Survivors
<1>2. \A k \in S : /\ slot'[k] = slot[k] /\ phase'[k] = phase[k] /\ history'[k] = history[k]
                   /\ OpenSlot(k)' = OpenSlot(k) /\ digests'[k] = digests[k]
  BY <1>1, SurvivorsApart DEF Standing
<1>3. /\ pool' = pool /\ replies' = replies /\ digests' = digests
      /\ digestNet' = NotTo(digestNet, x) /\ txNet' = NotTo(txNet, x)
  BY DEF Relaunch
<1>4. KnownIn(S, digests', digestNet') = KnownIn(S, digests, digestNet)
  BY <1>1, <1>3 DEF KnownIn, NotTo
<1>5. \A m \in txNet : m.from \in S /\ m.to \in S => m \in txNet'
  BY <1>1, <1>3 DEF NotTo
<1>6. (\A k \in S : pool[k] \subseteq pool'[k]) /\ Accepted(S)' \subseteq Accepted(S)
  BY <1>3 DEF Accepted
<1> QED
  BY <1>2, <1>4, <1>5, <1>6, <1>a, FewerServed

\* The survivors keep their promises as long as no crash has cut a broadcast in two.
Serving == ~split => \A S \in SUBSET Nodes : S = Survivors => Served(S)

\* To begin with there are none.
LEMMA ServingInit ==
  ASSUME FaultInit, LastStart < Genesis + BaseDelta
  PROVE  Serving
<1> SUFFICES ASSUME NEW S \in SUBSET Nodes PROVE Served(S)
  BY DEF Serving
<1>1. WallSlot(Genesis, 0) = 0
  <2>1. 0 < Genesis + BaseDelta
    BY SequencerAssumption, TimingAssumption
  <2> QED
    BY <2>1, WallSlot0
<1>2. Accepted(S) = {}
  BY DEF FaultInit, Accepted
<1>3. VotesIn(S) /\ ReachedIn(S) /\ IncludedIn(S)
  BY <1>2 DEF VotesIn, ReachedIn, IncludedIn
<1>4. HeardIn(S)
  BY <1>1 DEF FaultInit, Init, HeardIn, HasVoted
<1> QED
  BY <1>3, <1>4 DEF Served

\* No step breaks a promise.
LEMMA ServingInductive ==
  ASSUME LastStart < Genesis + BaseDelta, 2 * MaxCrashes < Cardinality(Nodes),
         Standing, FaultTypeOK', Footing, Together, Serving,
         [FaultNext]_<<vars, faultVars>>,
         [~split => SurvivorDigestsTimely]_<<vars, faultVars>>,
         [~split => SurvivorsHaveVoted]_<<vars, faultVars>>
  PROVE  Serving'
<1> SUFFICES ASSUME ~split', NEW T \in SUBSET Nodes, T = Survivors' PROVE Served(T)'
  BY DEF Serving
<1>a. FaultTypeOK
  BY DEF Standing
<1>1. PICK S \in SUBSET Nodes : S = Survivors
  BY DEF Survivors
<1>2. Ordinary \/ Aside => T = S /\ ~split
  BY <1>1 DEF Ordinary, Aside, Survivors
<1>3. ~split => InStep(S) /\ Served(S)
  BY <1>1 DEF Together, Serving
<1>4. CASE Aside
  BY <1>2, <1>3, <1>4, ServedAside
<1>5. CASE Ordinary /\ ~Aside
  <2>1. ~UNCHANGED <<vars, faultVars>>
    BY <1>5 DEF Aside, vars, faultVars, clockVars, nets
  <2>2. SurvivorDigestsTimely /\ SurvivorsHaveVoted
    BY <1>2, <1>5, <2>1
  <2> QED
    BY <1>1, <1>2, <1>3, <1>5, <2>2, ServedOrdinary
<1>6. ASSUME NEW x \in Nodes, Crash(x) PROVE Served(T)'
  <2>1. ~split
    BY <1>6 DEF Crash
  <2> QED
    BY <1>1, <1>3, <1>6, <2>1, ServedCrash
<1>7. ASSUME NEW x \in Nodes, Relaunch(x) PROVE Served(T)'
  <2>1. ~split /\ T = S
    BY <1>1, <1>7 DEF Relaunch, Survivors
  <2> QED
    BY <1>1, <1>3, <1>7, <2>1, ServedRelaunch
<1> QED
  BY <1>a, <1>4, <1>5, <1>6, <1>7, FaultSteps

\* And a transaction that a survivor has accepted is in every survivor's history once
\* it has the promised slot or a later one that is not skipped, if besides every
\* survivor votes before another leaves SYNC and those that crash are a minority.
THEOREM SurvivorsIncludeCorrect ==
  ASSUME LastStart < Genesis + BaseDelta, Epsilon <= RestartWait, OutputsAreNumbers,
         2 * MaxCrashes < Cardinality(Nodes)
  PROVE  FaultSpec /\ SurvivorDigestsInTime /\ SurvivorProposalsInTime /\ SurvivorsVoteInTime
           => []SurvivorsInclude
<1>1. FaultInit => Standing /\ Footing /\ Together /\ Serving
  BY StandingInit, FootingInit, TogetherInit, ServingInit
<1>2. Standing /\ [FaultNext]_<<vars, faultVars>> => Standing'
  BY StandingInductive
<1>3. Standing /\ FaultTypeOK' /\ Footing /\ [FaultNext]_<<vars, faultVars>> => Footing'
  BY FootingInductive
<1>4. Standing /\ FaultTypeOK' /\ Together /\ [FaultNext]_<<vars, faultVars>>
        /\ [~split => SurvivorDigestsTimely]_<<vars, faultVars>>
        /\ [~split => SurvivorProposalsTimely]_<<vars, faultVars>> => Together'
  BY TogetherInductive
<1>5. Standing /\ FaultTypeOK' /\ Footing /\ Together /\ Serving /\ [FaultNext]_<<vars, faultVars>>
        /\ [~split => SurvivorDigestsTimely]_<<vars, faultVars>>
        /\ [~split => SurvivorsHaveVoted]_<<vars, faultVars>> => Serving'
  BY ServingInductive
<1>6. Serving => SurvivorsInclude
  <2> SUFFICES ASSUME ~split, \A S \in SUBSET Nodes : S = Survivors => Served(S)
               PROVE  SurvivorsInclude
    BY DEF Serving, SurvivorsInclude
  <2>1. PICK S \in SUBSET Nodes : S = Survivors
    BY DEF Survivors
  <2>2. IncludedIn(S)
    BY <2>1 DEF Served
  <2> QED
    BY <2>1, <2>2 DEF IncludedIn, Accepted, SurvivorsInclude
<1> QED
  BY <1>1, <1>2, <1>3, <1>4, <1>5, <1>6, FaultTypeCorrect, PTL
  DEF FaultSpec, SurvivorDigestsInTime, SurvivorProposalsInTime, SurvivorsVoteInTime

-------------------------------------------------------------------------------
\* The survivors' timetable.

\* A node that returns starts before the cutoff of a slot.
RelaunchFits ==
  \A t \in RelaunchTimes :
    t + RestartWait <= Freeze(Genesis, WallSlot(Genesis, t + RestartWait), BaseDelta)

\* Punctual, of nodes that may start in any slot: only who has never crashed has worked
\* through the slot before.
OnSchedule(n) ==
  running[n] =>
    /\ slot[n] = 0 \/ now >= Start(Genesis, slot[n])
    /\ slot[n] = 0 \/ n \in crashed \/ now >= FinalizeEnd(Genesis, slot[n] - 1, BaseDelta)
    /\ phase[n] = "PROPOSE"  => now >= SyncEnd(Genesis, slot[n], BaseDelta)
    /\ phase[n] = "FINALIZE" => now >= ProposeEnd(Genesis, slot[n], BaseDelta)
    /\ now <= LeaveTime(phase[n], Genesis, slot[n], BaseDelta) + MaxLag

\* A node that has returned was launched at a time to relaunch at, and starts once its
\* wait is over.
Returning ==
  \A n \in up \cap crashed :
    /\ launched[n] \in RelaunchTimes
    /\ ~running[n] => now <= launched[n] + RestartWait

\* A message for slot s was sent by the end of phase e, and is overdue at no survivor.
SentBy(m, e) ==
  /\ m.at \in Nat /\ m.at <= e + MaxLag
  /\ m.to \in Survivors => now <= m.at + MaxDelay

\* Prompt, as far as survivors are concerned.
PromptToSurvivors ==
  /\ \A m \in digestNet : SentBy(m, Freeze(Genesis, m.body.slot, BaseDelta))
  /\ \A m \in batchNet  : SentBy(m, SyncEnd(Genesis, m.body.slot, BaseDelta))

\* The inductive invariant behind the survivors' timetable.
Schedule == (\A n \in Nodes : OnSchedule(n)) /\ Returning /\ PromptToSurvivors

\* The constants of the timetable are numbers.
LEMMA TimetableTypes ==
  /\ Genesis \in Nat /\ BaseDelta \in Nat /\ Epsilon \in Nat /\ ProposeWindow \in Nat
  /\ FinalizeWindow \in Nat /\ MaxLag \in Nat /\ MaxDelay \in Nat /\ LastStart \in Nat
  /\ RestartWait \in Nat /\ RelaunchTimes \subseteq Nat
BY SequencerAssumption, TimingAssumption, FaultAssumption

\* When a slot starts and its phases end.
LEMMA PhaseEnds ==
  ASSUME NEW s \in Nat
  PROVE  /\ Start(Genesis, s) \in Int
         /\ Freeze(Genesis, s, BaseDelta) = Start(Genesis, s) + BaseDelta - Epsilon
         /\ SyncEnd(Genesis, s, BaseDelta) = Start(Genesis, s) + BaseDelta
         /\ ProposeEnd(Genesis, s, BaseDelta) = Start(Genesis, s) + BaseDelta + ProposeWindow
         /\ FinalizeEnd(Genesis, s, BaseDelta)
              = Start(Genesis, s) + BaseDelta + ProposeWindow + FinalizeWindow
BY StartsGrow DEF Freeze, SyncEnd, ProposeEnd, FinalizeEnd

\* A node that goes from one phase to the next does so in its time, and one that starts
\* before a cutoff is in time from the beginning.
LEMMA ScheduleMoves ==
  ASSUME TimetableFits, TypeOK, [Next]_vars, now' = now, crashed' = crashed,
         NEW k \in Nodes, effectiveDelta[k] = BaseDelta, OnSchedule(k),
         ~running[k] /\ running'[k] =>
           /\ now <= Freeze(Genesis, WallSlot(Genesis, now), BaseDelta)
           /\ k \in crashed \/ WallSlot(Genesis, now) = 0
  PROVE  OnSchedule(k)'
<1>b. /\ Genesis \in Nat /\ BaseDelta \in Nat /\ Epsilon \in Nat /\ ProposeWindow \in Nat
      /\ FinalizeWindow \in Nat /\ MaxLag \in Nat /\ now \in Nat
  BY TimetableTypes DEF TypeOK
<1>c. ProposeWindow + FinalizeWindow <= BaseDelta - Epsilon
  BY DEF TimetableFits
<1>d. /\ slot[k] \in Nat /\ slot[k] + 1 \in Nat
      /\ Start(Genesis, slot[k] + 1) = Start(Genesis, slot[k]) + BaseDelta
      /\ Due(k) = LeaveTime(phase[k], Genesis, slot[k], BaseDelta)
  BY StartsGrow DEF Due, TypeOK
<1>e. /\ Start(Genesis, slot[k]) \in Int
      /\ Freeze(Genesis, slot[k], BaseDelta) = Start(Genesis, slot[k]) + BaseDelta - Epsilon
      /\ SyncEnd(Genesis, slot[k], BaseDelta) = Start(Genesis, slot[k]) + BaseDelta
      /\ ProposeEnd(Genesis, slot[k], BaseDelta) = Start(Genesis, slot[k]) + BaseDelta + ProposeWindow
      /\ FinalizeEnd(Genesis, slot[k], BaseDelta)
           = Start(Genesis, slot[k]) + BaseDelta + ProposeWindow + FinalizeWindow
      /\ Freeze(Genesis, slot[k] + 1, BaseDelta) = Start(Genesis, slot[k] + 1) + BaseDelta - Epsilon
  BY <1>d, PhaseEnds
\* What is past stays past.
<1>f. ASSUME running[k], slot'[k] = slot[k]
      PROVE  slot'[k] = 0 \/ /\ now' >= Start(Genesis, slot'[k])
                             /\ k \in crashed' \/ now' >= FinalizeEnd(Genesis, slot'[k] - 1, BaseDelta)
  BY <1>f DEF OnSchedule
<1>1. CASE running'[k] = running[k] /\ slot'[k] = slot[k] /\ phase'[k] = phase[k]
  BY <1>1 DEF OnSchedule
<1>2. CASE StartSlotManager(k)
  <2>1. /\ ~running[k] /\ running'[k] /\ slot'[k] = WallSlot(Genesis, now) /\ phase'[k] = "COLLECT"
    BY <1>2 DEF StartSlotManager, TypeOK
  <2>2. PICK w : w = WallSlot(Genesis, now)
    OBVIOUS
  <2>3. w \in Nat /\ (w = 0 \/ now >= Start(Genesis, w))
    <3>1. w \in Nat /\ (now >= Genesis => Start(Genesis, w) <= now)
      BY <1>b, <2>2, WallSlotBrackets
    <3>2. now < Genesis => w = 0
      BY <1>b, <2>2, WallSlot0
    <3>3. Start(Genesis, w) \in Int
      BY <3>1, PhaseEnds
    <3> QED
      BY <1>b, <3>1, <3>2, <3>3
  <2>4. Freeze(Genesis, w, BaseDelta) \in Int
    BY <1>b, <2>3, PhaseEnds
  <2>5. now <= LeaveTime("COLLECT", Genesis, w, BaseDelta) + MaxLag
    BY <1>b, <2>1, <2>2, <2>4, LeaveTimes
  <2>6. slot'[k] = w /\ (w = 0 \/ k \in crashed)
    BY <2>1, <2>2
  <2> QED
    BY <2>1, <2>3, <2>5, <2>6 DEF OnSchedule
<1>3. CASE Proceeds(k)
  <2>1. /\ running[k] /\ running'[k] /\ slot'[k] = slot[k]
        /\ now >= LeaveTime(phase[k], Genesis, slot[k], BaseDelta)
        /\ now <= LeaveTime(phase[k], Genesis, slot[k], BaseDelta) + MaxLag
    BY <1>3, <1>d DEF Proceeds, OnSchedule
  <2>2. \/ phase[k] = "COLLECT" /\ phase'[k] = "FREEZE"
        \/ phase[k] = "FREEZE" /\ phase'[k] = "SYNC"
        \/ phase[k] = "SYNC" /\ phase'[k] = "PROPOSE"
    BY <1>3 DEF Proceeds, NextPhase, TypeOK
  <2>3. /\ now <= LeaveTime(phase'[k], Genesis, slot[k], BaseDelta) + MaxLag
        /\ phase'[k] = "PROPOSE" => now >= SyncEnd(Genesis, slot[k], BaseDelta)
        /\ phase'[k] # "FINALIZE"
    BY <1>b, <1>e, <2>1, <2>2, LeaveTimes
  <2> QED
    BY <1>f, <2>1, <2>3 DEF OnSchedule
<1>4. ASSUME NEW b, Finalises(k, b) PROVE OnSchedule(k)'
  <2>1. /\ running[k] /\ running'[k] /\ slot'[k] = slot[k] /\ phase[k] = "PROPOSE"
        /\ phase'[k] = "FINALIZE" /\ now >= Due(k)
    BY <1>4 DEF Finalises, TypeOK
  <2>2. /\ now >= ProposeEnd(Genesis, slot[k], BaseDelta)
        /\ now <= ProposeEnd(Genesis, slot[k], BaseDelta) + MaxLag
    BY <1>d, <2>1, LeaveTimes DEF OnSchedule
  <2>3. now <= FinalizeEnd(Genesis, slot[k], BaseDelta) + MaxLag
    BY <1>b, <1>e, <2>2
  <2> QED
    BY <1>f, <2>1, <2>2, <2>3, LeaveTimes DEF OnSchedule
<1>5. CASE ToCollect(k)
  <2>1. /\ slot'[k] = slot[k] + 1 /\ phase'[k] = "COLLECT" /\ running[k] /\ running'[k]
        /\ phase[k] = "FINALIZE" /\ now >= Due(k)
    BY <1>5 DEF ToCollect, Leaves, NextPhase, TypeOK
  <2>2. /\ now >= FinalizeEnd(Genesis, slot[k], BaseDelta)
        /\ now <= FinalizeEnd(Genesis, slot[k], BaseDelta) + MaxLag
    BY <1>d, <2>1, LeaveTimes DEF OnSchedule
  <2>3. /\ now <= Freeze(Genesis, slot[k] + 1, BaseDelta) + MaxLag
        /\ now >= Start(Genesis, slot[k] + 1)
    BY <1>b, <1>c, <1>d, <1>e, <2>2
  <2>4. slot'[k] - 1 = slot[k]
    BY <1>d, <2>1
  <2> QED
    BY <2>1, <2>2, <2>3, <2>4, LeaveTimes DEF OnSchedule
<1> QED
  BY <1>1, <1>2, <1>3, <1>4, <1>5, NodeMoves

\* The clock moves when nobody who is up is late, and nothing overdue at one of them.
LEMMA FaultClock ==
  ASSUME [FaultNext]_<<vars, faultVars>>
  PROVE  now' = now \/ (TickWithFaults /\ UNCHANGED faultVars)
<1> USE DEF clockVars, nets
<1>1. ASSUME NEW n \in up, Works(n) PROVE now' = now
  BY <1>1
  DEF Works, StartAgain, StartSlotManager, ToFreeze, ToSync, ToPropose, ToCollect, Leaves,
      FinalizeWinner, FinalizeSkip, FinalizeEmergency, FinishFinalize, Skip,
      OnTx, OnDigest, OnBatch, OnLateBatch, OnMempoolSync
<1>2. ASSUME NEW n \in up, Serves(n) PROVE now' = now
  BY <1>2 DEF Serves, Submit, SubmitThrows
<1>3. ASSUME NEW n \in Nodes, Crash(n) \/ Relaunch(n) PROVE now' = now
  BY <1>3 DEF Crash, Relaunch
<1>4. CASE Horizon \/ UNCHANGED <<vars, faultVars>>
  BY <1>4 DEF Horizon, vars
<1> QED
  BY <1>1, <1>2, <1>3, <1>4 DEF FaultNext

\* A phase is entered from the one before it, by a timer that is due, whatever else
\* happens: nobody is in SYNC or beyond because of a crash.
LEMMA FaultEntering ==
  ASSUME FaultTypeOK, [FaultNext]_<<vars, faultVars>>, NEW n \in Nodes
  PROVE  /\ Enters(n, "SYNC")     => running[n] /\ phase[n] = "FREEZE" /\ now >= Due(n)
         /\ Enters(n, "PROPOSE")  => running[n] /\ phase[n] = "SYNC" /\ now >= Due(n)
         /\ Enters(n, "FINALIZE") => running[n] /\ phase[n] = "PROPOSE" /\ now >= Due(n)
<1>a. TypeOK
  BY DEF FaultTypeOK
<1>1. CASE Ordinary
  BY <1>a, <1>1, Entering DEF Ordinary
<1>2. ASSUME Aside \/ \E x \in Nodes : Crash(x) \/ Relaunch(x)
      PROVE  phase'[n] = phase[n] \/ phase'[n] = "COLLECT"
  BY <1>a, <1>2 DEF Aside, Crash, Relaunch, clockVars, TypeOK
<1> QED
  BY <1>1, <1>2, FaultSteps DEF Enters

\* A survivor that has settled a slot has seen the end of its PROPOSE.
LEMMA SurvivorPast ==
  ASSUME Standing, Schedule, NEW k \in Survivors, NEW s \in Nat, OpenSlot(k) > s
  PROVE  now >= Start(Genesis, s) + BaseDelta + ProposeWindow
<1>a. /\ k \in Nodes /\ k \notin crashed /\ TypeOK /\ StartsInSlot0(k) /\ OnSchedule(k)
      /\ slot[k] \in Nat
  BY DEF Standing, Schedule, Survivors, FaultTypeOK, TypeOK, FromSlot0
<1>b. /\ BaseDelta \in Nat /\ ProposeWindow \in Nat /\ FinalizeWindow \in Nat /\ now \in Nat
      /\ Start(Genesis, s) \in Int
  BY <1>a, TimetableTypes, PhaseEnds DEF TypeOK
<1>1. CASE slot[k] > s
  <2>1. running[k] /\ slot[k] - 1 \in Nat /\ s <= slot[k] - 1
    BY <1>1, <1>a DEF StartsInSlot0
  <2>2. now >= FinalizeEnd(Genesis, slot[k] - 1, BaseDelta)
    BY <1>1, <1>a, <2>1 DEF OnSchedule
  <2>3. Start(Genesis, slot[k] - 1) \in Int /\ Start(Genesis, s) <= Start(Genesis, slot[k] - 1)
    BY <2>1, StartsGrow
  <2>4. FinalizeEnd(Genesis, slot[k] - 1, BaseDelta)
          = Start(Genesis, slot[k] - 1) + BaseDelta + ProposeWindow + FinalizeWindow
    BY <2>1, PhaseEnds
  <2> QED
    BY <1>b, <2>2, <2>3, <2>4
<1>2. CASE ~(slot[k] > s)
  <2>1. phase[k] = "FINALIZE" /\ slot[k] = s
    BY <1>a, <1>2 DEF OpenSlot
  <2>2. running[k]
    BY <1>a, <2>1 DEF StartsInSlot0
  <2>3. now >= ProposeEnd(Genesis, s, BaseDelta)
    BY <1>a, <2>1, <2>2 DEF OnSchedule
  <2> QED
    BY <2>3, PhaseEnds
<1> QED
  BY <1>1, <1>2

\* When node n enters a phase.
LEMMA EntryTimes ==
  ASSUME Standing, Schedule, Unstretched, [FaultNext]_<<vars, faultVars>>, NEW n \in Nodes
  PROVE  /\ slot[n] \in Nat
         /\ Enters(n, "SYNC") =>
              now <= Start(Genesis, slot[n]) + BaseDelta - Epsilon + MaxLag
         /\ Enters(n, "PROPOSE") =>
              /\ now >= Start(Genesis, slot[n]) + BaseDelta
              /\ now <= Start(Genesis, slot[n]) + BaseDelta + MaxLag
         /\ Enters(n, "FINALIZE") => now >= Start(Genesis, slot[n]) + BaseDelta + ProposeWindow
<1>a. /\ FaultTypeOK /\ slot[n] \in Nat /\ OnSchedule(n)
      /\ Due(n) = LeaveTime(phase[n], Genesis, slot[n], BaseDelta)
  BY DEF Standing, FaultTypeOK, TypeOK, Schedule, Due, Unstretched
<1>b. /\ Freeze(Genesis, slot[n], BaseDelta) = Start(Genesis, slot[n]) + BaseDelta - Epsilon
      /\ SyncEnd(Genesis, slot[n], BaseDelta) = Start(Genesis, slot[n]) + BaseDelta
      /\ ProposeEnd(Genesis, slot[n], BaseDelta) = Start(Genesis, slot[n]) + BaseDelta + ProposeWindow
  BY <1>a, PhaseEnds
<1>1. ASSUME Enters(n, "SYNC") PROVE now <= Start(Genesis, slot[n]) + BaseDelta - Epsilon + MaxLag
  <2>1. running[n] /\ phase[n] = "FREEZE"
    BY <1>1, <1>a, FaultEntering
  <2> QED
    BY <1>a, <1>b, <2>1, LeaveTimes DEF OnSchedule
<1>2. ASSUME Enters(n, "PROPOSE")
      PROVE  /\ now >= Start(Genesis, slot[n]) + BaseDelta
             /\ now <= Start(Genesis, slot[n]) + BaseDelta + MaxLag
  <2>1. running[n] /\ phase[n] = "SYNC" /\ now >= Due(n)
    BY <1>2, <1>a, FaultEntering
  <2> QED
    BY <1>a, <1>b, <2>1, LeaveTimes DEF OnSchedule
<1>3. ASSUME Enters(n, "FINALIZE")
      PROVE  now >= Start(Genesis, slot[n]) + BaseDelta + ProposeWindow
  <2>1. running[n] /\ phase[n] = "PROPOSE" /\ now >= Due(n)
    BY <1>3, <1>a, FaultEntering
  <2> QED
    BY <1>a, <1>b, <2>1, LeaveTimes
<1> QED
  BY <1>a, <1>1, <1>2, <1>3

\* The survivors' digests have their time.
LEMMA ScheduleForDigests ==
  ASSUME TimetableFits, Standing, Schedule, Unstretched, [FaultNext]_<<vars, faultVars>>
  PROVE  SurvivorDigestsTimely
<1>a. /\ BaseDelta \in Nat /\ Epsilon \in Nat /\ MaxLag \in Nat /\ MaxDelay \in Nat /\ now \in Nat
      /\ MaxLag + MaxDelay < Epsilon
  BY TimetableTypes DEF Standing, FaultTypeOK, TypeOK, TimetableFits
<1>1. ASSUME NEW n \in Nodes, n \in Survivors, Enters(n, "PROPOSE"), NEW m \in digestNet,
             m.to = n, m.body.slot = slot[n]
      PROVE  FALSE
  <2>1. slot[n] \in Nat /\ now >= Start(Genesis, slot[n]) + BaseDelta
    BY <1>1, EntryTimes
  <2>2. /\ m.at \in Nat /\ now <= m.at + MaxDelay
        /\ m.at <= Freeze(Genesis, slot[n], BaseDelta) + MaxLag
    BY <1>1 DEF Schedule, PromptToSurvivors, SentBy
  <2> QED
    BY <1>a, <2>1, <2>2, PhaseEnds
<1>2. ASSUME NEW n \in Nodes, Enters(n, "SYNC"), NEW k \in Survivors,
             phase[k] = "PROPOSE", slot[k] = slot[n]
      PROVE  FALSE
  <2>1. slot[n] \in Nat /\ now <= Start(Genesis, slot[n]) + BaseDelta - Epsilon + MaxLag
    BY <1>2, EntryTimes
  <2>2. now >= SyncEnd(Genesis, slot[n], BaseDelta)
    <3>1. OnSchedule(k) /\ StartsInSlot0(k)
      BY DEF Schedule, Survivors, Standing, FromSlot0
    <3> QED
      BY <1>2, <3>1 DEF OnSchedule, StartsInSlot0
  <2> QED
    BY <1>a, <2>1, <2>2, PhaseEnds
<1> QED
  BY <1>1, <1>2 DEF SurvivorDigestsTimely

\* Their proposals have, too.
LEMMA ScheduleForProposals ==
  ASSUME TimetableFits, Standing, Schedule, Unstretched, [FaultNext]_<<vars, faultVars>>
  PROVE  SurvivorProposalsTimely
<1>a. /\ BaseDelta \in Nat /\ ProposeWindow \in Nat /\ MaxLag \in Nat /\ MaxDelay \in Nat
      /\ now \in Nat /\ MaxLag + MaxDelay < ProposeWindow
  BY TimetableTypes DEF Standing, FaultTypeOK, TypeOK, TimetableFits
\* A proposal on its way to a survivor.
<1>b. ASSUME NEW m \in batchNet, m.to \in Survivors
      PROVE  /\ m.body.slot \in Nat /\ Start(Genesis, m.body.slot) \in Int
             /\ now <= Start(Genesis, m.body.slot) + BaseDelta + MaxLag + MaxDelay
  <2>1. m.body.slot \in Nat
    BY DEF Standing, FaultTypeOK, TypeOK, WellFormed
  <2>2. /\ m.at \in Nat /\ now <= m.at + MaxDelay
        /\ m.at <= SyncEnd(Genesis, m.body.slot, BaseDelta) + MaxLag
    BY <1>b DEF Schedule, PromptToSurvivors, SentBy
  <2> QED
    BY <1>a, <2>1, <2>2, PhaseEnds
<1>1. ASSUME NEW n \in Nodes, n \in Survivors, Enters(n, "FINALIZE"), NEW m \in batchNet,
             m.to = n, m.body.slot = slot[n]
      PROVE  FALSE
  <2>1. now >= Start(Genesis, slot[n]) + BaseDelta + ProposeWindow
    BY <1>1, EntryTimes
  <2>2. Start(Genesis, slot[n]) \in Int /\ now <= Start(Genesis, slot[n]) + BaseDelta + MaxLag + MaxDelay
    BY <1>1, <1>b
  <2> QED
    BY <1>a, <2>1, <2>2
<1>2. ASSUME NEW n \in Nodes, Enters(n, "PROPOSE"), NEW k \in Survivors
      PROVE  OpenSlot(k) <= slot[n]
  <2>1. slot[n] \in Nat /\ now <= Start(Genesis, slot[n]) + BaseDelta + MaxLag
    BY <1>2, EntryTimes
  <2>2. OpenSlot(k) > slot[n] => now >= Start(Genesis, slot[n]) + BaseDelta + ProposeWindow
    BY <2>1, SurvivorPast
  <2>3. OpenSlot(k) \in Nat /\ Start(Genesis, slot[n]) \in Int
    BY <2>1, PhaseEnds DEF Standing, FaultTypeOK, TypeOK, OpenSlot, Survivors
  <2> QED
    BY <1>a, <2>1, <2>2, <2>3
<1>3. ASSUME NEW m \in batchNet, m.to \in Survivors, OnLateBatch(m) PROVE FALSE
  <2>1. /\ m.body.slot \in Nat /\ Start(Genesis, m.body.slot) \in Int
        /\ now <= Start(Genesis, m.body.slot) + BaseDelta + MaxLag + MaxDelay
    BY <1>3, <1>b
  <2>2. now > ProposeEnd(Genesis, m.body.slot, BaseDelta)
    BY <1>3 DEF OnLateBatch, Late, Unstretched, Survivors
  <2> QED
    BY <1>a, <2>1, <2>2, PhaseEnds
<1> QED
  BY <1>1, <1>2, <1>3 DEF SurvivorProposalsTimely

\* And no survivor misses another's vote.
LEMMA ScheduleLetsVote ==
  ASSUME TimetableFits, Standing, Schedule, Unstretched, [FaultNext]_<<vars, faultVars>>
  PROVE  SurvivorsHaveVoted
<1>a. /\ Genesis \in Nat /\ BaseDelta \in Nat /\ Epsilon \in Nat /\ ProposeWindow \in Nat
      /\ FinalizeWindow \in Nat /\ MaxLag \in Nat /\ MaxDelay \in Nat /\ now \in Nat
      /\ LastStart \in Nat
  BY TimetableTypes DEF Standing, FaultTypeOK, TypeOK
<1>b. /\ MaxLag < Epsilon /\ LastStart <= Genesis + BaseDelta - Epsilon
      /\ ProposeWindow + FinalizeWindow <= BaseDelta - Epsilon
  BY <1>a DEF TimetableFits
<1> SUFFICES ASSUME NEW n \in Survivors, NEW k \in Survivors, Enters(n, "PROPOSE"),
                    ~HasVoted(k, slot[n])
             PROVE  FALSE
  BY DEF SurvivorsHaveVoted
<1>c. /\ n \in Nodes /\ k \in Nodes /\ slot[k] \in Nat /\ phase[k] \in Phases
      /\ OnSchedule(k) /\ StartsInSlot0(k)
  BY DEF Standing, FaultTypeOK, TypeOK, Survivors, Schedule, FromSlot0
<1>1. slot[n] \in Nat /\ now >= Start(Genesis, slot[n]) + BaseDelta
  BY <1>c, EntryTimes
<1>d. Start(Genesis, slot[n]) \in Int /\ Start(Genesis, slot[k]) \in Int
  BY <1>c, <1>1, PhaseEnds
<1>2. CASE ~running[k]
  <2>1. now <= LastStart
    BY <1>2, <1>c DEF StartsInSlot0
  <2>2. Start(Genesis, 0) <= Start(Genesis, slot[n]) /\ Start(Genesis, 0) = Genesis
    BY <1>a, <1>1, StartsGrow DEF Start
  <2> QED
    BY <1>a, <1>b, <1>d, <1>1, <2>1, <2>2
<1>3. CASE running[k]
  <2>1. now <= LeaveTime(phase[k], Genesis, slot[k], BaseDelta) + MaxLag
    BY <1>3, <1>c DEF OnSchedule
  <2>2. CASE slot[k] = slot[n] /\ phase[k] \in {"COLLECT", "FREEZE"}
    <3>1. now <= Freeze(Genesis, slot[n], BaseDelta) + MaxLag
      BY <2>1, <2>2, LeaveTimes
    <3> QED
      BY <1>a, <1>b, <1>d, <1>1, <3>1, PhaseEnds
  <2>3. CASE slot[k] < slot[n]
    <3>1. LeaveTime(phase[k], Genesis, slot[k], BaseDelta)
            <= Start(Genesis, slot[k]) + BaseDelta + ProposeWindow + FinalizeWindow
          /\ LeaveTime(phase[k], Genesis, slot[k], BaseDelta) \in Int
      BY <1>a, <1>c, <1>d, LeaveTimes DEF Phases, Freeze, SyncEnd, ProposeEnd, FinalizeEnd
    <3>2. /\ Start(Genesis, slot[k] + 1) = Start(Genesis, slot[k]) + BaseDelta
          /\ Start(Genesis, slot[k] + 1) <= Start(Genesis, slot[n])
      <4>1. slot[k] + 1 \in Nat /\ slot[k] + 1 <= slot[n]
        BY <1>c, <1>1, <2>3
      <4> QED
        BY <1>c, <1>1, <4>1, StartsGrow
    <3> QED
      BY <1>a, <1>b, <1>d, <1>1, <2>1, <3>1, <3>2
  <2> QED
    BY <1>c, <1>1, <2>2, <2>3 DEF HasVoted
<1> QED
  BY <1>2, <1>3

\* A node that starts does so before the cutoff of the slot it starts in.
LEMMA StartsInTime ==
  ASSUME TimetableFits, RelaunchFits, Standing, Schedule, Ordinary,
         NEW k \in Nodes, ~running[k], running'[k]
  PROVE  /\ now <= Freeze(Genesis, WallSlot(Genesis, now), BaseDelta)
         /\ k \in crashed \/ WallSlot(Genesis, now) = 0
<1>a. /\ Genesis \in Nat /\ BaseDelta \in Nat /\ Epsilon \in Nat /\ LastStart \in Nat
      /\ RestartWait \in Nat /\ MaxLag \in Nat /\ MaxDelay \in Nat /\ now \in Nat
  BY TimetableTypes DEF Standing, FaultTypeOK, TypeOK
<1>b. k \in up /\ (k \in crashed => now >= launched[k] + RestartWait)
  BY DEF Ordinary
<1>1. CASE k \in crashed
  <2>1. launched[k] \in RelaunchTimes /\ launched[k] \in Nat /\ now <= launched[k] + RestartWait
    BY <1>b, <1>1, TimetableTypes DEF Schedule, Returning
  <2>2. now = launched[k] + RestartWait
    BY <1>a, <1>b, <1>1, <2>1
  <2> QED
    BY <1>1, <2>1, <2>2 DEF RelaunchFits
<1>2. CASE k \notin crashed
  <2>1. now <= LastStart
    BY <1>2 DEF Standing, FromSlot0, StartsInSlot0, Survivors
  <2>2. now <= Genesis + BaseDelta - Epsilon /\ Epsilon > 0
    BY <1>a, <2>1 DEF TimetableFits
  <2>3. WallSlot(Genesis, now) = 0
    BY <1>a, <2>2, WallSlot0
  <2>4. Freeze(Genesis, 0, BaseDelta) = Genesis + BaseDelta - Epsilon
    BY <1>a DEF Freeze, Start
  <2> QED
    BY <2>2, <2>3, <2>4
<1> QED
  BY <1>1, <1>2

\* The steps of the nodes that are up keep to the schedule.
LEMMA ScheduleOrdinary ==
  ASSUME TimetableFits, RelaunchFits, Standing, Schedule, Unstretched, Ordinary
  PROVE  Schedule'
<1>a. /\ TypeOK /\ [Next]_vars /\ now \in Nat /\ MaxDelay \in Nat
      /\ UNCHANGED <<now, up, launched, crashed>>
  BY TimetableTypes DEF Standing, FaultTypeOK, TypeOK, Ordinary
<1>1. ASSUME NEW k \in Nodes PROVE OnSchedule(k)'
  <2>1. effectiveDelta[k] = BaseDelta /\ OnSchedule(k)
    BY DEF Unstretched, Schedule
  <2> QED
    BY <1>a, <2>1, StartsInTime, ScheduleMoves
<1>2. Returning'
  <2> SUFFICES ASSUME NEW k \in up \cap crashed
               PROVE  /\ launched[k] \in RelaunchTimes
                      /\ ~running'[k] => now <= launched[k] + RestartWait
    BY <1>a DEF Returning
  <2>1. k \in Nodes
    BY DEF Standing, FaultTypeOK
  <2>2. running[k] => running'[k]
    BY <1>a, <2>1, NodeMoves
    DEF StartSlotManager, Proceeds, ToCollect, Leaves, Finalises, TypeOK
  <2> QED
    BY <2>2 DEF Schedule, Returning
\* What was under way goes on, and what is sent is sent in its phase.
<1>3. ASSUME NEW m, NEW e, SentBy(m, e) PROVE SentBy(m, e)'
  BY <1>3, <1>a DEF SentBy, Survivors
<1>4. ASSUME NEW m, NEW e, m.at = now, now <= e + MaxLag PROVE SentBy(m, e)'
  BY <1>4, <1>a DEF SentBy
<1>5. ASSUME NEW m \in digestNet' PROVE SentBy(m, Freeze(Genesis, m.body.slot, BaseDelta))'
  <2>1. CASE m \in digestNet
    <3>1. SentBy(m, Freeze(Genesis, m.body.slot, BaseDelta))
      BY <2>1 DEF Schedule, PromptToSurvivors
    <3> QED
      BY <3>1, <1>3
  <2>2. ASSUME NEW n \in Nodes, NEW c, VotesNow(n, c), m \notin digestNet
        PROVE  SentBy(m, Freeze(Genesis, m.body.slot, BaseDelta))'
    <3>1. m.body = c /\ m.at = now /\ c.slot = slot[n]
      BY <2>2 DEF VotesNow, Publishes, Publish
    <3>2. running[n] /\ phase[n] = "FREEZE"
      BY <2>2 DEF VotesNow, ToSync, Leaves
    <3>3. now <= Freeze(Genesis, slot[n], BaseDelta) + MaxLag
      BY <3>2, LeaveTimes DEF Schedule, OnSchedule
    <3> QED
      BY <3>1, <3>3, <1>4
  <2>3. m \in digestNet \/ \E n \in Nodes : \E c : VotesNow(n, c)
    BY OrdinaryDigests DEF Trims, Delivers
  <2> QED
    BY <2>1, <2>2, <2>3
<1>6. ASSUME NEW m \in batchNet' PROVE SentBy(m, SyncEnd(Genesis, m.body.slot, BaseDelta))'
  <2>1. CASE m \in batchNet
    <3>1. SentBy(m, SyncEnd(Genesis, m.body.slot, BaseDelta))
      BY <2>1 DEF Schedule, PromptToSurvivors
    <3> QED
      BY <3>1, <1>3
  <2>2. ASSUME NEW n \in Nodes, NEW c, ProposesNow(n, c), m \notin batchNet
        PROVE  SentBy(m, SyncEnd(Genesis, m.body.slot, BaseDelta))'
    <3>1. m.body = c /\ m.at = now /\ c.slot = slot[n] /\ running[n] /\ phase[n] = "SYNC"
      BY <2>2 DEF ProposesNow, Publishes, Publish
    <3>2. now <= SyncEnd(Genesis, slot[n], BaseDelta) + MaxLag
      BY <3>1, LeaveTimes DEF Schedule, OnSchedule
    <3> QED
      BY <3>1, <3>2, <1>4
  <2>3. m \in batchNet \/ \E n \in Nodes : \E c : ProposesNow(n, c)
    BY OrdinaryBatches DEF Trims, Delivers, OnLateBatch
  <2> QED
    BY <2>1, <2>2, <2>3
<1> QED
  BY <1>1, <1>2, <1>5, <1>6 DEF Schedule, PromptToSurvivors

\* The clock keeps to it: it does not go on before a node that is late has acted.
LEMMA ScheduleTick ==
  ASSUME Standing, Schedule, Unstretched, TickWithFaults, UNCHANGED faultVars
  PROVE  Schedule'
<1>a. /\ TypeOK /\ Down /\ now \in Nat /\ now' = now + 1 /\ up \subseteq Nodes
      /\ UNCHANGED <<running, slot, phase, digestNet, batchNet, up, launched, crashed>>
      /\ MaxLag \in Nat /\ MaxDelay \in Nat /\ RestartWait \in Nat
  BY TimetableTypes
  DEF Standing, FaultTypeOK, TypeOK, TickWithFaults, faultVars, clockVars, nets
<1>b. /\ BaseDelta \in Nat /\ Epsilon \in Nat /\ ProposeWindow \in Nat /\ FinalizeWindow \in Nat
  BY TimetableTypes
<1>1. ASSUME NEW k \in Nodes PROVE OnSchedule(k)'
  <2> SUFFICES ASSUME running[k] PROVE OnSchedule(k)'
    BY <1>a DEF OnSchedule
  <2>1. /\ slot[k] \in Nat /\ phase[k] \in Phases /\ OnSchedule(k)
        /\ Due(k) = LeaveTime(phase[k], Genesis, slot[k], BaseDelta)
    BY <1>a DEF TypeOK, Schedule, Due, Unstretched
  <2>2. now < LeaveTime(phase[k], Genesis, slot[k], BaseDelta) + MaxLag
    <3>1. k \in up
      BY <1>a DEF Down
    <3> QED
      BY <2>1, <3>1 DEF TickWithFaults
  <2>3. /\ Start(Genesis, slot[k]) \in Int /\ SyncEnd(Genesis, slot[k], BaseDelta) \in Int
        /\ ProposeEnd(Genesis, slot[k], BaseDelta) \in Int
        /\ LeaveTime(phase[k], Genesis, slot[k], BaseDelta) \in Int
    BY <1>b, <2>1, PhaseEnds, LeaveTimes DEF Phases
  <2>4. slot[k] = 0 \/ FinalizeEnd(Genesis, slot[k] - 1, BaseDelta) \in Int
    BY <1>b, <2>1, PhaseEnds
  <2> QED
    BY <1>a, <2>1, <2>2, <2>3, <2>4 DEF OnSchedule
<1>2. Returning'
  <2> SUFFICES ASSUME NEW k \in up \cap crashed
               PROVE  /\ launched[k] \in RelaunchTimes
                      /\ ~running[k] => now + 1 <= launched[k] + RestartWait
    BY <1>a DEF Returning
  <2>1. launched[k] \in RelaunchTimes /\ launched[k] \in Nat
    BY TimetableTypes DEF Schedule, Returning
  <2>2. ~running[k] => now < launched[k] + RestartWait
    BY DEF TickWithFaults, StartBy
  <2> QED
    BY <1>a, <2>1, <2>2
<1>3. ASSUME NEW m, NEW e, SentBy(m, e), m.to \in Survivors => now < m.at + MaxDelay
      PROVE  SentBy(m, e)'
  BY <1>3, <1>a DEF SentBy, Survivors
<1>4. ASSUME NEW m \in digestNet PROVE SentBy(m, Freeze(Genesis, m.body.slot, BaseDelta))'
  <2>1. SentBy(m, Freeze(Genesis, m.body.slot, BaseDelta))
    BY DEF Schedule, PromptToSurvivors
  <2>2. m.to \in Survivors => now < m.at + MaxDelay
    BY <1>a, SurvivorsUp DEF TickWithFaults, InTime, To
  <2> QED
    BY <1>3, <2>1, <2>2
<1>5. ASSUME NEW m \in batchNet PROVE SentBy(m, SyncEnd(Genesis, m.body.slot, BaseDelta))'
  <2>1. SentBy(m, SyncEnd(Genesis, m.body.slot, BaseDelta))
    BY DEF Schedule, PromptToSurvivors
  <2>2. m.to \in Survivors => now < m.at + MaxDelay
    BY <1>a, SurvivorsUp DEF TickWithFaults, InTime, To
  <2> QED
    BY <1>3, <2>1, <2>2
<1> QED
  BY <1>a, <1>1, <1>2, <1>4, <1>5 DEF Schedule, PromptToSurvivors

\* A step that leaves the clock and the nodes that run alone.
LEMMA ScheduleFewer ==
  ASSUME Standing, Schedule, now' = now, crashed \subseteq crashed',
         digestNet' \subseteq digestNet, batchNet' \subseteq batchNet,
         \A k \in Nodes : running'[k] =>
           running[k] /\ slot'[k] = slot[k] /\ phase'[k] = phase[k],
         Returning'
  PROVE  Schedule'
<1>1. ASSUME NEW k \in Nodes PROVE OnSchedule(k)'
  BY DEF Schedule, OnSchedule
<1>2. ASSUME NEW m, NEW e, SentBy(m, e) PROVE SentBy(m, e)'
  BY <1>2 DEF SentBy, Survivors
<1>3. ASSUME NEW m \in digestNet' PROVE SentBy(m, Freeze(Genesis, m.body.slot, BaseDelta))'
  <2>1. SentBy(m, Freeze(Genesis, m.body.slot, BaseDelta))
    BY DEF Schedule, PromptToSurvivors
  <2> QED
    BY <1>2, <2>1
<1>4. ASSUME NEW m \in batchNet' PROVE SentBy(m, SyncEnd(Genesis, m.body.slot, BaseDelta))'
  <2>1. SentBy(m, SyncEnd(Genesis, m.body.slot, BaseDelta))
    BY DEF Schedule, PromptToSurvivors
  <2> QED
    BY <1>2, <2>1
<1> QED
  BY <1>1, <1>3, <1>4 DEF Schedule, PromptToSurvivors

\* No crash, no return and no other step up to the first skip breaks the schedule.
LEMMA ScheduleInductive ==
  ASSUME TimetableFits, RelaunchFits, Standing, Schedule, Unstretched,
         [FaultNext]_<<vars, faultVars>>
  PROVE  Schedule'
<1>a. FaultTypeOK /\ TypeOK /\ up \subseteq Nodes /\ Down /\ Returning /\ now \in Nat
  BY DEF Standing, FaultTypeOK, TypeOK, Schedule
<1>1. CASE Ordinary
  BY <1>1, ScheduleOrdinary
<1>2. CASE TickWithFaults /\ UNCHANGED faultVars
  BY <1>2, ScheduleTick
<1>3. CASE Aside /\ now' = now
  <2>1. UNCHANGED <<now, running, slot, phase, digestNet, batchNet, up, launched, crashed>>
    BY <1>3 DEF Aside, clockVars, nets
  <2>2. Returning'
    BY <1>a, <2>1 DEF Returning
  <2> QED
    BY <2>1, <2>2, ScheduleFewer
<1>4. ASSUME NEW x \in Nodes, Crash(x) PROVE Schedule'
  <2>1. /\ now' = now /\ crashed' = crashed \cup {x} /\ up' = up \ {x} /\ launched' = launched
        /\ running' = [running EXCEPT ![x] = FALSE] /\ slot' = slot
        /\ phase' = [phase EXCEPT ![x] = "COLLECT"]
        /\ digestNet' \subseteq digestNet /\ batchNet' \subseteq batchNet
    BY <1>4 DEF Crash
  <2>2. \A k \in Nodes : k # x => running'[k] = running[k] /\ phase'[k] = phase[k]
    BY <1>a, <2>1 DEF TypeOK
  <2>3. ~running'[x]
    BY <1>a, <2>1 DEF TypeOK
  <2>4. Returning'
    <3> SUFFICES ASSUME NEW k \in up' \cap crashed'
                 PROVE  /\ launched'[k] \in RelaunchTimes
                        /\ ~running'[k] => now' <= launched'[k] + RestartWait
      BY DEF Returning
    <3>1. k \in up \cap crashed /\ k # x /\ k \in Nodes
      BY <1>a, <2>1
    <3> QED
      BY <1>a, <2>1, <2>2, <3>1 DEF Returning
  <2> QED
    BY <2>1, <2>2, <2>3, <2>4, ScheduleFewer
<1>5. ASSUME NEW x \in Nodes, Relaunch(x) PROVE Schedule'
  <2>1. /\ now' = now /\ crashed' = crashed /\ up' = up \cup {x} /\ x \notin up
        /\ launched' = [launched EXCEPT ![x] = now] /\ now \in RelaunchTimes
        /\ running' = running /\ phase' = phase
        /\ digestNet' \subseteq digestNet /\ batchNet' \subseteq batchNet
    BY <1>5 DEF Relaunch, NotTo
  <2>2. \A k \in Nodes : k # x => slot'[k] = slot[k] /\ launched'[k] = launched[k]
    BY <1>5, <1>a DEF Relaunch, FaultTypeOK, TypeOK
  <2>3. ~running'[x] /\ launched'[x] = now
    BY <1>a, <2>1 DEF Down, FaultTypeOK
  <2>4. Returning'
    <3> SUFFICES ASSUME NEW k \in up' \cap crashed'
                 PROVE  /\ launched'[k] \in RelaunchTimes
                        /\ ~running'[k] => now' <= launched'[k] + RestartWait
      BY DEF Returning
    <3>1. CASE k = x
      <4>1. now <= now + RestartWait
        BY <1>a, TimetableTypes
      <4> QED
        BY <2>1, <2>3, <3>1, <4>1
    <3>2. CASE k # x
      <4>1. k \in up \cap crashed /\ k \in Nodes
        BY <1>a, <2>1, <3>2
      <4> QED
        BY <1>a, <2>1, <2>2, <3>2, <4>1 DEF Returning
    <3> QED
      BY <3>1, <3>2
  <2> QED
    BY <2>1, <2>2, <2>3, <2>4, ScheduleFewer
<1> QED
  BY <1>a, <1>1, <1>2, <1>3, <1>4, <1>5, FaultSteps, FaultClock

\* Every node is on schedule to begin with.
LEMMA ScheduleInit ==
  ASSUME FaultInit
  PROVE  Schedule
<1>1. \A n \in Nodes : ~running[n]
  BY DEF FaultInit, Init
<1>2. crashed = {} /\ digestNet = {} /\ batchNet = {}
  BY DEF FaultInit, Init
<1> QED
  BY <1>1, <1>2 DEF Schedule, OnSchedule, Returning, PromptToSurvivors

\* Nodes that start before the cutoff of slot 0 start in it.
LEMMA FitsStartsInSlot0 == ASSUME TimetableFits PROVE LastStart < Genesis + BaseDelta
<1>1. /\ Genesis \in Nat /\ BaseDelta \in Nat /\ Epsilon \in Nat /\ LastStart \in Nat
      /\ MaxLag \in Nat /\ MaxDelay \in Nat
  BY TimetableTypes
<1> QED
  BY <1>1 DEF TimetableFits

\* Up to the first skipped slot, whoever crashes and returns, the timetable that fits
\* without faults gives the survivors' digests and proposals their time and lets each
\* hear the others' votes, if a returning node waits for as long as the cutoff, and
\* then starts before the cutoff of a slot.
THEOREM TimetableForSurvivors ==
  ASSUME TimetableFits, RelaunchFits, Epsilon <= RestartWait
  PROVE  FaultSpec /\ [][Unstretched]_<<vars, faultVars>>
           => SurvivorDigestsInTime /\ SurvivorProposalsInTime /\ SurvivorsVoteInTime
<1>1. FaultInit => Standing /\ Schedule
  BY StandingInit, ScheduleInit, FitsStartsInSlot0
<1>2. Standing /\ [FaultNext]_<<vars, faultVars>> => Standing'
  BY StandingInductive, FitsStartsInSlot0
<1>3. Standing /\ Schedule /\ [FaultNext]_<<vars, faultVars>> /\ [Unstretched]_<<vars, faultVars>>
        => Schedule'
  <2>1. CASE Unstretched
    BY <2>1, ScheduleInductive
  <2>2. CASE UNCHANGED <<vars, faultVars>>
    <3>1. UNCHANGED <<now, running, slot, phase, digestNet, batchNet, up, launched, crashed>>
      BY <2>2 DEF vars, clockVars, nets, faultVars
    <3>2. Returning => Returning'
      BY <3>1 DEF Returning
    <3> QED
      BY <3>1, <3>2, ScheduleFewer DEF Schedule
  <2> QED
    BY <2>1, <2>2
<1>4. Standing /\ Schedule /\ [FaultNext]_<<vars, faultVars>> /\ [Unstretched]_<<vars, faultVars>>
        => /\ [~split => SurvivorDigestsTimely]_<<vars, faultVars>>
           /\ [~split => SurvivorProposalsTimely]_<<vars, faultVars>>
           /\ [~split => SurvivorsHaveVoted]_<<vars, faultVars>>
  BY ScheduleForDigests, ScheduleForProposals, ScheduleLetsVote
<1> QED
  BY <1>1, <1>2, <1>3, <1>4, PTL
  DEF FaultSpec, SurvivorDigestsInTime, SurvivorProposalsInTime, SurvivorsVoteInTime

\* So, up to the first skipped slot, the survivors agree and keep their promises on such
\* a timetable, if those that may crash are a minority.
THEOREM SurvivorsOnTimetable ==
  ASSUME TimetableFits, RelaunchFits, Epsilon <= RestartWait, OutputsAreNumbers,
         2 * MaxCrashes < Cardinality(Nodes)
  PROVE  FaultSpec /\ [][Unstretched]_<<vars, faultVars>> => [](SurvivorsAgree /\ SurvivorsInclude)
<1>1. LastStart < Genesis + BaseDelta
  BY FitsStartsInSlot0
<1>2. FaultSpec /\ [][Unstretched]_<<vars, faultVars>>
        => SurvivorDigestsInTime /\ SurvivorProposalsInTime /\ SurvivorsVoteInTime
  BY TimetableForSurvivors
<1>3. FaultSpec /\ SurvivorDigestsInTime /\ SurvivorProposalsInTime => []SurvivorsAgree
  BY <1>1, SurvivorsAgreeCorrect
<1>4. FaultSpec /\ SurvivorDigestsInTime /\ SurvivorProposalsInTime /\ SurvivorsVoteInTime
        => []SurvivorsInclude
  BY <1>1, SurvivorsIncludeCorrect
<1> QED
  BY <1>2, <1>3, <1>4, PTL
===============================================================================
