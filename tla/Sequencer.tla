------------------------------- MODULE Sequencer -------------------------------
(* The sequencer network: every node of the registry runs a NodeDaemon, whose  *)
(* slot phases are driven by the clock and whose peers are heard over gossip.  *)
(* A handler that runs to its end without awaiting is one action.  The one     *)
(* await with code behind it, publishMempoolSync in FINALIZE, splits its       *)
(* handler in two (FinalizeEmergency, FinishFinalize).                         *)
(*                                                                             *)
(* The network: a published message is under way to every other node, arrives  *)
(* in any order, and at most MaxDelay later.  With MaxDelay beyond MaxNow a    *)
(* message may be arbitrarily late or never arrive.                            *)
EXTENDS Mempool, SyncManager, Consensus

CONSTANTS
  Genesis,      \* GENESIS_TIMESTAMP, the same on every node
  LastStart,    \* every node has started its slot manager by this time
  SubmitTimes,  \* when clients may submit transactions
  MaxLag,       \* a due timer callback runs at most this late
  MaxDelay,     \* a message is delivered at most this late
  MaxNow        \* horizon: the clock stops here

ASSUME SequencerAssumption ==
  /\ Genesis \in Nat
  /\ LastStart \in Nat
  /\ SubmitTimes \subseteq Nat
  /\ MaxLag \in Nat
  /\ MaxDelay \in Nat
  /\ MaxNow \in Nat

VARIABLES
  now,             \* the clock all nodes share
  running,         \* SlotManager.running
  slot,            \* SlotManager.currentSlot
  phase,           \* SlotManager.currentPhase
  effectiveDelta,  \* SlotManager.effectiveDelta
  skips,           \* SkipHandler.consecutiveSkips
  pool,            \* Mempool.buckets
  digests,         \* SyncManager.receivedDigests
  proposals,       \* NodeDaemon.receivedProposals, as a set of batches
  history,         \* NodeDaemon.batchHistory: a function from slots to batches
  stateRoot,       \* what StateRootTracker's latest root commits to: the slots
                   \* hashed into it with their batch roots, in that order
  pending,         \* slots whose FINALIZE handler has not got past the await of
                   \* publishMempoolSync, and never will if that throws
  submitted,       \* transactions clients have submitted, with the time
  txNet, digestNet, batchNet, syncNet  \* messages under way, by topic

clockVars == <<running, slot, phase, effectiveDelta, skips>>
nets      == <<txNet, digestNet, batchNet, syncNet>>
vars == <<now, clockVars, pool, digests, proposals, history, stateRoot, pending,
          submitted, nets>>

-------------------------------------------------------------------------------
\* Messages.

\* One copy of body for every node but its publisher: gossip does not echo.
Publish(n, body) == {[body |-> body, from |-> n, to |-> m, at |-> now] : m \in Nodes \ {n}}

-------------------------------------------------------------------------------
Init ==
  /\ now = 0
  /\ running = [n \in Nodes |-> FALSE]
  /\ slot = [n \in Nodes |-> WallSlot(Genesis, 0)]
  /\ phase = [n \in Nodes |-> "COLLECT"]
  /\ effectiveDelta = [n \in Nodes |-> BaseDelta]
  /\ skips = [n \in Nodes |-> 0]
  /\ pool = [n \in Nodes |-> {}]
  /\ digests = [n \in Nodes |-> {}]
  /\ proposals = [n \in Nodes |-> {}]
  /\ history = [n \in Nodes |-> <<>>]
  /\ stateRoot = [n \in Nodes |-> <<>>]
  /\ pending = [n \in Nodes |-> {}]
  /\ submitted = {}
  /\ txNet = {} /\ digestNet = {} /\ batchNet = {} /\ syncNet = {}

-------------------------------------------------------------------------------
\* Clients and messages.

\* POST /tx at node n: into its own mempool, then to the others.
Submit(n, tx) ==
  /\ now \in SubmitTimes
  /\ \A e \in submitted : e.tx # tx
  /\ submitted' = submitted \cup {[tx |-> tx, at |-> now]}
  /\ pool' = [pool EXCEPT ![n] = Add(@, tx, Genesis, now)]
  /\ txNet' = txNet \cup Publish(n, tx)
  /\ UNCHANGED <<now, clockVars, digests, proposals, history, stateRoot, pending,
                 digestNet, batchNet, syncNet>>

OnTx(m) ==
  /\ txNet' = txNet \ {m}
  /\ pool' = [pool EXCEPT ![m.to] = Add(@, m.body, Genesis, now)]
  /\ UNCHANGED <<now, clockVars, digests, proposals, history, stateRoot, pending,
                 submitted, digestNet, batchNet, syncNet>>

OnDigest(m) ==
  /\ digestNet' = digestNet \ {m}
  /\ digests' = [digests EXCEPT ![m.to] = ReceiveDigest(@, m.body)]
  /\ UNCHANGED <<now, clockVars, pool, proposals, history, stateRoot, pending,
                 submitted, txNet, batchNet, syncNet>>

\* A proposal is late by the receiver's own schedule, with the stretch the
\* receiver applies to its current slot.
Late(n, s) == now > ProposeEnd(Genesis, s, effectiveDelta[n])

OnBatch(m) ==
  /\ ~Late(m.to, m.body.slot)
  /\ batchNet' = batchNet \ {m}
  /\ proposals' = [proposals EXCEPT ![m.to] = @ \cup {m.body}]
  /\ UNCHANGED <<now, clockVars, pool, digests, history, stateRoot, pending,
                 submitted, txNet, digestNet, syncNet>>

OnLateBatch(m) ==
  /\ Late(m.to, m.body.slot)
  /\ batchNet' = batchNet \ {m}
  /\ UNCHANGED <<now, clockVars, pool, digests, proposals, history, stateRoot,
                 pending, submitted, txNet, digestNet, syncNet>>

\* A peer's mempool is merged into the bucket of the current slot, if this node
\* has skipped enough slots itself.
OnMempoolSync(m) ==
  /\ syncNet' = syncNet \ {m}
  /\ pool' = IF ShouldTriggerEmergencyResync(skips[m.to])
             THEN [pool EXCEPT ![m.to] = CarryForward(@, m.body, slot[m.to])]
             ELSE pool
  /\ UNCHANGED <<now, clockVars, digests, proposals, history, stateRoot, pending,
                 submitted, txNet, digestNet, batchNet>>

-------------------------------------------------------------------------------
\* The slot manager and the phases.

\* SlotManager.start.
StartSlotManager(n) ==
  /\ ~running[n]
  /\ running' = [running EXCEPT ![n] = TRUE]
  /\ slot' = [slot EXCEPT ![n] = WallSlot(Genesis, now)]
  /\ phase' = [phase EXCEPT ![n] = "COLLECT"]
  /\ effectiveDelta' = [effectiveDelta EXCEPT ![n] = BaseDelta]
  /\ UNCHANGED <<now, skips, pool, digests, proposals, history, stateRoot, pending,
                 submitted, nets>>

Due(n) == LeaveTime(phase[n], Genesis, slot[n], effectiveDelta[n])

\* executeTransition on a node in phase p.
Leaves(n, p) ==
  /\ running[n]
  /\ phase[n] = p
  /\ now >= Due(n)
  /\ phase' = [phase EXCEPT ![n] = NextPhase[p]]
  /\ UNCHANGED <<now, running, submitted>>

ToFreeze(n) ==
  /\ Leaves(n, "COLLECT")
  /\ UNCHANGED <<slot, effectiveDelta, skips, pool, digests, proposals, history,
                 stateRoot, pending, nets>>

\* SYNC: tell the peers what is in the bucket, and count it as one's own vote.
ToSync(n) ==
  LET digest == [slot |-> slot[n], nodeId |-> n, hashes |-> Snapshot(pool[n], slot[n])]
  IN /\ Leaves(n, "FREEZE")
     /\ digests' = [digests EXCEPT ![n] = ReceiveDigest(@, digest)]
     /\ digestNet' = digestNet \cup Publish(n, digest)
     /\ UNCHANGED <<slot, effectiveDelta, skips, pool, proposals, history, stateRoot,
                    pending, txNet, batchNet, syncNet>>

Common(n) == CommonSubset(digests[n], slot[n], Cardinality(Nodes))
Local(n)  == Snapshot(pool[n], slot[n])
SeedOf(n) == Seed(PrevRoot(history[n], slot[n]), slot[n])

\* Mutants of Excluded: nothing, or everything, is carried to the next slot.
ExcludedNone(n) == {}
ExcludedAll(n)  == Local(n)

Excluded(n) == Local(n) \ Common(n)

\* PROPOSE: what the common subset leaves out moves to the next slot; the rest,
\* if all of it is at hand, is ordered and proposed, also to oneself.
ToPropose(n) ==
  /\ Leaves(n, "SYNC")
  /\ pool' = [pool EXCEPT ![n] = CarryForward(@, Excluded(n), slot[n] + 1)]
  /\ IF Common(n) \subseteq Local(n)
     THEN LET batch == Build(slot[n], n, Prove(n, SeedOf(n)), Common(n))
          IN /\ proposals' = [proposals EXCEPT ![n] = @ \cup {batch}]
             /\ batchNet' = batchNet \cup Publish(n, batch)
     ELSE UNCHANGED <<proposals, batchNet>>
  /\ UNCHANGED <<slot, effectiveDelta, skips, digests, history, stateRoot, pending,
                 txNet, digestNet, syncNet>>

\* FINALIZE.

Valid(n) == {p \in proposals[n] : ValidProposal(p, slot[n], SeedOf(n), Common(n))}

\* Mutant of Record: skipped slots are left out of the state root.
RecordOmitsNull(n, batch) ==
  /\ history' = [history EXCEPT ![n] =
       [s \in DOMAIN @ \cup {slot[n]} |-> IF s = slot[n] THEN batch ELSE @[s]]]
  /\ stateRoot' = [stateRoot EXCEPT ![n] =
       IF batch.proposer = SKIP THEN @
       ELSE Append(@, [slot |-> slot[n], batchRoot |-> batch.root])]

\* batchHistory.set and computeStateRoot.
Record(n, batch) ==
  /\ history' = [history EXCEPT ![n] =
       [s \in DOMAIN @ \cup {slot[n]} |-> IF s = slot[n] THEN batch ELSE @[s]]]
  /\ stateRoot' = [stateRoot EXCEPT ![n] =
       Append(@, [slot |-> slot[n], batchRoot |-> batch.root])]

\* Mutant of SetSkips: a winner does not reset the counter.
SetSkipsNoReset(n, k) ==
  /\ skips' = [skips EXCEPT ![n] = IF k = 0 THEN @ ELSE k]
  /\ effectiveDelta' = [effectiveDelta EXCEPT ![n] = EffectiveSlotDuration(k)]

\* The skip counter and the stretch that goes with it.
SetSkips(n, k) ==
  /\ skips' = [skips EXCEPT ![n] = k]
  /\ effectiveDelta' = [effectiveDelta EXCEPT ![n] = EffectiveSlotDuration(k)]

\* The last lines of the handler: nothing is kept of slot s.
Forget(n, s, bucketed) ==
  /\ pool' = [pool EXCEPT ![n] = Evict(bucketed, s)]
  /\ digests' = [digests EXCEPT ![n] = ClearSlot(@, s)]
  /\ proposals' = [proposals EXCEPT ![n] = {p \in @ : p.slot # s}]

FinalizeWinner(n) ==
  /\ Leaves(n, "PROPOSE")
  /\ \E w \in Valid(n) : IsWinner(w, Valid(n)) /\ Record(n, w)
  /\ SetSkips(n, 0)
  /\ Forget(n, slot[n], pool[n])
  /\ UNCHANGED <<slot, pending, nets>>

\* No valid proposal: the common transactions this node holds move on.
Skip(n) ==
  /\ Leaves(n, "PROPOSE")
  /\ Valid(n) = {}
  /\ Record(n, NullBatch(slot[n]))
  /\ SetSkips(n, skips[n] + 1)

\* Mutant of CarriedPool: what was common in a skipped slot is left behind.
CarriedPoolNone(n) == pool[n]

CarriedPool(n) == CarryForward(pool[n], Local(n) \cap Common(n), slot[n] + 1)

FinalizeSkip(n) ==
  /\ ~ShouldTriggerEmergencyResync(skips[n] + 1)
  /\ Skip(n)
  /\ Forget(n, slot[n], CarriedPool(n))
  /\ UNCHANGED <<slot, pending, nets>>

\* From the third skip in a row on, the bucket of the next slot is published
\* and the clean-up waits until that is done.  The publish reaches the peers,
\* or nobody: with no peers it returns as if it had, else it throws, and the
\* listener's catch ends the handler before its clean-up.
FinalizeEmergency(n) ==
  /\ ShouldTriggerEmergencyResync(skips[n] + 1)
  /\ Skip(n)
  /\ pool' = [pool EXCEPT ![n] = CarriedPool(n)]
  /\ syncNet' \in {syncNet, syncNet \cup Publish(n, Snapshot(CarriedPool(n), slot[n] + 1))}
  /\ pending' = [pending EXCEPT ![n] = @ \cup {slot[n]}]
  /\ UNCHANGED <<slot, digests, proposals, txNet, digestNet, batchNet>>

FinishFinalize(n, s) ==
  /\ Forget(n, s, pool[n])
  /\ pending' = [pending EXCEPT ![n] = @ \ {s}]
  /\ UNCHANGED <<now, clockVars, history, stateRoot, submitted, nets>>

ToCollect(n) ==
  /\ Leaves(n, "FINALIZE")
  /\ slot' = [slot EXCEPT ![n] = @ + 1]
  /\ UNCHANGED <<effectiveDelta, skips, pool, digests, proposals, history, stateRoot,
                 pending, nets>>

-------------------------------------------------------------------------------
InTime(net) == \A m \in net : now < m.at + MaxDelay

Tick ==
  /\ now < MaxNow
  /\ \A n \in Nodes : IF running[n] THEN now < Due(n) + MaxLag ELSE now < LastStart
  /\ InTime(txNet) /\ InTime(digestNet) /\ InTime(batchNet) /\ InTime(syncNet)
  /\ now' = now + 1
  /\ UNCHANGED <<clockVars, pool, digests, proposals, history, stateRoot, pending,
                 submitted, nets>>

\* The horizon, where the model stops (not the program).
Horizon == now = MaxNow /\ UNCHANGED vars

Next ==
  \/ \E n \in Nodes, tx \in Txs : Submit(n, tx)
  \/ \E m \in txNet : OnTx(m)
  \/ \E m \in digestNet : OnDigest(m)
  \/ \E m \in batchNet : OnBatch(m)
  \/ \E m \in batchNet : OnLateBatch(m)
  \/ \E m \in syncNet : OnMempoolSync(m)
  \/ \E n \in Nodes : StartSlotManager(n)
  \/ \E n \in Nodes : ToFreeze(n)
  \/ \E n \in Nodes : ToSync(n)
  \/ \E n \in Nodes : ToPropose(n)
  \/ \E n \in Nodes : FinalizeWinner(n)
  \/ \E n \in Nodes : FinalizeSkip(n)
  \/ \E n \in Nodes : FinalizeEmergency(n)
  \/ \E n \in Nodes : \E s \in pending[n] : FinishFinalize(n, s)
  \/ \E n \in Nodes : ToCollect(n)
  \/ Tick
  \/ Horizon

Spec == Init /\ [][Next]_vars

-------------------------------------------------------------------------------
\* The ledger the network stands for: what its first finaliser put in each slot.
Decided == UNION {DOMAIN history[n] : n \in Nodes}

Promise == INSTANCE Ledger WITH
  submitted <- {e.tx : e \in submitted},
  ledger    <- [s \in Decided |-> history[CHOOSE n \in Nodes : s \in DOMAIN history[n]][s].txs],
  view      <- [n \in Nodes |-> [s \in DOMAIN history[n] |-> history[n][s].txs]],
  Slots     <- 0 .. MaxNow \div BaseDelta

-------------------------------------------------------------------------------
\* PROPERTIES

Digest == [slot : Nat, nodeId : Nodes, hashes : SUBSET Txs]

\* Messages with a body from the set B.
Messages(B) == [body : B, from : Nodes, to : Nodes, at : Nat]

\* A proposal, whoever holds it: what every handler can rely on before validation.
WellFormed(p) == p.slot \in Nat /\ p.proposer \in Nodes

TypeOK ==
  /\ now \in Nat
  /\ running \in [Nodes -> BOOLEAN]
  /\ slot \in [Nodes -> Nat]
  /\ phase \in [Nodes -> Phases]
  /\ effectiveDelta \in [Nodes -> {EffectiveSlotDuration(k) : k \in 0 .. 2}]
  /\ skips \in [Nodes -> Nat]
  /\ pool \in [Nodes -> SUBSET (Nat \X Txs)]
  /\ digests \in [Nodes -> SUBSET Digest]
  /\ DOMAIN proposals = Nodes /\ \A n \in Nodes : \A p \in proposals[n] : WellFormed(p)
  /\ DOMAIN history = Nodes /\ \A n \in Nodes : DOMAIN history[n] \subseteq Nat
  /\ DOMAIN stateRoot = Nodes
  /\ pending \in [Nodes -> SUBSET Nat]
  /\ submitted \subseteq [tx : Txs, at : Nat]
  /\ txNet \subseteq Messages(Txs)
  /\ digestNet \subseteq Messages(Digest)
  /\ \A m \in batchNet : m.to \in Nodes /\ m.at \in Nat /\ WellFormed(m.body)
  /\ syncNet \subseteq Messages(SUBSET Txs)

Included(n, tx) == \E s \in DOMAIN history[n] : tx \in TxSet(history[n][s])
InPool(n, tx)   == \E e \in pool[n] : e[2] = tx

\* A batch is only ever adopted by nodes that agree with its proposer on what
\* came before: whoever finalises a slot with the batch of proposer m holds, as
\* the last non-empty batch before it, one with the root m holds.  Forked nodes
\* reject each other's proposals for good; the VRF seed is all that sees to it,
\* at whatever moment, before or after its own FINALIZE, m is looked at.
AdoptedBatchSharesHistory ==
  \A n \in Nodes : \A s \in DOMAIN history[n] :
    LET m == history[n][s].proposer
    IN m \in Nodes => PrevRoot(history[m], s) = PrevRoot(history[n], s)

\* A transaction leaves a mempool only by being sequenced: through exclusion,
\* skipped slots, missing payloads and eviction it stays in some bucket of the
\* node until a batch of that node's history includes it ("Carry-Forward
\* Preservation", PROT-001 section 3).
TxLeavesOnlyByInclusion ==
  [][\A n \in Nodes, tx \in Txs :
       InPool(n, tx) => InPool(n, tx)' \/ Included(n, tx)']_vars

\* Node n changes to phase p in this step.
Enters(n, p) == phase[n] # p /\ phase'[n] = p

\* The next slot whose common subset node n has not settled.
OpenSlot(n) == IF phase[n] = "FINALIZE" THEN slot[n] + 1 ELSE slot[n]

\* No transaction sits in a bucket that will never be snapshot again: arrivals,
\* carries and evictions agree on which slots are over.  The exception is a
\* bucket about to be evicted, once publishMempoolSync is done.
NoStrandedTx ==
  \A n \in Nodes : running[n] =>
    \A e \in pool[n] : e[1] >= OpenSlot(n) \/ e[1] \in pending[n]

\* The state root commits to every slot since the node started, one after the
\* other, with the root batchHistory has for it: computeStateRoot chains
\* whatever it is called with and relies on being called once per slot, in order.
StateRootCommitsToHistory ==
  \A n \in Nodes :
    /\ {stateRoot[n][i].slot : i \in 1 .. Len(stateRoot[n])} = DOMAIN history[n]
    /\ \A i \in 1 .. Len(stateRoot[n]) :
         /\ stateRoot[n][i].slot = stateRoot[n][1].slot + i - 1
         /\ stateRoot[n][i].batchRoot = history[n][stateRoot[n][i].slot].root

\* The skip counter is the number of null batches the history ends with.
SkipsCountTrailingNulls ==
  \A n \in Nodes :
    skips[n] = Cardinality({s \in DOMAIN history[n] :
                 \A t \in DOMAIN history[n] : t >= s => history[n][t].proposer = SKIP})

\* Node n has sent its digest of slot s, or was not there to send it.
HasVoted(n, s) == slot[n] > s \/ (slot[n] = s /\ phase[n] \notin {"COLLECT", "FREEZE"})

\* Node n has left SYNC of slot s.
LeftSync(n, s) == slot[n] > s \/ (slot[n] = s /\ phase[n] \in {"PROPOSE", "FINALIZE"})

DigestsTimely ==
  \A n \in Nodes :
    /\ Enters(n, "PROPOSE") => \A m \in digestNet : m.to = n => m.body.slot # slot[n]
    /\ Enters(n, "SYNC")    => \A k \in Nodes : ~LeftSync(k, slot[n])

\* The timetable gives digests the time they need, though nothing in the code
\* waits for them: a node leaves SYNC with every digest of its slot that has been
\* published, and none is published after that.
DigestsInTime == [][DigestsTimely]_vars

ProposalsTimely ==
  /\ \A n \in Nodes :
       /\ Enters(n, "FINALIZE") => \A m \in batchNet : m.to = n => m.body.slot # slot[n]
       /\ Enters(n, "PROPOSE")  => \A k \in Nodes : OpenSlot(k) <= slot[n]
  /\ \A m \in batchNet : ~OnLateBatch(m)

\* It gives proposals the time they need: a node leaves PROPOSE with every proposal
\* of its slot that has been published, none is published after that, and none
\* is dropped as late.
ProposalsInTime == [][ProposalsTimely]_vars

\* "All honest nodes that complete the SYNC phase compute an identical common
\* transaction subset" (ARCH-001 S4): between SYNC and FINALIZE of a slot any two
\* nodes have the same one.
CommonSubsetAgreement ==
  \A n, m \in Nodes :
    (phase[n] = "PROPOSE" /\ phase[m] = "PROPOSE" /\ slot[n] = slot[m])
      => Common(n) = Common(m)

\* No two nodes finalise a slot differently.
Agreement ==
  \A n, m \in Nodes : \A s \in DOMAIN history[n] \cap DOMAIN history[m] :
    history[n][s] = history[m][s]

\* The slot a transaction submitted at time t is filed under once every node has it.
PromisedSlot(t) == AssignTransactionToSlot(Genesis, t + MaxDelay + 1)

\* A transaction submitted to any node is sequenced, by every node, no later than
\* in the promised slot, or if that is skipped, in the first one after it that is
\* not (slots are skipped in a faultless network, too: when arrivals straddle the
\* cutoff so that nobody holds all of the common subset).
InclusionBounded ==
  \A e \in submitted, n \in Nodes : \A s \in DOMAIN history[n] :
    s >= PromisedSlot(e.at) /\ history[n][s].proposer # SKIP => Included(n, e.tx)

\* The network implements Ledger: nodes that each run the phases by themselves
\* decide every slot once, with the same transactions in the same order, in the
\* order of the slots, out of what clients submitted and was not sequenced before
\* ("Zero transaction duplication", AGNT-001).
ImplementsLedger == Promise!Spec

\* "Zero transaction duplication" (AGNT-001), of what comes out: no node has a
\* transaction in the batches of two slots.
SequencedOnce ==
  \A n \in Nodes : \A s, t \in DOMAIN history[n] :
    s # t => TxSet(history[n][s]) \cap TxSet(history[n][t]) = {}

\* Nothing is kept of a slot that is over: digests and proposals of past slots
\* would stay in their maps for ever.  A publishMempoolSync that is slow, or that
\* throws, costs the leftovers of its own slot and of no other.
NothingKeptOfPastSlots ==
  \A n \in Nodes :
    /\ \A d \in digests[n]   : d.slot >= OpenSlot(n) \/ d.slot \in pending[n]
    /\ \A p \in proposals[n] : p.slot >= OpenSlot(n) \/ p.slot \in pending[n]

\* "stateRoot(t)" of any two nodes is the same (CONS-002 C4): what the roots of
\* slot t commit to on two nodes is the same sequence of slots and batch roots.
StateRootAgreement ==
  \A n, m \in Nodes :
    \A i \in 1 .. Len(stateRoot[n]), j \in 1 .. Len(stateRoot[m]) :
      stateRoot[n][i].slot = stateRoot[m][j].slot
        => SubSeq(stateRoot[n], 1, i) = SubSeq(stateRoot[m], 1, j)

===============================================================================
