--------------------------- MODULE AnchoredSequencer ---------------------------
(* The sequencer network together with the anchor on L1: FINALIZE submits the  *)
(* state root it has just computed, in the same callback.                      *)
EXTENDS Sequencer, Anchor

\* registry.nodes[0].
RegistryHead == CHOOSE n \in Nodes : \A m \in Nodes : n <= m

\* Who anchors the slot it has just finalised: the proposer of the winning batch
\* its own, the head of the registry the slots it skips.
Anchors(n, batch) ==
  /\ n \in Anchoring
  /\ batch.proposer = n \/ (batch.proposer = SKIP /\ n = RegistryHead)

\* Mutant of RootToAnchor: what was the latest root before FINALIZE.
RootToAnchorStale(n) == stateRoot[n]

\* What computeStateRoot has just returned.
RootToAnchor(n) == stateRoot'[n]

\* The nodes whose FINALIZE computes a root in this step.
Finalizing == {n \in Nodes : stateRoot'[n] # stateRoot[n]}

SubmitBatches ==
  calls' = calls \cup {Call(n, slot[n], RootToAnchor(n)) :
                         n \in {m \in Finalizing : Anchors(m, history'[m][slot[m]])}}

AnchoredInit == Init /\ AnchorInit

AnchoredNext ==
  \/ Next /\ SubmitBatches /\ UNCHANGED batches
  \/ AnchorNext /\ UNCHANGED vars

AnchoredSpec == AnchoredInit /\ [][AnchoredNext]_<<vars, anchorVars>>

-------------------------------------------------------------------------------
\* PROPERTIES

\* What L1 holds for a slot is the state root, up to and including that slot, of
\* a node that was entitled to submit it: whatever that node has finalised since
\* the call was made, and although other nodes may have finalised the slot
\* differently.
AnchoredRootsAreFinalized ==
  \A s \in DOMAIN batches : \E n \in Nodes :
    /\ s \in DOMAIN history[n] /\ Anchors(n, history[n][s])
    /\ \E i \in 1 .. Len(stateRoot[n]) :
         stateRoot[n][i].slot = s /\ batches[s] = SubSeq(stateRoot[n], 1, i)

\* "If node A anchors stateRoot_A(t) and node B anchors stateRoot_B(t), a
\* divergence is immediately visible" (CONS-002, F6): no submission is turned away
\* because L1 holds another root for the slot.
DivergenceIsVisible ==
  \A c \in calls : Anchored(c.slot) => batches[c.slot] = c.root
===============================================================================
