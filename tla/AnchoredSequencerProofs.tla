------------------------ MODULE AnchoredSequencerProofs ------------------------
(* Proofs about what AnchoredSequencer writes to L1.  They hold under any       *)
(* network, any lateness of timers and any order in which calls are mined.      *)
EXTENDS AnchoredSequencer, SequencerProofs

-------------------------------------------------------------------------------
\* The contract.

\* A slot that has a root on L1 keeps it, whatever calls are simulated, sent,
\* dropped and mined.
THEOREM AnchorWrittenOnce == AnchoredSpec => AnchorNeverRewritten
<1> DEFINE Kept == \A s \in DOMAIN batches : s \in DOMAIN batches' /\ batches'[s] = batches[s]
<1>1. AnchoredNext => [Kept]_batches
  <2> SUFFICES ASSUME AnchoredNext PROVE [Kept]_batches
    OBVIOUS
  <2>1. ASSUME NEW c \in calls, Mine(c) PROVE Kept
    BY <2>1 DEF Mine, Write, Anchored
  <2>2. CASE ~\E c \in calls : Mine(c)
    BY <2>2 DEF AnchoredNext, AnchorNext, Send, GiveUp
  <2> QED
    BY <2>1, <2>2
<1>2. UNCHANGED <<vars, anchorVars>> => [Kept]_batches
  BY DEF anchorVars
<1>3. AnchorNeverRewritten <=> [][Kept]_batches
  BY DEF AnchorNeverRewritten
<1> HIDE DEF Kept
<1> QED
  BY <1>1, <1>2, <1>3, PTL DEF AnchoredSpec

-------------------------------------------------------------------------------
\* The submissions.

\* What node n submits for slot s: the root its state root had at s.
RootAt(n, s, root) ==
  \E i \in 1 .. Len(stateRoot[n]) :
    stateRoot[n][i].slot = s /\ root = SubSeq(stateRoot[n], 1, i)

\* Some node entitled to anchor slot s has finalised it with this root.
Finalized(s, root) ==
  \E n \in Nodes : /\ s \in DOMAIN history[n] /\ Anchors(n, history[n][s])
                   /\ RootAt(n, s, root)

\* The inductive invariant behind AnchoredRootsAreFinalized: it is true of every
\* call from the moment it is made, for no node ever revises what it finalised.
Honest ==
  /\ \A c \in calls : /\ c = [node |-> c.node, slot |-> c.slot, root |-> c.root, stage |-> c.stage]
                      /\ Finalized(c.slot, c.root)
  /\ \A s \in DOMAIN batches : Finalized(s, batches[s])

\* The network runs as it does without the anchor.
LEMMA AnchoredStep == ASSUME [AnchoredNext]_<<vars, anchorVars>> PROVE [Next]_vars
BY DEF AnchoredNext

\* Appending to a sequence leaves its prefixes alone.
LEMMA PrefixKept ==
  ASSUME NEW S, NEW r \in Seq(S), NEW e \in S, NEW i \in 1 .. Len(r)
  PROVE  SubSeq(Append(r, e), 1, i) = SubSeq(r, 1, i)
<1> DEFINE t == Append(r, e)
<1>1. /\ Len(r) \in Nat /\ i \in Nat /\ i <= Len(r)
      /\ t \in Seq(S) /\ \A j \in 1 .. Len(r) : t[j] = r[j] /\ r[j] \in S
  BY AppendProperties, LenProperties
<1> HIDE DEF t
<1>2. \A j \in 1 .. i : j \in 1 .. Len(r)
  BY <1>1
<1>3. \A j \in 1 .. i : t[j] \in S /\ r[j] \in S /\ t[j] = r[j]
  BY <1>1, <1>2
<1>4. /\ SubSeq(t, 1, i) \in Seq(S) /\ Len(SubSeq(t, 1, i)) = i
      /\ \A j \in 1 .. i : SubSeq(t, 1, i)[j] = t[j]
  BY <1>1, <1>3, SubSeqProperties
<1>5. /\ SubSeq(r, 1, i) \in Seq(S) /\ Len(SubSeq(r, 1, i)) = i
      /\ \A j \in 1 .. i : SubSeq(r, 1, i)[j] = r[j]
  BY <1>1, <1>3, SubSeqProperties
<1>6. SubSeq(t, 1, i) = SubSeq(r, 1, i)
  BY <1>3, <1>4, <1>5, SeqEqual
<1> QED
  BY <1>6 DEF t

\* No node revises what it has finalised.
LEMMA FinalizedStable ==
  ASSUME TypeOK, AllChained, [Next]_vars, NEW s, NEW root, Finalized(s, root)
  PROVE  Finalized(s, root)'
<1>1. PICK n \in Nodes : /\ s \in DOMAIN history[n] /\ Anchors(n, history[n][s])
                         /\ RootAt(n, s, root)
  BY DEF Finalized
<1>2. CASE history'[n] = history[n] /\ stateRoot'[n] = stateRoot[n]
  BY <1>1, <1>2 DEF Finalized, RootAt, Anchors
<1>3. ASSUME NEW b, Finalises(n, b) PROVE Finalized(s, root)'
  <2> DEFINE r == stateRoot[n]
             e == [slot |-> slot[n], batchRoot |-> b.root]
  <2>1. Chained(n)
    BY DEF AllChained
  <2>2. PICK S : r \in Seq(S)
    BY <2>1 DEF Chained
  <2>3. stateRoot'[n] = Append(r, e)
    BY <1>3 DEF Finalises, Record, TypeOK
  <2>4. r \in Seq(S \cup {e}) /\ e \in S \cup {e}
    BY <2>2
  <2>5. PICK i \in 1 .. Len(r) : r[i].slot = s /\ root = SubSeq(r, 1, i)
    BY <1>1 DEF RootAt
  <2> HIDE DEF e
  <2>6. /\ Len(stateRoot'[n]) = Len(r) + 1 /\ Len(r) \in Nat
        /\ stateRoot'[n][i] = r[i]
    BY <2>3, <2>4, AppendProperties, LenProperties
  <2>7. SubSeq(stateRoot'[n], 1, i) = SubSeq(r, 1, i)
    BY <2>3, <2>4, PrefixKept
  <2>8. i \in 1 .. Len(stateRoot'[n])
    BY <2>6
  <2>9. RootAt(n, s, root)'
    BY <2>5, <2>6, <2>7, <2>8 DEF RootAt
  <2>10. s # slot[n]
    <3>1. s < OpenSlot(n) /\ OpenSlot(n) = slot[n]
      BY <1>1, <1>3, <2>1, HistoryBelowOpen DEF Finalises, OpenSlot
    <3>2. slot[n] \in Nat /\ s \in Nat
      BY <1>1, <2>1, HistoryBelowOpen DEF TypeOK
    <3> QED
      BY <3>1, <3>2
  <2>11. s \in DOMAIN history'[n] /\ history'[n][s] = history[n][s]
    BY <1>1, <1>3, <2>10 DEF Finalises, Record, TypeOK
  <2> QED
    BY <1>1, <2>9, <2>11 DEF Finalized, Anchors
<1>4. ASSUME NEW m \in Nodes, m # n, NEW b, Finalises(m, b)
      PROVE  history'[n] = history[n] /\ stateRoot'[n] = stateRoot[n]
  BY <1>4 DEF Finalises, Record, TypeOK
<1>5. ASSUME NEW m \in Nodes, StartSlotManager(m) \/ Proceeds(m) \/ ToCollect(m)
      PROVE  history'[n] = history[n] /\ stateRoot'[n] = stateRoot[n]
  BY <1>5 DEF StartSlotManager, Proceeds, ToCollect
<1> QED
  BY <1>2, <1>3, <1>4, <1>5, BookSteps

\* What FINALIZE hands to the anchor is the root it has computed for its slot.
LEMMA SubmittedFinalized ==
  ASSUME TypeOK, AllChained, [Next]_vars, NEW n \in Finalizing,
         NEW s, s = slot[n], Anchors(n, history'[n][s]),
         NEW root, root = RootToAnchor(n)
  PROVE  Finalized(s, root)'
<1>1. n \in Nodes /\ stateRoot'[n] # stateRoot[n]
  BY DEF Finalizing
<1>2. PICK b : Finalises(n, b)
  <2>1. ASSUME NEW m \in Nodes, m # n, NEW b, Finalises(m, b) PROVE stateRoot'[n] = stateRoot[n]
    BY <1>1, <2>1 DEF Finalises, Record, TypeOK
  <2>2. ASSUME NEW m \in Nodes, StartSlotManager(m) \/ Proceeds(m) \/ ToCollect(m)
        PROVE  stateRoot'[n] = stateRoot[n]
    BY <2>2 DEF StartSlotManager, Proceeds, ToCollect
  <2> QED
    BY <1>1, <2>1, <2>2, BookSteps
<1> DEFINE r == stateRoot[n]
           e == [slot |-> slot[n], batchRoot |-> b.root]
           t == stateRoot'[n]
<1>3. PICK S : r \in Seq(S)
  BY <1>1 DEF AllChained, Chained
<1>4. t = Append(r, e) /\ s \in DOMAIN history'[n]
  BY <1>1, <1>2 DEF Finalises, Record, TypeOK
<1>5. r \in Seq(S \cup {e}) /\ e \in S \cup {e} /\ e.slot = s
  BY <1>3
<1> HIDE DEF e
<1>6. /\ t \in Seq(S \cup {e}) /\ Len(t) = Len(r) + 1 /\ Len(r) \in Nat
      /\ t[Len(r) + 1] = e
  BY <1>4, <1>5, AppendProperties, LenProperties
<1>7. Len(t) \in 1 .. Len(t) /\ t[Len(t)].slot = s
  BY <1>5, <1>6
<1>8. t = SubSeq(t, 1, Len(t))
  BY <1>6, SubSeqFull
<1> QED
  BY <1>1, <1>4, <1>7, <1>8 DEF Finalized, RootAt, RootToAnchor, Anchors

\* What is anchored or on its way to L1 stays the root of a node entitled to submit it.
LEMMA HonestInductive ==
  ASSUME TypeOK, AllChained, Honest, [AnchoredNext]_<<vars, anchorVars>>
  PROVE  Honest'
<1>1. [Next]_vars
  BY AnchoredStep
<1>2. ASSUME NEW s, NEW root, Finalized(s, root) PROVE Finalized(s, root)'
  BY <1>1, <1>2, FinalizedStable
<1>3. ASSUME NEW c \in calls PROVE Finalized(c.slot, c.root)'
  <2>1. PICK s, root : s = c.slot /\ root = c.root
    OBVIOUS
  <2>2. Finalized(s, root)
    BY <2>1 DEF Honest
  <2>3. Finalized(s, root)'
    BY <1>2, <2>2
  <2> QED
    BY <2>1, <2>3
<1>4. ASSUME NEW s \in DOMAIN batches, NEW root, root = batches[s] PROVE Finalized(s, root)'
  <2>1. Finalized(s, root)
    BY <1>4 DEF Honest
  <2> QED
    BY <1>2, <2>1
<1> DEFINE Good(c) == /\ c = [node |-> c.node, slot |-> c.slot, root |-> c.root, stage |-> c.stage]
                      /\ Finalized(c.slot, c.root)'
<1>5. ASSUME NEW c \in calls PROVE Good(c)
  BY <1>3 DEF Honest
<1>6. SUFFICES /\ \A c \in calls' : Good(c)
               /\ \A s \in DOMAIN batches' : \A root : root = batches'[s] => Finalized(s, root)'
  BY DEF Honest
<1>7. CASE Next /\ SubmitBatches /\ UNCHANGED batches
  <2>1. ASSUME NEW n \in Finalizing, Anchors(n, history'[n][slot[n]]),
               NEW c, c = Call(n, slot[n], RootToAnchor(n))
        PROVE  Good(c)
    <3>1. PICK s, root : s = slot[n] /\ root = RootToAnchor(n)
      OBVIOUS
    <3>2. Finalized(s, root)'
      BY <1>7, <2>1, <3>1, SubmittedFinalized
    <3>3. c = [node |-> n, slot |-> s, root |-> root, stage |-> "simulated"]
      BY <2>1, <3>1 DEF Call
    <3> QED
      BY <3>2, <3>3
  <2>2. ASSUME NEW c \in calls' PROVE Good(c)
    <3>1. c \in calls \/ \E n \in Finalizing : /\ Anchors(n, history'[n][slot[n]])
                                            /\ c = Call(n, slot[n], RootToAnchor(n))
      BY <1>7 DEF SubmitBatches
    <3> QED
      BY <1>5, <2>1, <3>1
  <2> QED
    BY <1>4, <1>7, <2>2
<1>8. ASSUME NEW c \in calls, Send(c) \/ GiveUp(c) PROVE <1>6!1
  <2>1. PICK d : d = [c EXCEPT !.stage = "sent"]
    OBVIOUS
  <2>2. calls' \subseteq calls \cup {d} /\ batches' = batches
    BY <1>8, <2>1 DEF Send, GiveUp
  <2>3. Good(c)
    BY <1>5
  <2>4. d = [node |-> c.node, slot |-> c.slot, root |-> c.root, stage |-> "sent"]
    BY <2>1, <2>3
  <2>5. Good(d)
    BY <2>3, <2>4
  <2> HIDE DEF Good
  <2> QED
    BY <1>4, <1>5, <2>2, <2>5
<1>9. ASSUME NEW c \in calls, Mine(c) PROVE <1>6!1
  <2>1. ASSUME NEW s \in DOMAIN batches', NEW root, root = batches'[s]
        PROVE  Finalized(s, root)'
    <3>1. (s \in DOMAIN batches /\ root = batches[s]) \/ (s = c.slot /\ root = c.root)
      BY <1>9, <2>1 DEF Mine, Write
    <3> QED
      BY <1>3, <1>4, <3>1
  <2>2. calls' \subseteq calls
    BY <1>9 DEF Mine
  <2> QED
    BY <1>5, <2>1, <2>2
<1>10. CASE UNCHANGED anchorVars
  BY <1>4, <1>5, <1>10 DEF anchorVars
<1> QED
  BY <1>7, <1>8, <1>9, <1>10 DEF AnchoredNext, AnchorNext

\* L1 only ever holds state roots that a node entitled to anchor the slot has
\* computed for it, and still has: no race of calls, and nothing that is
\* finalised after the call was made, changes that.
THEOREM AnchoredRootsCorrect == AnchoredSpec => []AnchoredRootsAreFinalized
<1>1. AnchoredInit => Init /\ AllChained /\ Honest
  <2>1. DOMAIN <<>> = {}
    OBVIOUS
  <2> QED
    BY <2>1, AllChainedInit DEF AnchoredInit, AnchorInit, Honest
<1>2. [AnchoredNext]_<<vars, anchorVars>> => [Next]_vars
  BY AnchoredStep
<1>3. TypeOK /\ AllChained /\ [Next]_vars => AllChained'
  BY AllChainedInductive
<1>4. TypeOK /\ AllChained /\ Honest /\ [AnchoredNext]_<<vars, anchorVars>> => Honest'
  BY HonestInductive
<1>5. Honest => AnchoredRootsAreFinalized
  BY DEF Honest, Finalized, RootAt, AnchoredRootsAreFinalized
<1> QED
  BY <1>1, <1>2, <1>3, <1>4, <1>5, TypeCorrect, PTL DEF AnchoredSpec, Spec
===============================================================================
