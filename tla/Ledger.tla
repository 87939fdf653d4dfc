--------------------------------- MODULE Ledger ---------------------------------
(* What the sequencer network promises its clients, without phases, messages or  *)
(* batches: one ledger that grows slot by slot, in which a submitted transaction *)
(* is sequenced at most once, and which every node learns in order.              *)
EXTENDS Integers, Sequences, FiniteSets, SequencesExt

CONSTANTS
  Nodes,
  Txs,
  Slots   \* slot numbers

VARIABLES
  submitted,  \* transactions clients have submitted
  ledger,     \* a function from the decided slots to sequences of transactions
  view        \* for each node, the part of the ledger it knows, with its content

vars == <<submitted, ledger, view>>

Init ==
  /\ submitted = {}
  /\ ledger = <<>>
  /\ view = [n \in Nodes |-> <<>>]

\* Function f, defined at s too.
With(f, s, v) == [t \in DOMAIN f \cup {s} |-> IF t = s THEN v ELSE f[t]]

Sequenced == UNION {ToSet(ledger[s]) : s \in DOMAIN ledger}

Submit(tx) ==
  /\ submitted' = submitted \cup {tx}
  /\ UNCHANGED <<ledger, view>>

\* Node n is the first to finalise slot s, and so decides it: with submitted
\* transactions that no earlier slot has, in some order, or with none.
Decide(n, s) ==
  /\ \A t \in DOMAIN ledger : t < s
  /\ \E S \in SUBSET (submitted \ Sequenced) : \E txs \in SetToSeqs(S) :
       /\ ledger' = With(ledger, s, txs)
       /\ view' = [view EXCEPT ![n] = With(@, s, txs)]
  /\ UNCHANGED submitted

\* Node n finalises a slot another node has decided.
Follow(n, s) ==
  /\ s \in DOMAIN ledger
  /\ \A t \in DOMAIN view[n] : t < s
  /\ view' = [view EXCEPT ![n] = With(@, s, ledger[s])]
  /\ UNCHANGED <<submitted, ledger>>

Next ==
  \/ \E tx \in Txs : Submit(tx)
  \/ \E n \in Nodes, s \in Slots : view'[n] # view[n] /\ (Decide(n, s) \/ Follow(n, s))

Spec == Init /\ [][Next]_vars
===============================================================================
