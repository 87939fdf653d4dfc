--------------------------------- MODULE Anchor ---------------------------------
(* The anchor on L1: SequencerAnchor's mapping, written once per slot, and the   *)
(* calls of AnchorClient.submitBatch under way to it.  A call is first simulated *)
(* against the contract as it is then (writeContract estimates its gas), sent,   *)
(* and mined later, if at all; nothing is retried.  Calls of different nodes and *)
(* slots overtake each other.                                                    *)
EXTENDS Integers, Sequences

CONSTANTS
  Anchoring,  \* the nodes with ANCHOR_CONTRACT_ADDRESS and DEPLOYER_PRIVATE_KEY set
  Owners      \* those of them whose key is the one the contract was deployed with

ASSUME AnchorAssumption == Owners \subseteq Anchoring

VARIABLES
  batches,  \* SequencerAnchor.batches: a function from the anchored slots to roots
  calls     \* submitBatch calls under way, each with the stage it is in

anchorVars == <<batches, calls>>

AnchorInit == batches = <<>> /\ calls = {}

\* The call as it leaves NodeDaemon, which does not await it.
Call(n, s, root) == [node |-> n, slot |-> s, root |-> root, stage |-> "simulated"]

Anchored(s) == s \in DOMAIN batches

\* Simulation passes: owner, and no root for the slot yet.
Send(c) ==
  /\ c.stage = "simulated"
  /\ c.node \in Owners
  /\ ~Anchored(c.slot)
  /\ calls' = (calls \ {c}) \cup {[c EXCEPT !.stage = "sent"]}
  /\ UNCHANGED batches

\* "Slot already anchored" is taken for success, with whatever root; any other
\* error, the endpoint's or "Only owner can submit", is logged.  Or the
\* transaction is sent and dropped, two owners having used the same nonce.
GiveUp(c) ==
  /\ calls' = calls \ {c}
  /\ UNCHANGED batches

\* Mutant of Write: the contract relies on the simulation.
WriteUnchecked(c) == [s \in DOMAIN batches \cup {c.slot} |->
                        IF s = c.slot THEN c.root ELSE batches[s]]

\* The contract's submitBatch: a call for an anchored slot is reverted.
Write(c) == IF Anchored(c.slot) THEN batches
            ELSE [s \in DOMAIN batches \cup {c.slot} |->
                    IF s = c.slot THEN c.root ELSE batches[s]]

\* The transaction is mined, reverted or not: the client does not look at the
\* status of the receipt.
Mine(c) ==
  /\ c.stage = "sent"
  /\ batches' = Write(c)
  /\ calls' = calls \ {c}

AnchorNext == \E c \in calls : Send(c) \/ GiveUp(c) \/ Mine(c)

-------------------------------------------------------------------------------
\* PROPERTIES

\* What L1 says about a slot is final: however calls for a slot race between
\* their simulation and the block they are mined in, the first one stands.
AnchorNeverRewritten ==
  [][\A s \in DOMAIN batches : s \in DOMAIN batches' /\ batches'[s] = batches[s]]_batches
===============================================================================
