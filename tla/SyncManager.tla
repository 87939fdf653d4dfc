------------------------------ MODULE SyncManager ------------------------------
(* The digests one node holds, and the common subset it computes from them.   *)
(* A digest [slot, nodeId, hashes] lists what nodeId had in its bucket of the *)
(* slot when it entered SYNC.  The keccak field "digest" is never read by the *)
(* source and is left out.                                                    *)
EXTENDS Integers, FiniteSets

DigestsOf(digests, s) == {d \in digests : d.slot = s}

\* A digest replaces the one its sender sent before for the same slot.
ReceiveDigest(digests, d) ==
  {e \in digests : e.slot # d.slot \/ e.nodeId # d.nodeId} \cup {d}

\* How many digests of slot s list h.
TxCount(digests, s, h) == Cardinality({d \in DigestsOf(digests, s) : h \in d.hashes})

\* Mutants of Threshold: the documents' ceil(n/2) + 1; any digest will do.
ThresholdDocumented(totalNodes) == (totalNodes + 1) \div 2 + 1
ThresholdOne(totalNodes) == 1

Threshold(totalNodes) == totalNodes \div 2 + 1

CommonSubset(digests, s, totalNodes) ==
  {h \in UNION {d.hashes : d \in DigestsOf(digests, s)} :
     TxCount(digests, s, h) >= Threshold(totalNodes)}

\* Mutant: the digests of the slot stay.
ClearSlotNone(digests, s) == digests

ClearSlot(digests, s) == digests \ DigestsOf(digests, s)
===============================================================================
