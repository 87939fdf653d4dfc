------------------------------- MODULE Consensus -------------------------------
(* The deterministic algorithms every node runs on its own: transaction order, *)
(* Merkle root, VRF, batch validation, fork choice and the root a slot is      *)
(* seeded with.  Hashes are modelled by what they commit to: a Merkle root is  *)
(* the tree of the hashes below it, a VRF seed the record it is computed from, *)
(* a VRF proof the key and the seed it was made with.  Only the order in which *)
(* hash values fall, which nobody controls, is a parameter.                    *)
EXTENDS Integers, Sequences, FiniteSets, SequencesExt

CONSTANTS
  Nodes,            \* the registry of nodes.json; ids are numbers, ordered
  Txs,              \* transaction hashes; numbers, ordered
  Keyed,            \* the nodes whose secret key matches their registered key
  SortKey(_, _),    \* SortKey(tx, r): keccak(tx.hash || randomness)
  VrfOutput(_),     \* VrfOutput(proof): keccak(proof), the batch's randomness
  ZeroRoot,         \* the root that stands for "no batch yet"
  SKIP              \* the proposer of a null batch

ASSUME ConsensusAssumption ==
  /\ IsFiniteSet(Nodes) /\ Nodes # {} /\ Nodes \subseteq Nat \ {0}
  /\ Txs \subseteq Nat
  /\ Keyed \subseteq Nodes
  /\ SKIP \notin Nodes

-------------------------------------------------------------------------------
\* OrderingEngine.order: ascending by key, ties broken by transaction hash.
Order(txs, r) ==
  SetToSortSeq(txs, LAMBDA a, b : \/ SortKey(a, r) < SortKey(b, r)
                                  \/ SortKey(a, r) = SortKey(b, r) /\ a < b)

\* One level of the Merkle tree from the level below it; the last node of a
\* level of odd length is paired with itself.
NextLevel(hs) ==
  [i \in 1 .. (Len(hs) + 1) \div 2 |->
     <<hs[2*i - 1], IF 2*i <= Len(hs) THEN hs[2*i] ELSE hs[2*i - 1]>>]

EmptyRoot == <<>>

\* BatchBuilder.computeMerkleRoot.  A leaf is the 1-tuple of a transaction hash.
MerkleRoot(txs) ==
  LET level[k \in Nat] == IF k = 0 THEN [i \in 1 .. Len(txs) |-> <<txs[i]>>]
                                   ELSE NextLevel(level[k - 1])
      top == CHOOSE k \in 0 .. Len(txs) :
               Len(level[k]) = 1 /\ \A j \in 0 .. k - 1 : Len(level[j]) > 1
  IN IF txs = <<>> THEN EmptyRoot ELSE level[top][1]

-------------------------------------------------------------------------------
\* VRFProvider.  A node without its registered key signs with another one (0).

KeyOf(n) == IF n \in Keyed THEN n ELSE 0

Seed(prevRoot, s) == [prevRoot |-> prevRoot, slot |-> s]

Prove(n, seed) == [key |-> KeyOf(n), seed |-> seed]

\* Mutant: the proof may be for any seed.
VerifyAnySeed(n, seed, r, proof) == proof.key = n /\ r = VrfOutput(proof)

\* The proof verifies under the key registered for node n, and gives output r.
Verify(n, seed, r, proof) ==
  /\ proof = [key |-> n, seed |-> seed]
  /\ r = VrfOutput(proof)

-------------------------------------------------------------------------------
\* Batches.

Build(s, n, proof, txs) ==
  LET ordered == Order(txs, VrfOutput(proof))
  IN [slot |-> s, proposer |-> n, randomness |-> VrfOutput(proof), vrfProof |-> proof,
      txs |-> ordered, root |-> MerkleRoot(ordered)]

NullBatch(s) ==
  [slot |-> s, proposer |-> SKIP, randomness |-> 0, vrfProof |-> [key |-> 0, seed |-> Seed(ZeroRoot, s)],
   txs |-> <<>>, root |-> EmptyRoot]

TxSet(batch) == {batch.txs[i] : i \in 1 .. Len(batch.txs)}

\* NodeDaemon's filter of the proposals of slot s, common being the common
\* subset the validating node computed and seed the seed it derived.
ValidProposal(p, s, seed, common) ==
  /\ p.slot = s
  /\ p.proposer \in Nodes
  /\ Verify(p.proposer, seed, p.randomness, p.vrfProof)
  /\ p.root = MerkleRoot(p.txs)
  /\ TxSet(p) = common /\ Len(p.txs) = Cardinality(common)
  /\ p.txs = Order(TxSet(p), p.randomness)

\* Mutant of Beats: no tie-break.
BeatsByScore(a, b) == a.randomness <= b.randomness

\* ForkChoice.select: the lowest score, ties broken by proposer id.
Beats(a, b) == \/ a.randomness < b.randomness
               \/ a.randomness = b.randomness /\ a.proposer <= b.proposer

IsWinner(w, batches) == w \in batches /\ \A b \in batches : Beats(w, b)

\* SkipHandler.getPrevRoot: the root of the last batch before slot s in history
\* h (a function from slots to batches) that is not empty.
PrevRoot(h, s) ==
  LET full == {i \in DOMAIN h : i < s /\ h[i].root # EmptyRoot}
  IN IF full = {} THEN ZeroRoot ELSE h[CHOOSE i \in full : \A j \in full : j <= i].root
===============================================================================
