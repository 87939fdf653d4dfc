-------------------------------- MODULE Mempool --------------------------------
(* The mempool of one node: transactions filed under the slot they are to be  *)
(* sequenced in.  The Map<slot, Map<hash, Tx>> of the source is a set of      *)
(* <<slot, tx>> pairs: a bucket that exists but is empty behaves as one that  *)
(* does not exist, and the deduplication by hash inside a bucket is that of a *)
(* set.  A transaction is identified with its hash.                           *)
EXTENDS SlotTiming

Bucket(pool, s) == {e \in pool : e[1] = s}

Snapshot(pool, s) == {e[2] : e \in Bucket(pool, s)}

\* g is the genesis the mempool was constructed with, t the arrival time.
Add(pool, tx, g, t) == pool \cup {<<AssignTransactionToSlot(g, t), tx>>}

CarryForward(pool, txs, s) == pool \cup ({s} \X txs)

\* Mutants of Evict: nothing is evicted; the bucket of the next slot is.
EvictNone(pool, s) == pool
EvictNext(pool, s) == pool \ Bucket(pool, s + 1)

Evict(pool, s) == pool \ Bucket(pool, s)
===============================================================================
