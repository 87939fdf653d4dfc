------------------------------ MODULE MCSequencer ------------------------------
(* Small instances of Sequencer.  One tick stands for 250 to 625 ms: slots of 8  *)
(* ticks with a cutoff of 2, PROPOSE and FINALIZE of 2 each, so that slot s is   *)
(* frozen at 8s+6, proposed at 8s+8, finalised at 8s+10 and left at 8s+12.       *)
EXTENDS Sequencer, TLC

\* Hash values in an order that differs from slot to slot and from transaction
\* to transaction, with ties.
MCSortKey(tx, r) == (tx + r) % 2
MCVrfOutput(proof) ==
  (proof.key + 2 * proof.seed.slot + (IF proof.seed.prevRoot = ZeroRoot THEN 0 ELSE 1)) % 2

\* OrdersAreLists of SequencerAgreementProofs, for the keys above.
ASSUME MCOrdersAreLists ==
  \A S \in SUBSET Txs, r \in {0, 1} : Order(S, r) \in Seq(S)

\* Two stories.  In both, digests and proposals are quick, and nodes that are due at
\* the same time take turns.
Quick(net) == \A m, k \in net : m.at = now /\ m.from = k.from

Step(n) ==
  5 * slot[n] + (CHOOSE i \in 1 .. 5 :
                   <<"COLLECT", "FREEZE", "SYNC", "PROPOSE", "FINALIZE">>[i] = phase[n])

InTurn ==
  /\ Quick(digestNet) /\ Quick(batchNet)
  /\ \A n, k \in Nodes : n < k => Step(n) - Step(k) \in {0, 1}

\* Each node takes the transaction of its own number, which may miss the cutoff at
\* one of the two others.
Straddle ==
  /\ InTurn
  /\ \A m \in txNet : m.body = m.from
  /\ \A m \in txNet : now = 7 => m.to = (m.from % 3) + 1

\* For the run timely: all that can happen to two transactions, and once there is a
\* third, that story: nobody holds all of the common subset, and slot 0 is skipped.
\* It ends with the stretched slot 1: at the horizon no slot is begun.
TimelyNext ==
  /\ Next
  /\ (Straddle \/ \A e \in submitted : e.tx # 3)'
  /\ now = MaxNow => UNCHANGED slot

TimelySpec == Init /\ [][TimelyNext]_vars

\* For the run resync_duplicates, which takes five slots, Spec restricted to a story:
\* transaction 1 reaches node 3 after the cutoff, 2 does not reach node 1 before the
\* resync, which starts at 58; the other messages are quick.
Story ==
  /\ InTurn
  /\ \A m \in txNet : now <= m.at + 1 \/ (m.to = 1 /\ m.body = 2)
  /\ \A m \in syncNet : m.from = 3 /\ now <= m.at + 2
  /\ <<0, 1>> \notin pool[3]
  /\ now < 58 => \A e \in pool[1] : e[2] = 1

StorySpec == Init /\ [][Next /\ Story']_vars
===============================================================================
