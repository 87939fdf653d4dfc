---------------------------- MODULE SequencerFaults ----------------------------
(* The sequencer network with faults: a process crashes at any point between   *)
(* two callbacks and is launched again with nothing in its memory, copies of   *)
(* what it was publishing may be lost with it, and publishTx may throw.        *)
EXTENDS Sequencer

CONSTANTS
  MaxCrashes,     \* how many nodes crash at most, each once
  CrashTimes,     \* when
  RelaunchTimes,  \* when a crashed node may be launched again
  RestartWait     \* how long a relaunched node waits for its peers and its mesh

ASSUME FaultAssumption ==
  /\ MaxCrashes \in Nat
  /\ CrashTimes \subseteq Nat /\ RelaunchTimes \subseteq Nat
  /\ RestartWait \in Nat

VARIABLES
  up,        \* the nodes with a running process
  launched,  \* when it was launched
  crashed,   \* history: the nodes that have crashed
  split,     \* history: a crash has let a broadcast reach some nodes and not others
  resynced,  \* history: an emergency resync has been published
  replies    \* history: the answers to POST /tx

faultVars == <<up, launched, crashed, split, resynced, replies>>

FaultInit ==
  /\ Init
  /\ up = Nodes
  /\ launched = [n \in Nodes |-> 0]
  /\ crashed = {}
  /\ split = FALSE
  /\ resynced = FALSE
  /\ replies = {}

-------------------------------------------------------------------------------
\* Crash and relaunch.

InFlight(net, n) == {m \in net : m.from = n}
NotTo(net, n)    == {m \in net : m.to # n}

\* Of the copies of a broadcast, some are lost and some are not.
Splits(lost) ==
  \E m \in lost : \E k \in Nodes \ {m.from, m.to} : [m EXCEPT !.to = k] \notin lost

\* The process of node n ends, with all it remembers.  What it has been
\* publishing reaches all peers, some or none.
Crash(n) ==
  /\ n \in up \ crashed
  /\ Cardinality(crashed) < MaxCrashes /\ now \in CrashTimes
  /\ up' = up \ {n} /\ crashed' = crashed \cup {n}
  /\ \E t \in SUBSET InFlight(txNet, n), d \in SUBSET InFlight(digestNet, n),
        b \in SUBSET InFlight(batchNet, n), y \in SUBSET InFlight(syncNet, n) :
       /\ txNet' = txNet \ t /\ digestNet' = digestNet \ d
       /\ batchNet' = batchNet \ b /\ syncNet' = syncNet \ y
       /\ split' = (split \/ Splits(t) \/ Splits(d) \/ Splits(b) \/ Splits(y))
  /\ running' = [running EXCEPT ![n] = FALSE]
  /\ phase' = [phase EXCEPT ![n] = "COLLECT"]
  /\ SetSkips(n, 0)
  /\ pool' = [pool EXCEPT ![n] = {}]
  /\ digests' = [digests EXCEPT ![n] = {}]
  /\ proposals' = [proposals EXCEPT ![n] = {}]
  /\ history' = [history EXCEPT ![n] = <<>>]
  /\ stateRoot' = [stateRoot EXCEPT ![n] = <<>>]
  /\ pending' = [pending EXCEPT ![n] = {}]
  /\ UNCHANGED <<now, slot, submitted, launched, resynced, replies>>

\* The constructors run again.  What was published meanwhile is missed.
Relaunch(n) ==
  /\ n \notin up
  /\ now \in RelaunchTimes
  /\ up' = up \cup {n}
  /\ launched' = [launched EXCEPT ![n] = now]
  /\ slot' = [slot EXCEPT ![n] = WallSlot(Genesis, now)]
  /\ txNet' = NotTo(txNet, n) /\ digestNet' = NotTo(digestNet, n)
  /\ batchNet' = NotTo(batchNet, n) /\ syncNet' = NotTo(syncNet, n)
  /\ UNCHANGED <<now, running, phase, effectiveDelta, skips, pool, digests, proposals,
                 history, stateRoot, pending, submitted, crashed, split, resynced, replies>>

\* When node n is to have started its slot manager.
StartBy(n) == IF n \in crashed THEN launched[n] + RestartWait ELSE LastStart

StartAgain(n) ==
  /\ n \in crashed => now >= StartBy(n)
  /\ StartSlotManager(n)

-------------------------------------------------------------------------------
\* Answers to clients.

Reply(n, tx, status) == replies' = replies \cup {[tx |-> tx, node |-> n, at |-> now, status |-> status]}

\* POST /tx: the transaction is in the mempool when publishTx throws, and stays.
SubmitThrows(n, tx) ==
  /\ now \in SubmitTimes
  /\ \A e \in submitted : e.tx # tx
  /\ submitted' = submitted \cup {[tx |-> tx, at |-> now]}
  /\ pool' = [pool EXCEPT ![n] = Add(@, tx, Genesis, now)]
  /\ UNCHANGED <<now, clockVars, digests, proposals, history, stateRoot, pending, nets>>

-------------------------------------------------------------------------------
To(net, n) == {m \in net : m.to = n}

\* What the process of node n does by itself.
Works(n) ==
  \/ \E m \in To(txNet, n) : OnTx(m)
  \/ \E m \in To(digestNet, n) : OnDigest(m)
  \/ \E m \in To(batchNet, n) : OnBatch(m) \/ OnLateBatch(m)
  \/ \E m \in To(syncNet, n) : OnMempoolSync(m)
  \/ StartAgain(n)
  \/ ToFreeze(n) \/ ToSync(n) \/ ToPropose(n)
  \/ FinalizeWinner(n) \/ FinalizeSkip(n) \/ FinalizeEmergency(n)
  \/ \E s \in pending[n] : FinishFinalize(n, s)
  \/ ToCollect(n)

Serves(n) ==
  \E tx \in Txs : \/ Submit(n, tx) /\ Reply(n, tx, 200)
                  \/ SubmitThrows(n, tx) /\ Reply(n, tx, 400)

\* Nobody waits for a process that is down, nor for messages to it.
TickWithFaults ==
  /\ now < MaxNow
  /\ \A n \in up :
       /\ IF running[n] THEN now < Due(n) + MaxLag ELSE now < StartBy(n)
       /\ InTime(To(txNet, n)) /\ InTime(To(digestNet, n))
       /\ InTime(To(batchNet, n)) /\ InTime(To(syncNet, n))
  /\ now' = now + 1
  /\ UNCHANGED <<clockVars, pool, digests, proposals, history, stateRoot, pending,
                 submitted, nets>>

NotesResync == resynced' = (resynced \/ ~(syncNet' \subseteq syncNet))

FaultNext ==
  \/ \E n \in up : Works(n) /\ NotesResync /\ UNCHANGED <<up, launched, crashed, split, replies>>
  \/ \E n \in up : Serves(n) /\ UNCHANGED <<up, launched, crashed, split, resynced>>
  \/ \E n \in Nodes : Crash(n) \/ Relaunch(n)
  \/ TickWithFaults /\ UNCHANGED faultVars
  \/ Horizon /\ UNCHANGED faultVars

FaultSpec == FaultInit /\ [][FaultNext]_<<vars, faultVars>>

-------------------------------------------------------------------------------
\* PROPERTIES

Survivors == Nodes \ crashed

\* The nodes that never crashed go on agreeing, slot by slot, through the crash
\* and the return of another, unless the crash cut one of its broadcasts in two:
\* its digest or proposal of the slot may then be known to one of them only.
SurvivorsAgree ==
  ~split =>
    \A n, m \in Survivors : \A s \in DOMAIN history[n] \cap DOMAIN history[m] :
      history[n][s] = history[m][s]

\* A transaction a surviving node has answered with 200 is sequenced by every
\* survivor in the promised slot, or in the first one after it that is not skipped:
\* the majority is reached without the node that is down, and a returning one does
\* not get in the way.
SurvivorsInclude ==
  ~split =>
    \A r \in replies, n \in Survivors : \A s \in DOMAIN history[n] :
      (/\ r.status = 200 /\ r.node \in Survivors
       /\ s >= PromisedSlot(r.at) /\ history[n][s].proposer # SKIP)
         => Included(n, r.tx)

\* Whoever adopts a batch of a survivor, a node that has lost its memory and
\* starts anew included, has the same last non-empty batch before it.  A returned
\* node can thus neither follow the others' history nor bend it.
AdoptedFromSurvivors ==
  \A n \in Nodes : \A s \in DOMAIN history[n] :
    LET m == history[n][s].proposer
    IN m \in Survivors => PrevRoot(history[m], s) = PrevRoot(history[n], s)

\* A transaction whose client was answered 400 stays in the mempool it was put
\* in, slot after slot, but is never sequenced: one digest is no majority.  Only
\* an emergency resync publishes it after all.
RefusedNeverSequenced ==
  ~resynced => \A r \in replies, n \in Nodes : r.status = 400 => ~Included(n, r.tx)

SurvivorDigestsTimely ==
  \A n \in Nodes :
    /\ n \in Survivors /\ Enters(n, "PROPOSE") =>
         \A m \in digestNet : m.to = n => m.body.slot # slot[n]
    /\ Enters(n, "SYNC") =>
         \A k \in Survivors : ~(phase[k] = "PROPOSE" /\ slot[k] = slot[n])

\* As long as no broadcast has been cut in two, the timetable goes on giving the
\* survivors' digests their time: a survivor leaves SYNC with every digest of its
\* slot that is on its way to it, and nobody, a node that has returned included,
\* publishes one while a survivor is deciding on it.
SurvivorDigestsInTime == [][~split => SurvivorDigestsTimely]_<<vars, faultVars>>

SurvivorProposalsTimely ==
  /\ \A n \in Nodes :
       /\ n \in Survivors /\ Enters(n, "FINALIZE") =>
            \A m \in batchNet : m.to = n => m.body.slot # slot[n]
       /\ Enters(n, "PROPOSE") =>
            \/ \A k \in Survivors : OpenSlot(k) <= slot[n]
            \/ \A k \in Survivors : OpenSlot(k) > slot[n]
  /\ \A m \in batchNet :
       m.to \in Survivors /\ m.body.slot >= OpenSlot(m.to) => ~OnLateBatch(m)

\* Nor does it fail their proposals: a survivor leaves PROPOSE with those of its slot
\* that are on their way to it, nobody proposes for a slot that some of the survivors
\* have settled and others not, and no survivor takes one for late before it has
\* settled the slot.
SurvivorProposalsInTime == [][~split => SurvivorProposalsTimely]_<<vars, faultVars>>

SurvivorsHaveVoted == \A n, k \in Survivors : Enters(n, "PROPOSE") => HasVoted(k, slot[n])

\* And no survivor builds its common subset before every other one has sent its digest.
SurvivorsVoteInTime == [][~split => SurvivorsHaveVoted]_<<vars, faultVars>>
===============================================================================
