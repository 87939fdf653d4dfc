# MNPSN in TLA+

TLA+ models of MNPSN, a network of nodes that sequence transactions in time
slots: in every slot the nodes agree on a set of transactions by majority, each
proposes an order drawn from its VRF, and the proposal with the lowest VRF
output wins. This directory holds the modules, the TLC configurations that check
small instances of them, and proofs for all instances.

All paths below are relative to the root of the repository.

## 1. The system

### Components

| Component | Source | State | Operations |
|---|---|---|---|
| SlotManager | `src/core/SlotManager.ts` | current slot and phase, the stretched duration (`effectiveDelta`), one timer, its genesis | constructor, `setStartSlot`, `start`, `stop`, timer callback `executeTransition` |
| SkipHandler | `src/core/SkipHandler.ts` | number of consecutive skips | `recordSkip`, `reset`, duration (doubling, at most 4 slots), emergency flag (3 skips), `getPrevRoot` |
| Mempool | `src/mempool/index.ts` | buckets: slot -> hash -> transaction; its own copy of the genesis | `add` (slot by arrival time), `snapshot`, `carryForward`, `evict` |
| SyncManager | `src/sync/SyncManager.ts` | digests: slot -> node -> hashes | `broadcastDigest`, `receiveDigest`, `computeCommonSubset`, `getExcluded`, `clearSlot` |
| OrderingEngine, BatchBuilder, ForkChoice | `src/consensus/index.ts` | none | order by hash with the VRF output, Merkle root, lowest score |
| VRFProvider | `src/crypto/VRFProvider.ts` | none | `computeSlotSeed`, `prove`, `verify` |
| StateRootTracker | `src/core/StateRootTracker.ts` | latest state root, history | `computeStateRoot`: chains whatever it is called with |
| NodeDaemon | `src/NodeDaemon.ts` | `batchHistory`, `receivedProposals` | handlers of four gossip topics, the listener of the phases, `start`, `POST /tx`, `stop` |
| NetworkNode | `src/network/index.ts` | libp2p node, connected peers | start with bootstrap dials, mDNS discovery, publish, subscribe, peer count |
| Start-up | `src/index.ts` | how long it has waited | reads the environment, starts the daemon, polls the peer count until there are enough or a minute is over, waits 5 s, then `slotManager.start()` |
| AnchorClient, SequencerAnchor | `src/anchor/AnchorClient.ts`, `contracts/SequencerAnchor.sol` | on L1: slot -> state root, written once | `submitBatch`: simulation, transaction, receipt; `getStateRoot` |
| Logger, scripts, deployment, connection trials | `src/utils`, `scripts`, ... | none that matters | not modelled |

### How they interact

The SlotManager's timer emits `phase_changed`; the NodeDaemon's listener does the
work of the phase.

1. COLLECT, FREEZE: nothing.
2. SYNC: snapshot of the slot's bucket, digest stored and published.
3. PROPOSE: common subset of the digests held; the rest of the bucket is carried
   to the next slot; if all common payloads are at hand, they are ordered,
   proposed to oneself and published.
4. FINALIZE: common subset *again*, validation of the proposals, fork choice. A
   winner resets the skip counter; otherwise a null batch is recorded, the
   common transactions are carried, the slot is stretched, and from the third
   skip on the bucket of the next slot is published. Then the slot's bucket,
   digests and proposals are dropped. The new state root is submitted to L1 by
   the winner, or by the first node of the registry in a skipped slot; nobody
   waits for the submission.

Meanwhile gossip handlers and the RPC change the mempool, the digests and the
proposals between any two callbacks, from the moment the network is up, which is
before the slot manager runs. JavaScript runs one callback at a time up to an
`await`; nearly every handler awaits last, the exception being
`publishMempoolSync` in FINALIZE, behind which the clean-up waits.

### What is hard

- Two clocks of slots: `SlotManager` and `Mempool` number slots separately, one
  from timers and one from arrival times; start times are absolute but
  durations are stretched.
- The order of messages relative to phases: nothing stamps a digest or proposal
  except its slot; a proposal is dropped when late by the receiver's clock, a
  digest never.
- The same value computed twice (common subset, previous root, seed) at moments
  between which messages arrive.
- Transactions at the cutoff: filed under different slots on different nodes.
- Skips: carry, stretch, catch-up, resync and the await.
- No persistence: a process that ends forgets everything, and may leave a
  broadcast half delivered; `RESUME_SLOT`, late starts.
- Publishes that throw, in handlers that have changed state before.
- Submissions to L1 that race with each other between simulation and block.

The complete list, with lines, is under `hazards` in `PROJECT.json`.

### What makes each component correct

| Component | Properties |
|---|---|
| SlotManager, SkipHandler | `ImplementsCycle`, `NeverEarly`, `BacklogBounded`, `SkipsCountTrailingNulls`, `PhasesGoRound`, `BackOnSchedule` |
| Start-up, NetworkNode | `StartIsTimely`, `StartsAtLast` |
| Mempool | `ArrivalsLandInOpenSlot`, `NoStrandedTx`, `TxLeavesOnlyByInclusion` |
| SyncManager | `CommonSubsetAgreement`, `DigestsInTime`, `NothingKeptOfPastSlots`, `RefusedNeverSequenced` |
| Consensus, VRF | `Agreement`, `ProposalsInTime`, `AdoptedBatchSharesHistory` |
| StateRootTracker | `StateRootCommitsToHistory` |
| AnchorClient, SequencerAnchor | `AnchorNeverRewritten`, `AnchoredRootsAreFinalized` |
| The network of nodes | `ImplementsLedger`, `SequencedOnce`, `InclusionBounded`, `Agreement`; with crashes `SurvivorsAgree`, `SurvivorsInclude`, `AdoptedFromSurvivors`, `SurvivorDigestsInTime`, `SurvivorProposalsInTime`, `SurvivorsVoteInTime` |

## 2. The modules

| Module | Models | Remarks |
|---|---|---|
| `SlotTiming` | `getSlotBoundaries`, `scheduleNextTransition`, the skip handler's arithmetic, `assignTransactionToSlot` | operators; genesis is a parameter because the program keeps two |
| `Mempool` | the buckets | a set of `<<slot, tx>>` pairs |
| `SyncManager` | the digests and the common subset | a set of digests, one per slot and sender |
| `Consensus` | order, Merkle root, VRF, validation, fork choice, previous root | a hash is what it commits to: roots are trees, seeds and proofs records. Hashes are thus collision free |
| `SlotManager` | one node: constructor, start with `RESUME_SLOT`, slot manager's start and stop, every phase change; whether FINALIZE finds a winner is left open | starts may lie before or after the genesis; timers may be late by `MaxLag` |
| `Sequencer` | the network of nodes with the whole phase listener, gossip handlers, RPC submission | extends the four operator modules |
| `SlotCycle` | what the clockwork promises: the phases in turn, time counted from the start of the slot worked on | abstract specification of `SlotManager`, with fairness; finite although time goes on for ever |
| `Startup` | `NetworkNode.start`, connections, the wait loop of `index.ts` | |
| `NodeLife` | one process: `Startup` up to `slotManager.start()`, then `SlotCycle` | composition by `INSTANCE`, with fairness |
| `Ledger` | what the network promises: one ledger that grows slot by slot and that nodes learn in order | abstract specification of `Sequencer` |
| `Anchor` | the contract's map and the calls of `submitBatch` under way | |
| `AnchoredSequencer` | `Sequencer` with `Anchor`: FINALIZE makes the call in the step that computes the root | |
| `SequencerFaults` | `Sequencer` with processes that end and are launched again, and answers to clients | |
| `MCSlotManager`, `MCNodeLife`, `MCSequencer`, `MCAnchoredSequencer`, `MCSequencerFaults` | values of the constants for TLC | hash orders with ties |
| `SlotTimingProofs` | lemmas about the arithmetic | |
| `SlotManagerProofs`, `NodeLifeProofs` | theorems about one node: its clockwork, its life from the launch on | |
| `SequencerProofs` | theorems about histories, state roots and skip counters | extends `SlotTimingProofs` |
| `SequencerMempoolProofs` | theorems about transactions in mempools | extends `SequencerProofs` |
| `SequencerAgreementProofs` | theorems about what nodes have in common, that the network implements `Ledger`, and inclusion by the promised slot | extends `SequencerMempoolProofs` |
| `AnchoredSequencerProofs` | theorems about the anchor | extends `SequencerProofs` |
| `SequencerFaultsProofs` | theorems under crashes: adoption, refusals, and what the survivors have in common | extends `SequencerAgreementProofs` |

The two refinements: `SlotManager` implements `SlotCycle` with `elapsed` mapped to
the clock minus the start of the current slot (0 while the node does not run), and
`Sequencer`, in a timely network, implements `Ledger` with a node's history as what
it knows of the ledger.

### State and actions of `Sequencer`

`running`, `slot`, `phase`, `effectiveDelta` are the slot manager's fields per
node; `skips` the skip handler's; `pool`, `digests`, `proposals`, `history` the
maps of Mempool, SyncManager and NodeDaemon; `stateRoot` the sequence of (slot,
batch root) pairs that the latest root hashes in; `pending` the slots whose FINALIZE handler
is held up at its await; `txNet`, `digestNet`, `batchNet`, `syncNet` the messages under way;
`submitted` and `now` the clients and the clock.

| Action | Code |
|---|---|
| `Submit`, `OnTx` | `POST /tx` and the handler of `/tx` |
| `OnDigest`, `OnBatch`, `OnLateBatch`, `OnMempoolSync` | the other handlers of `setupNetworkHandlers`; a batch is late by the receiver's `effectiveDelta` |
| `StartSlotManager` | `slotManager.start()` at the end of the wait in `index.ts` |
| `ToFreeze`, `ToSync`, `ToPropose` | `executeTransition` and the branch of the listener it triggers |
| `FinalizeWinner`, `FinalizeSkip` | FINALIZE, as one step with its clean-up |
| `FinalizeEmergency`, `FinishFinalize` | FINALIZE up to the await of `publishMempoolSync`, and the clean-up after it |
| `ToCollect` | the end of FINALIZE |
| `Tick` | time passes, unless a callback or a message is overdue |
| `Horizon` | the model stops at `MaxNow`; the program does not |

### Faults, anchor and start-up

`SequencerFaults` adds to the state which nodes are `up`, when they were
`launched`, and history variables for its properties (`crashed`, `split`,
`resynced`, `replies`).

| Action | Code |
|---|---|
| `Crash` | the process ends between two callbacks and with it every field of `NodeDaemon` and its parts; any of the copies it was publishing are lost |
| `Relaunch`, `StartAgain` | the constructors run with nothing but the environment, handlers listen, and `slotManager.start()` follows after the wait |
| `SubmitThrows` | `POST /tx` when `publishTx` throws: 400, and the transaction stays in the mempool |

A `publishMempoolSync` that throws is in `Sequencer` already: its slot stays in
`pending`, because `FinishFinalize` may follow at any time or never, and
`FinalizeEmergency` leaves open whether the message went out.
`NodeDaemon.stop` ends a process with less lost than a crash, so it is a case of
`Crash`. `Anchor` follows each `submitBatch` from its simulation against the
contract (`Send`) to the block (`Mine`) or to nothing (`GiveUp`). A transaction
that is reverted in its block is no error for the client, which does not look at
the receipt's status. `Startup` names the actions after the lines they stand for:
`DialBootstrap`, `Connect` (mDNS, a peer that dials, or a dial by IPC),
`Disconnect`, `Poll` (a round of the wait loop), `StartConsensus`.

### Messages and clocks

The publisher does not receive its own message (the code stores its own proposal
for that reason). A message stays under way until it is delivered, at most
`MaxDelay`; a `MaxDelay` past the horizon lets it be late without bound, which
includes being lost. Clocks are one clock: drift between nodes is covered only
as lateness of timers and messages.

## 3. The runs

One tick stands for some hundreds of milliseconds: `BaseDelta = 8` ticks are a
slot, `Epsilon = 2` the cutoff, and PROPOSE and FINALIZE last 2 ticks each (1 and 2 in the
runs of `SlotManager`, and slots of 4 with windows of 1 and 2 in `node_life`). A slot then overlaps the next, as in the program with
its defaults (5000 + 500 + 1000 ms every 5000 ms). The bounds are `MaxNow`
(horizon), `MaxLag`, `MaxDelay`, `SubmitTimes`, the numbers of nodes and
transactions.

### Passing

| Run | Instance | Shows |
|---|---|---|
| `slot_manager` | one node, launches 3 ticks before to 9 after the genesis, timers up to `MaxLag` late, every sequence of wins and skips over several slots, long enough for the cap of the stretch | `ArrivalsLandInOpenSlot`, `BacklogBounded`, `NeverEarly`, and that the clockwork implements `SlotCycle` |
| `node_life` | one process with two possible peers, one of them a bootstrap node; timeout of 5 ticks, polls every 2; slots without end | it starts in bounded time, however peers come and go; the phases go round for ever; once skips end it is back on schedule |
| `timely` | 3 nodes, delay within the SYNC and PROPOSE windows, three slots; whatever can happen to two transactions around the cutoff, and one story of three | digests and proposals have the time they need (`DigestsInTime`, `ProposalsInTime`); nodes compute the same common subsets and batches, include by the promised slot or the first later one that is not skipped, forget past slots, and implement `Ledger`: nothing is sequenced twice, and in one order |
| `async` | 2 nodes, any delay, two slots | each node's own consistency: nothing lost, nothing stranded; batches adopted only from nodes that share the history |
| `forks` | 2 nodes of which only one has its key, delay 3 where PROPOSE lasts 2, both with the anchor and its owner key, up to tick 26 | wins and skips alternate, differently on the two nodes; the state root is that of the history, the skip counter counts its last null batches; what L1 holds is a root of a node entitled to submit it, and stays |
| `skips` | 2 nodes whose keys do not match the registry, so every slot is skipped, up to the fourth; any `publishMempoolSync` may be slow, reach nobody or throw | clean-up and carry across the await of the emergency resync; a failed publish leaves what belongs to its slot and nothing else |
| `crash` | 3 nodes, one of which crashes before, at or after SYNC or PROPOSE of the first slot, is launched again a little later and joins in the third slot or never; any `publishTx` may throw | the timetable still gives the survivors' digests and proposals their time (`SurvivorDigestsInTime`, `SurvivorProposalsInTime`, `SurvivorsVoteInTime`); the survivors agree and include; nobody who lost the history can be followed or follow; a transaction answered with 400 is not sequenced, unless an emergency resync hands it on |

Three transactions are needed in `timely` for a skip. A faultless network skips a slot
when three arrive around the cutoff and each misses it at a different node: all three
are common, and nobody holds them all to propose them. That a skip delays the promise but
does not break it is thus a question of three, and every interleaving of three is out
of reach. `TimelySpec` (in `MCSequencer`) is all that two transactions can do,
and once a third is submitted the story `Straddle`, through the
skipped slot and the stretched one after it; every behaviour of it is one of `Spec`.

`timely` needs three nodes for a majority that is not everybody, and so does
`crash`, for a majority without the node that is down. Two nodes are
enough in `async`: the properties relate a node to itself or to one proposer,
and with two nodes the majority is both, so a missing digest already empties the
common subset; three nodes with unbounded delay are out of reach. In `forks` a
slot is finalised by tick 10, 18 and 26, which is enough for a win after a skip,
a skip after a win, and a submission that is overtaken by those of two later slots. Every slot of
`skips` is decided alike, so the network there is timely and the horizon is what
matters: the resync starts with the third skip, and its clean-up races with the
following slots. `crash` takes the moments around SYNC and PROPOSE of one slot,
where what a node publishes counts, and goes on to the third slot, in which the
node is back. `node_life` is bounded only in the start-up; once started, its
states repeat.

`SurvivorsAgree` and `SurvivorsInclude` leave out the executions in which a crash
cuts a broadcast in two (`split`): a digest or proposal that reached one survivor
and not the other makes them finalise the slot differently, and nothing in the
code repairs that. Without the condition TLC finds the fork in the first slot. Two more
conditions are on the wait of a returning node (5 s and more in `src/index.ts:90`, `RestartWait`
here), and TLC shows that both are needed. With `RestartWait = 0` a node can be back
in the slot it has voted in, votes again, and `SurvivorsAgree` fails; a wait that is
no shorter than the cutoff (1 s) excludes that. And a wait that ends inside a cutoff
(`RelaunchTimes = {11}`, `RestartWait = 4`) lets the node publish its digest when the others are
about to leave SYNC, and `SurvivorDigestsInTime` fails. Nothing in the code excludes that one. A
returned node is not resynchronised either: it has an empty history, derives other
seeds than the others as soon as one of their batches is not empty, and then adopts
none of theirs. `AdoptedFromSurvivors` states the safe side of this;
`design/LIMIT-001.md:71-75` describes it as a limit.

### Disagreements with documents and comments

Each of these runs checks one statement and ends in a counterexample; `findings`
in `PROJECT.json` quotes the statement.

| Run | Statement | What the code does |
|---|---|---|
| `slot_manager_resume` | No Retroactive Inclusion | `RESUME_SLOT` shifts the slot manager's genesis, not the mempool's |
| `catch_up` | the same state root everywhere | the windows of the slots after a skipped one shrink to nothing: no digest or proposal can arrive in time, and nodes fork in a timely network |
| `early_submit` | eventual inclusion | transactions accepted before the start are filed under slots that never run |
| `resync_duplicates` | Zero transaction duplication | nothing compares a mempool with what has been sequenced: a late copy that a minority holds is carried for ever, comes back to the majority with an emergency resync, and is sequenced again |
| `anchor_divergence` | two different roots for a slot are visible on L1 | the second is turned away, and the client takes that for success |

`resync_duplicates` follows one story of five slots (`Story` in `MCSequencer`), because
the whole instance is out of reach; every behaviour of its `StorySpec` is one of
`Spec`.

Four more differences need no run. The threshold is
floor(n/2) + 1 (`src/sync/SyncManager.ts:46`), not ceil(n/2) + 1
(`design/PROT-001.md:249`, `design/TEST-001.md:250`), and `SurvivorsInclude`
depends on it: with the documented one a single crash among three nodes stops
inclusion. With too few digests a node proposes the common subset it has, not its
snapshot (`design/PROT-001.md:259-260`). And `start()` takes the slot of the moment
this node's own wait ends, so nodes start on the same slot only if their waits end
in the same one (comment at `src/core/SlotManager.ts:72-73`). And the emergency
resync of `design/PROT-001.md:225` resumes with the merged mempool, while the code
may merge it into the bucket of a slot that the receiver has finalised, where no
slot will propose it: `NoStrandedTx` excludes that by `ResyncBeforeCleanUp` below.

### Mutants

For every property of a passing run there is a definition (`LeaveTimeNoSync`,
`VerifyAnySeed`, ...) that changes a modelled one as a plausible bug would, and
under which TLC finds the property violated.

### Fairness

`node_life` assumes weak fairness of what main() awaits (dials end, timeouts
elapse), of the start that follows, of a timer callback that is due, and of the
clock. That is what an event loop gives that is not blocked: a due callback stays
due until it runs. Nothing is assumed about peers, about stopping, or about who
wins slots; `BackOnSchedule` says what it needs of wins itself. `StartsAtLast` has
the exits of the process as its way out: SIGINT, and a network that cannot start.

The other runs state no liveness: in a network whose messages may be lost, nothing
must be sequenced in the end, and in a timely one what is promised is stated as
safety against the clock (`InclusionBounded`, `BacklogBounded`, `SurvivorsInclude`).
There `Tick` is disabled while a callback or message is overdue: that is how
`MaxLag` and `MaxDelay` bound lateness, in the runs and in `BacklogCorrect`,
`StartTimelyCorrect` and `TimetableGivesTime`, the proofs that are about
it. Their clocks stop at a horizon,
where liveness would mean nothing; `SlotCycle` measures time within the slot so
that it need not stop.

## 4. The proofs

| Theorem | Statement |
|---|---|
| `SlotManagerProofs!TypeCorrect` | `Spec => []TypeOK` |
| `SlotManagerProofs!ArrivalsCorrect` | `ResumeSlot = 0` implies `Spec => []ArrivalsLandInOpenSlot` |
| `SlotManagerProofs!NeverEarlyCorrect` | `Spec => []NeverEarly` |
| `SlotManagerProofs!BacklogCorrect` | `Spec => []BacklogBounded` |
| `SlotManagerProofs!CycleImplemented` | `Spec => ImplementsCycle`: `SlotManager` implements `SlotCycle` |
| `NodeLifeProofs!LifeTypeCorrect` | `LifeSpec => []LifeTypeOK` |
| `NodeLifeProofs!StartTimelyCorrect` | `LifeSpec => []StartIsTimely` |
| `SequencerProofs!TypeCorrect` | `Spec => []TypeOK` |
| `SequencerProofs!AdoptionCorrect` | `Spec => []AdoptedBatchSharesHistory` |
| `SequencerProofs!StateRootCorrect` | `Spec => []StateRootCommitsToHistory` |
| `SequencerProofs!SkipCounterCorrect` | `Spec => []SkipsCountTrailingNulls` |
| `SequencerMempoolProofs!TxPreserved` | `Spec /\ [][ResyncInTime]_vars => TxLeavesOnlyByInclusion` |
| `SequencerMempoolProofs!NoTxStranded` | starts in slot 0 imply `Spec /\ [][ResyncBeforeCleanUp]_vars => []NoStrandedTx` |
| `SequencerAgreementProofs!CommonSubsetCorrect` | `Spec /\ DigestsInTime => []CommonSubsetAgreement` |
| `SequencerAgreementProofs!AgreementCorrect` | starts in slot 0 imply `Spec /\ DigestsInTime /\ ProposalsInTime => []Agreement` |
| `SequencerAgreementProofs!NothingKeptCorrect` | likewise `[]NothingKeptOfPastSlots` |
| `SequencerAgreementProofs!TimetableGivesTime` | `TimetableFits` implies `Spec /\ [][Unstretched]_vars => DigestsInTime /\ ProposalsInTime` |
| `SequencerAgreementProofs!AgreementOnTimetable` | `TimetableFits` implies `Spec /\ [][Unstretched]_vars => [](CommonSubsetAgreement /\ Agreement /\ NothingKeptOfPastSlots)` |
| `SequencerAgreementProofs!SequencedOnceCorrect` | starts in slot 0 imply `Spec /\ DigestsInTime /\ ProposalsInTime /\ [][ResyncBringsNothing]_vars => []SequencedOnce` |
| `SequencerAgreementProofs!LedgerImplemented` | likewise `ImplementsLedger`: `Sequencer` implements `Ledger` |
| `SequencerAgreementProofs!LedgerOnTimetable` | `TimetableFits` implies `Spec /\ [][Unstretched]_vars => ImplementsLedger /\ []SequencedOnce` |
| `SequencerAgreementProofs!InclusionCorrect` | starts in slot 0 imply `Spec /\ DigestsInTime /\ ProposalsInTime /\ [][EverybodyVotes]_vars => []InclusionBounded` |
| `SequencerAgreementProofs!InclusionOnTimetable` | `TimetableFits` implies `Spec /\ [][Unstretched]_vars => []InclusionBounded` |
| `AnchoredSequencerProofs!AnchorWrittenOnce` | `AnchoredSpec => AnchorNeverRewritten` |
| `AnchoredSequencerProofs!AnchoredRootsCorrect` | `AnchoredSpec => []AnchoredRootsAreFinalized` |
| `SequencerFaultsProofs!FaultTypeCorrect` | `FaultSpec => []FaultTypeOK` |
| `SequencerFaultsProofs!AdoptionUnderFaults` | `FaultSpec => []AdoptedFromSurvivors` |
| `SequencerFaultsProofs!RefusedCorrect` | more than one node implies `FaultSpec => []RefusedNeverSequenced` |
| `SequencerFaultsProofs!SurvivorsAgreeCorrect` | starts in slot 0 and `Epsilon <= RestartWait` imply `FaultSpec /\ SurvivorDigestsInTime /\ SurvivorProposalsInTime => []SurvivorsAgree` |
| `SequencerFaultsProofs!SurvivorsIncludeCorrect` | with `2 * MaxCrashes < Cardinality(Nodes)` besides, `FaultSpec /\ SurvivorDigestsInTime /\ SurvivorProposalsInTime /\ SurvivorsVoteInTime => []SurvivorsInclude` |
| `SequencerFaultsProofs!TimetableForSurvivors` | `TimetableFits`, `RelaunchFits` and `Epsilon <= RestartWait` imply `FaultSpec /\ [][Unstretched]_<<vars, faultVars>> => SurvivorDigestsInTime /\ SurvivorProposalsInTime /\ SurvivorsVoteInTime` |
| `SequencerFaultsProofs!SurvivorsOnTimetable` | with the minority besides, `FaultSpec /\ [][Unstretched]_<<vars, faultVars>> => [](SurvivorsAgree /\ SurvivorsInclude)` |

They hold for every slot length, cutoff, window, timer lag, message delay, number of
nodes, transactions and crashes, under the assumptions `TimingAssumption`,
`ConsensusAssumption`, `SlotManagerAssumption`, `StartupAssumption`,
`NodeLifeAssumption`, `SequencerAssumption` and `FaultAssumption`, which only say that durations are
natural numbers with a positive slot length and a cutoff within the slot, that node
numbers are positive, and that the marker SKIP is not a node. Two more are
hypotheses of the theorems about agreement: VRF outputs are numbers
(`OutputsAreNumbers`), and for the refinement of `Ledger`, `Order` lists members of
the set it orders (`OrdersAreLists`). The latter is a fact, not an assumption about the code, but
`SortSeq` of the standard modules chooses a sorting permutation, and that one
exists needs induction; TLC evaluates it for the keys of the runs (`MCOrdersAreLists`). What else a theorem
assumes is in its statement and explained below.

### One node

**Arrivals.** `ArrivalsLandInOpenSlot` is not inductive: that an arrival is not
filed under a slot whose common subset is settled follows from the clock, which
must have passed the end of that slot. `Behind` says so: a node that is past
SYNC in slot s has seen the end of s, one that is in slot s has seen the end of
s - 1, both in the mempool's numbering. The stretch only delays a phase
(`StretchAtLeastSlot`), hence `Behind` is preserved by every phase change;
`SlotIsOver` turns it into a bound on the slot an arrival is filed under.
`ResumeSlot = 0` is needed: with it set the two numberings differ and the
property fails (`slot_manager_resume`).

**Never early.** Inductive as it stands, given the types: a callback runs at its
target or later, and the target of a stretched slot is later than that of a
slot of normal length.

**Backlog.** The bound holds because targets are absolute. `InSlotTime` says that
a running node is not past `Latest` of its slot: its start, the longest stretch,
the windows and one lag. The next slot has a later `Latest`, so neither lateness
nor stretches add up.

**Cycle.** The initial states map to the initial state of `SlotCycle`, and each
action to the one of the same name, `Boot` and `Horizon` to none. Types are not
enough for the two FINALIZE steps: `SlotCycle` doubles the stretch, the code
computes it from the number of skips. `StretchFollowsSkips` ties the two together,
and `StretchDoubles` says that one more skip is one doubling up to the cap. The
rest is arithmetic: phases are due at times counted from the start of the slot
(`DueFromSlotStart`), and the next slot starts `BaseDelta` later
(`NextSlotStart`). No assumption is made about `RESUME_SLOT`.

**Start.** `WaitsEnd` bounds the moment the wait loop has set its alarm for, step
by step: a poll is set only while the timeout has not passed, and the settling
time only by a poll.

### The network, whatever it loses and delays

**Adoption.** Nothing in a proposal names its history; the VRF seed does. The
invariant `Traceable` says of every proposal that is under way, held or adopted
that its proposer *still* derives the seed it was made with (`Proposed`), and of
every adopted batch that the adopting node derives the same. A node rewrites its
history only at its current slot, which no previous root of that slot or an
earlier one depends on (`PrevRootStable`), so what was once derived stays
(`NextGrows`, `ProposedStable`). Then two seeds for a slot are equal only if the
previous roots are. Under crashes the same invariant holds of the proposals of the
survivors: `Traceable` takes the set of proposers as a parameter, and a crash
takes a node out of it.

**State root and skips.** `Chained` adds to the property where the sequence of
slots ends: right before the slot that the node has open, so that FINALIZE extends
it without a gap. `Counted` adds that the last null batches are finitely many; a
null batch adds one to them (`NullOnTop`), a winner leaves none.

**Transactions.** A transaction in a mempool is not simply included or in a bucket
yet to be worked on: between PROPOSE and FINALIZE it may be in the bucket of the
current slot alone, and then it must be in the common subset. `Safe` is the
disjunction of the three, `Books` what a node knows of its own digest, phases and
slots. `ResyncInTime` says what is asked of the emergency resync: one that reaches
a node past SYNC brings it nothing it does not hold. `NoStrandedTx` needs two
conditions: nodes start in slot 0 (`LastStart < Genesis + BaseDelta`; in
`early_submit`, where the property fails, they may start later), and a merge
does not come after the clean-up of the slot it merges into
(`ResyncBeforeCleanUp`).

**Anchor.** What is written is written once, whatever the interleaving of
simulations and blocks (`AnchorWrittenOnce`). `Honest` says of every call under way
and every root on L1 that some node entitled to submit it has computed it at that
slot; state roots only grow (`PrefixKept`), so this stays true for as long as a call
is under way.

**Refusals.** A transaction whose publish threw is in one mempool and in the digests
of one node (`RefusedConfined`), and a node has one digest per slot, even if its
process went through SYNC of the slot twice (`OneVote`). One vote is no majority of
two or more nodes. An emergency resync publishes the mempool and with it the
refused transaction; the property excludes that, as it must.

### The network, if messages have the time they need

`DigestsInTime` says that nobody leaves SYNC before all the digests of the slot are
published, nor settles the slot before they are delivered; `ProposalsInTime` the
same of proposals and PROPOSE. They are properties of the timing alone, and the
theorems divide accordingly.

**Agreement from timing.** `Agreeing` is inductive: every digest and every proposal
has reached, or is on its way to, each node that has its slot open
(`DigestsSpread`, `BatchesSpread`), nodes have finalised every slot from 0 on
(`FromZero`), and a node that has finalised a slot decided as one will that is still
in PROPOSE (`Verdicts`). Without `Verdicts` the agreement is not
inductive: the first node that finalises a slot must be related to
those that follow. With equal histories come equal seeds, with equal digests equal common
subsets, hence the same valid proposals, and one set has one winner
(`OneDecision`) because ties are broken by the proposer. `OutputsAreNumbers` says
that scores can be compared: the code compares VRF outputs as `BigInt`. A node that starts
in a later slot lacks what was decided before and is left out by
`LastStart < Genesis + BaseDelta`. Skips, stretched slots and the resync are all included.
`NothingKeptOfPastSlots` follows from `MessagesAhead`: no message under way is
for a slot that its receiver is done with.

**Timing from the timetable.** `TimetableFits` is what the constants of a deployment must
satisfy: lag and delay together are less than the cutoff (the time from FREEZE to the end
of SYNC) and less than PROPOSE; the two windows end before the next freeze; nodes start
before the first freeze. The run `timely` satisfies it, and so do the
program's defaults (slots of 5000 ms, a cutoff of 1000, windows of 500 and 1000) as long
as lag and delay stay below 500 ms and nodes start within 4 s of the genesis.
`Timetable` brackets, per phase, the time a node can be in it (`Punctual`) and
the age of messages (`Prompt`). `Unstretched` limits this to the slots up to and
including the first skipped one, and cannot be dropped: after a skip the slots that
catch up have windows that shrink to nothing, and `catch_up` shows nodes that
disagree on the very timetable that fits otherwise. A behaviour of any number of
slots without a skip satisfies it.

**Ledger.** The network is to extend one order, by transactions that are not in it
yet. The code looks for duplicates within one bucket only, so that second part needs
an argument over all nodes and slots, `Accounted`. A transaction is known where it
was submitted or delivered (`AllKnown`) and comes to a node once (`OneArrival`), so a
node has one copy of it in the slots that are not settled, and a second one only while
PROPOSE decides without it (`OneBucket`). A digest is backed by a copy
(`Backed`). When a transaction is sequenced, a majority voted for it (`VotersAreMany`);
each voter gave up its only copy and will not vote for it again
(`Spent`, `VotersFreed`). Late copies of a minority are carried from slot to slot for
ever, but two majorities intersect (`MajoritiesMeet`): they never become one. An
emergency resync would hand such a copy to a voter again. `ResyncBringsNothing`
excludes that, and `resync_duplicates` shows that it must be excluded.

`LedgerImplemented` maps `Submit` to `Submit`; a FINALIZE step to `Decide` where the node
is the first to finalise the slot (`FirstDecides`), to `Follow` where another has
(`OthersFollow`); every other step to a stutter. That a winning batch is a
list without duplicates follows from the validation of proposals: it has the length of
the common subset and the same members (`ValidLists`). On a timetable without a
skipped slot no skip is ever counted (`Stretches`), so no resync is due
(`NoResyncUnstretched`), and `LedgerOnTimetable` needs the timetable alone.

**Inclusion.** `InclusionBounded` is about the moment a slot is finalised, but what
decides it happens a slot earlier, in the mempools. `Including` adds four parts. A
transaction is not under way for longer than `MaxDelay` (`TxPrompt`), hence in the
mempool of every node before the freeze of its promised slot (`PromiseDue`). Until a node has
included it, the transaction is on its way there or filed under a slot that keeps
the promise: the promised one or an earlier one the node still has to work on, or,
after a skip, the one it has open (`Reached`). A digest of a slot is sent after the freeze and
lists whatever was promised by then and is not included (`Votes`), and the digest of
every node that has passed SYNC is there (`Heard`). So in the promised slot all
nodes vote for the transaction and it is common (`UnanimousCommon`); if the slot is
skipped nonetheless, the code carries what is common to the next
(`CommonSettled`, `FiledThroughFinalize`), which is decided in the same way. One
majority would not do: `Heard` needs the vote of every node, and
`EverybodyVotes` says that nobody goes on to PROPOSE before all have entered SYNC.
`TimetableLetsVote` derives that from the timetable. Resyncs and stretched slots need no condition:
a merge adds copies and takes none away.

### The survivors, if messages have the time they need

With crashes the invariant is in two layers, by what a crash can break.

**What stands whatever is lost.** `Standing` needs no timetable and survives every crash
and relaunch, also one that cuts a broadcast in two: types, no body held twice or
under way twice to one node (`Once`), survivors that have worked through every slot
from 0 on (`FromSlot0`), and `NothingTwice`: who has sent a digest or a proposal for a
slot does not come to SYNC or PROPOSE of it again. For a node that runs this is read off
its phase; for one that is down it is `Beyond`: it has crashed after the cutoff of the slot and will
be launched after it. That it then starts in a later slot is `StartsBeyond`, which
needs `Epsilon <= RestartWait`.

**Agreement among survivors.** `Together` says that unless a crash has cut a
broadcast in two, the survivors are `InStep`. This is `Agreeing` for a set of nodes that
crashes take members from. What one survivor holds or is to receive gets to every survivor
that has the slot open (`Spread`); a node outside the set may know more. A crash takes a
sender's copies out of the net: all copies of a body or none, unless it splits, so
`Spread` survives it (`SpreadLose`). What a node that lost its memory
publishes is one more digest or proposal, known to all survivors alike. The common subset and
the choice of winner are therefore the same functions of the same sets as before,
whatever the returned node sends (`SurvivorsSameChoices`, `VerdictsKept`).

**Inclusion by survivors.** `Serving` is `Including` for the survivors: they vote for
what one of them has accepted (`VotesIn`), hear each other's votes (`HeardIn`), and have
the transaction at hand until it is included (`ReachedIn`). `Footing` adds what holds after
any crash: messages to nodes that are up are not overdue, a digest under way is its
sender's, and no more than `MaxCrashes` nodes have crashed. The survivors are then a
majority of all (`SurvivorsAreMany`), their unanimous vote makes the transaction common
(`UnanimousSurvivors`), and whoever wins the slot has it in the batch: a proposal is valid
only if it lists the common subset. Of the documented threshold, ceil(n/2) + 1, the same
step would fail.

**Timing.** `Schedule` is `Timetable` for nodes that may start in any slot: only a node that has never
crashed is known to have worked through the slot before, and only messages to survivors
are known to be prompt. A node that returns is on schedule because of
`RelaunchFits`: its wait ends before the cutoff of the slot it starts in
(`StartsInTime`). The hypothesis is about `RelaunchTimes`, so the environment's, not
the code's; without it the theorem is false, as shown in section 3. `Unstretched` covers the
returned node as well: a node that has skipped runs its slots back to back, and its late
digests would be the same problem. `split` plays no part in the timing.

### Only model-checked

- Liveness (`StartsAtLast`, `PhasesGoRound`, `BackOnSchedule`) and ENABLED, which
  the prover does not handle.
- What a recursive computation yields for every input; the models have none, because
  order and Merkle root are modelled by what they commit to.

## 5. Not modelled

- Several geneses: with `GENESIS_TIMESTAMP` unset each node takes its own launch
  time (`src/index.ts:15`), and slot numbers of different nodes have nothing to do
  with each other.
- Wall clocks that differ between nodes; messages that are delivered twice
  (gossipsub removes duplicates, and every handler but that of `/batch` would ignore them).
- Nodes that deviate from the program. A node without its key is the one
  exception, because the program starts such nodes.
- The inside of libp2p, viem and L1: only which messages and calls arrive, in what
  order and with what outcome. L1 does not reorganise its blocks.
- Recovery as the documents describe it (`design/PROT-002.md:106`, the fallback
  snapshot, replay from L1 events): the code has none.
- `advanceToNextSlot`, `getExcludedTxHashes`, `countBySender` and the getters,
  which the program does not call or which change nothing; the logger; scripts,
  deployment and the connection trials.

## 6. Plan

Done: every component that keeps state, the two refinements and their proofs, faults, liveness of
one process, and every safety property of the runs stated by a theorem. Left:

1. The loops of `computeMerkleRoot`, `select` and `order` as recursive functions
   checked against the definitions of `Consensus`, with bounded inputs; the
   Merkle root tells sequences without duplicates of the same length apart.
2. The survivors' timing beyond the first slot that a returned node skips: its catch-up
   publishes digests of slots the survivors have settled, which does no harm there, but
   when exactly it does is not worked out.
