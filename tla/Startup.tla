-------------------------------- MODULE Startup --------------------------------
(* The life of the process before slotManager.start(): NetworkNode.start with  *)
(* its bootstrap dials, peers that come and go, and the wait loop of index.ts, *)
(* which polls the number of connected peers and gives up after a while.       *)
EXTENDS Integers, FiniteSets

CONSTANTS
  Peers,         \* whoever this node may be connected to
  Bootstrap,     \* BOOTSTRAP_NODES
  Expected,      \* expectedPeers: the registry's other nodes, by number
  MaxWait,       \* maxWaitMs
  PollInterval,  \* pollIntervalMs
  Settle,        \* the 5 s for the gossip mesh
  PollLag        \* a timeout of the loop ends at most this late

ASSUME StartupAssumption ==
  /\ IsFiniteSet(Peers) /\ Bootstrap \subseteq Peers
  /\ Expected \in Nat /\ Settle \in Nat /\ PollLag \in Nat
  /\ MaxWait \in Nat \ {0} /\ PollInterval \in Nat \ {0}

VARIABLES
  step,    \* where main() is: "networking", "waiting", "settling", "started", "exited"
  toDial,  \* bootstrap nodes not dialled yet
  peers,   \* the connected peers
  waited,  \* Date.now() - startWait
  wakeAt   \* when the timeout main() awaits ends, on the same scale

vars == <<step, toDial, peers, waited, wakeAt>>

TypeOK ==
  /\ step \in {"networking", "waiting", "settling", "started", "exited"}
  /\ toDial \subseteq Bootstrap
  /\ peers \subseteq Peers
  /\ waited \in Nat
  /\ wakeAt \in Nat

Init ==
  /\ step = "networking"
  /\ toDial = Bootstrap
  /\ peers = {}
  /\ waited = 0
  /\ wakeAt = 0

\* The bootstrap nodes are dialled one after the other; a dial that fails is logged.
DialBootstrap(p) ==
  /\ step = "networking"
  /\ p \in toDial
  /\ toDial' = toDial \ {p}
  /\ peers' \in {peers, peers \cup {p}}
  /\ UNCHANGED <<step, waited, wakeAt>>

\* network.start() throws: main() rejects and the process exits.
NetworkFails ==
  /\ step = "networking"
  /\ step' = "exited"
  /\ UNCHANGED <<toDial, peers, waited, wakeAt>>

\* SIGINT during the wait: its handler is only registered later, so the process
\* ends there and then.
Interrupted ==
  /\ step \in {"waiting", "settling"}
  /\ step' = "exited"
  /\ UNCHANGED <<toDial, peers, waited, wakeAt>>

\* daemon.start() is done and the wait begins.
BeginWait ==
  /\ step = "networking"
  /\ toDial = {}
  /\ step' = "waiting"
  /\ UNCHANGED <<toDial, peers, waited, wakeAt>>

\* mDNS discovers p and dialling it succeeds, or p dials this node.
Connect(p) ==
  /\ step # "exited"
  /\ peers' = peers \cup {p}
  /\ UNCHANGED <<step, toDial, waited, wakeAt>>

Disconnect(p) ==
  /\ step # "exited"
  /\ peers' = peers \ {p}
  /\ UNCHANGED <<step, toDial, waited, wakeAt>>

\* getConnectedPeerCount: any peer counts, of the registry or not.
EnoughPeers == Cardinality(peers) >= Expected

\* Mutant of KeepWaiting: one more round at the timeout.
KeepWaitingOnce == waited <= MaxWait /\ ~EnoughPeers

KeepWaiting == waited < MaxWait /\ ~EnoughPeers

\* One round of the loop, and what follows it.
Poll ==
  /\ step = "waiting"
  /\ waited >= wakeAt
  /\ IF KeepWaiting
     THEN wakeAt' = waited + PollInterval /\ UNCHANGED step
     ELSE wakeAt' = waited + Settle /\ step' = "settling"
  /\ UNCHANGED <<toDial, peers, waited>>

\* Mutant of StartConsensus: it insists on the peers.
StartConsensusRecounts ==
  /\ step = "settling"
  /\ waited >= wakeAt
  /\ EnoughPeers
  /\ step' = "started"
  /\ UNCHANGED <<toDial, peers, waited, wakeAt>>

\* The wait for the mesh is over.  The peers are not counted again.
StartConsensus ==
  /\ step = "settling"
  /\ waited >= wakeAt
  /\ step' = "started"
  /\ UNCHANGED <<toDial, peers, waited, wakeAt>>

Tick ==
  /\ step \in {"waiting", "settling"}
  /\ waited < wakeAt + PollLag
  /\ waited' = waited + 1
  /\ UNCHANGED <<step, toDial, peers, wakeAt>>

Networking == BeginWait \/ \E p \in Bootstrap : DialBootstrap(p)

-------------------------------------------------------------------------------
\* PROPERTIES

\* However the peers come and go, the node starts within the timeout of the
\* wait, one poll and the settling time: the loop may not wait on a peer that
\* keeps reconnecting, nor end later because polls are late.
StartIsTimely ==
  waited <= MaxWait - 1 + PollInterval + Settle + 2 * PollLag
===============================================================================
