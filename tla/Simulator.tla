------------------------------ MODULE Simulator ------------------------------
(***************************************************************************)
(* The demo simulator (demo/simulator) under the requests of its server    *)
(* (demo/server): replicas that are started, stopped, crashed, recovered   *)
(* and partitioned while their messages are under way.                     *)
(*                                                                         *)
(* Of a replica its message loops are kept.  A second Start replaces the   *)
(* channels the first loop waits on, so that Stop ends the newest loop and *)
(* an older one at the latest after the next message it handles.  What a   *)
(* message says is left out; those of a link that are under way are        *)
(* counted.  Every level has a latency, so none is delivered at once.      *)
(***************************************************************************)
EXTENDS Integers, FiniteSets, Sequences, FiniteSetsExt

CONSTANTS
  FaultTolerance,   \* f of Config
  Capacity,         \* messages a node's channel holds (100 in the code)
  Partitions,       \* bound: the partitions that are asked for
  Speakers,         \* bound: the nodes that broadcast
  MaxRequests,      \* bound: requests
  MaxBroadcasts,    \* bound: broadcasts through one network
  MaxFaults         \* bound: receivers of a broadcast it is lost to or replayed for

ASSUME SimulatorAssumption == FaultTolerance \in Nat /\ Capacity \in Nat /\ <<>> \in Partitions

MaxFaultTolerance == 5

\* New clamps f to 1 .. MaxFaultTolerance; NodeCount is 3f+1.
NodeCount ==
  LET f == IF FaultTolerance < 1 THEN 1
           ELSE IF FaultTolerance > MaxFaultTolerance THEN MaxFaultTolerance
           ELSE FaultTolerance
  IN  3 * f + 1

Nodes == 0 .. NodeCount - 1

Levels == {"HappyPath", "Byzantine", "Chaos"}

VARIABLES
  running,    \* of the simulator and of its clock
  level,
  nodes,      \* per node: status, and of its consensus: started, stopped, loops
  network,
  pending,    \* the rest of a request that is being served
  requests    \* how many there were

vars == <<running, level, nodes, network, pending, requests>>

-----------------------------------------------------------------------------
(* The network *)

\* networkConfigForLevel: whether messages are lost and replayed.
Faulty(lvl) == lvl # "HappyPath"

NewNetworkSimulator ==
  [ channel    |-> [n \in Nodes |-> 0],   \* messages waiting
    underWay   |-> [l \in Nodes \X Nodes |-> 0],
    partitions |-> <<>>,
    crashed    |-> {},
    sent       |-> 0,
    dropped    |-> 0,
    broadcasts |-> 0,
    arrived    |-> 0,                     \* history
    overflowed |-> 0 ]                    \* history: lost when they arrived

\* The last partition that lists the node.
PartitionOf(net, n) ==
  LET listing == {i \in DOMAIN net.partitions : n \in net.partitions[i]}
  IN  IF listing = {} THEN 0 ELSE Max(listing)

IsPartitioned(net, from, to) ==
  /\ PartitionOf(net, from) # 0
  /\ PartitionOf(net, to) # 0
  /\ PartitionOf(net, from) # PartitionOf(net, to)

\* Mutation: a crashed receiver is not noticed.
SentToAll(net, from) == Nodes \ {from}

\* What a crashed node would get is not even counted.
Receivers(net, from) == Nodes \ ({from} \cup net.crashed)

\* The receivers a partition or the network keeps a message from.
Lost(net, from, fate) ==
  {to \in DOMAIN fate : IsPartitioned(net, from, to) \/ fate[to] = "lost"}

\* Mutation: the messages are counted before the checks.
CountedEarly(net, from, fate) == DOMAIN fate

Counted(net, from, fate) == DOMAIN fate \ Lost(net, from, fate)

\* A replay is not delayed, and overtakes the message.
Replayed(net, from, fate) ==
  {to \in DOMAIN fate \ Lost(net, from, fate) :
     fate[to] = "replayed" /\ net.channel[to] < Capacity}

\* sendMessageLocked to each receiver, with the fates the random generator
\* decides on.
SendMessages(net, from, fate) ==
  LET sent     == DOMAIN fate \ Lost(net, from, fate)
      replayed == Replayed(net, from, fate)
  IN  [net EXCEPT !.dropped  = @ + Cardinality(Lost(net, from, fate)),
                  !.sent     = @ + Cardinality(Counted(net, from, fate)) + Cardinality(replayed),
                  !.arrived  = @ + Cardinality(replayed),
                  !.channel  = [n \in Nodes |-> IF n \in replayed THEN @[n] + 1 ELSE @[n]],
                  !.underWay = [l \in Nodes \X Nodes |->
                                  IF l[1] = from /\ l[2] \in sent THEN @[l] + 1 ELSE @[l]]]

Fates == IF Faulty(level) THEN {"passed", "lost", "replayed"} ELSE {"passed"}

\* A node that was started may broadcast even after Stop, from a goroutine.
Broadcast(from) ==
  /\ from \in Speakers
  /\ nodes[from].started
  /\ from \notin network.crashed
  /\ network.broadcasts < MaxBroadcasts
  /\ \E fate \in [Receivers(network, from) -> Fates] :
       /\ Cardinality({to \in DOMAIN fate : fate[to] # "passed"}) <= MaxFaults
       /\ network' = [SendMessages(network, from, fate) EXCEPT !.broadcasts = @ + 1]
  /\ UNCHANGED <<running, level, nodes, pending, requests>>

\* The goroutine that waited for the latency looks neither at crashes nor at
\* partitions any more.
Deliver(from, to) ==
  /\ network.underWay[<<from, to>>] > 0
  /\ network' =
       LET arriving == [network EXCEPT !.underWay[<<from, to>>] = @ - 1]
       IN  IF network.channel[to] < Capacity
           THEN [arriving EXCEPT !.channel[to] = @ + 1, !.arrived = @ + 1]
           ELSE [arriving EXCEPT !.overflowed = @ + 1]
  /\ UNCHANGED <<running, level, nodes, pending, requests>>

\* A loop takes a message, and ends after it when it missed a Stop.
Receive(n) ==
  /\ nodes[n].loops > 0
  /\ network.channel[n] > 0
  /\ network' = [network EXCEPT !.channel[n] = @ - 1]
  /\ nodes' = [nodes EXCEPT ![n].loops = IF nodes[n].stopped THEN @ - 1 ELSE @]
  /\ UNCHANGED <<running, level, pending, requests>>

-----------------------------------------------------------------------------
(* The consensus of a node *)

NewNode == [status |-> "active", started |-> FALSE, stopped |-> FALSE, loops |-> 0]

StartConsensus(node) == [node EXCEPT !.started = TRUE, !.stopped = FALSE, !.loops = @ + 1]

\* Older loops may or may not have noticed the channel of the newest.
StopConsensus(node) ==
  IF node.stopped \/ node.loops = 0
  THEN {[node EXCEPT !.stopped = TRUE]}
  ELSE {[node EXCEPT !.stopped = TRUE, !.loops = l] : l \in 0 .. node.loops - 1}

-----------------------------------------------------------------------------
(* The requests *)

Idle == pending.kind = "none"

NoRequest == [kind |-> "none", node |-> 0]

Request == Idle /\ requests < MaxRequests /\ requests' = requests + 1

Start ==
  /\ Request
  /\ ~running
  /\ running' = TRUE
  /\ nodes' = [n \in Nodes |-> StartConsensus(nodes[n])]
  /\ UNCHANGED <<level, network, pending>>

\* What Stop may leave of the nodes: those with the status crashed are taken
\* to be stopped.
Stopped(ns) ==
  {stopping \in [Nodes -> UNION {StopConsensus(ns[n]) : n \in Nodes} \cup {ns[n] : n \in Nodes}] :
     \A n \in Nodes : stopping[n] \in IF ns[n].status = "crashed" THEN {ns[n]}
                                      ELSE StopConsensus(ns[n])}

Stop ==
  /\ Request
  /\ running
  /\ running' = FALSE
  /\ nodes' \in Stopped(nodes)
  /\ UNCHANGED <<level, network, pending>>

\* The network learns of it once the loop has ended.
CrashNode(n) ==
  /\ Request
  /\ \E node \in StopConsensus(nodes[n]) :
       nodes' = [nodes EXCEPT ![n] = [node EXCEPT !.status = "crashed"]]
  /\ pending' = [kind |-> "crash", node |-> n]
  /\ UNCHANGED <<running, level, network>>

CrashInNetwork ==
  /\ pending.kind = "crash"
  /\ network' = [network EXCEPT !.crashed = @ \cup {pending.node}]
  /\ pending' = NoRequest
  /\ UNCHANGED <<running, level, nodes, requests>>

\* Mutation: the network is not told.
RecoverLocally(n) ==
  /\ Request
  /\ nodes' = [nodes EXCEPT ![n].status = "active"]
  /\ pending' = IF nodes[n].status = "active" THEN pending ELSE [kind |-> "restart", node |-> n]
  /\ UNCHANGED <<running, level, network>>

\* Every node that was not active is restarted, also one that was partitioned.
RecoverNode(n) ==
  /\ Request
  /\ nodes' = [nodes EXCEPT ![n].status = "active"]
  /\ network' = [network EXCEPT !.crashed = @ \ {n}]
  /\ pending' = IF nodes[n].status = "active" THEN pending ELSE [kind |-> "restart", node |-> n]
  /\ UNCHANGED <<running, level>>

Restart ==
  /\ pending.kind = "restart"
  /\ nodes' = [nodes EXCEPT ![pending.node] = StartConsensus(@)]
  /\ pending' = NoRequest
  /\ UNCHANGED <<running, level, network, requests>>

\* Partitioned nodes are active again.
Rejoined(ns) ==
  [n \in Nodes |-> IF ns[n].status = "partitioned" THEN [ns[n] EXCEPT !.status = "active"]
                   ELSE ns[n]]

\* The active nodes in none of the groups get the status partitioned.
Isolated(ns, groups) ==
  [n \in Nodes |-> IF ns[n].status = "active" /\ \A i \in DOMAIN groups : n \notin groups[i]
                   THEN [ns[n] EXCEPT !.status = "partitioned"] ELSE ns[n]]

\* Mutation: no groups are groups like any others.
SetAnyPartitions(groups) ==
  /\ Request
  /\ network' = [network EXCEPT !.partitions = groups]
  /\ nodes' = Isolated(nodes, groups)
  /\ UNCHANGED <<running, level, pending>>

SetPartitions(groups) ==
  /\ Request
  /\ network' = [network EXCEPT !.partitions = groups]
  /\ nodes' = IF groups = <<>> THEN Rejoined(nodes) ELSE Isolated(nodes, groups)
  /\ UNCHANGED <<running, level, pending>>

ClearPartitions ==
  /\ Request
  /\ network' = [network EXCEPT !.partitions = <<>>]
  /\ nodes' = Rejoined(nodes)
  /\ UNCHANGED <<running, level, pending>>

\* Mutation: the status is set before it is looked at.
HealedLate(ns) == [n \in Nodes |-> [ns[n] EXCEPT !.status = "active"]]

\* Only nodes that were crashed are restarted.
Healed(ns) ==
  [n \in Nodes |-> LET active == [ns[n] EXCEPT !.status = "active"]
                   IN  IF ns[n].status = "crashed" THEN StartConsensus(active) ELSE active]

\* RecoverNode of the network is called for the nodes that are not active.
HealedNetwork(net, ns) ==
  [net EXCEPT !.partitions = <<>>,
              !.crashed = {n \in @ : ns[n].status = "active"}]

HealAll ==
  /\ Request
  /\ network' = HealedNetwork(network, nodes)
  /\ nodes' = Healed(nodes)
  /\ UNCHANGED <<running, level, pending>>

\* The requests for a reset and for another level stop, and the first of them
\* heals, nodes that are then replaced with their network.  A loop of them that
\* Stop did not end goes on, but nothing can reach it any more.
Reset(lvl) ==
  /\ Request
  /\ level' = lvl
  /\ running' = FALSE
  /\ nodes' = [n \in Nodes |-> NewNode]
  /\ network' = NewNetworkSimulator
  /\ UNCHANGED pending

Init ==
  /\ running = FALSE
  /\ level = "HappyPath"
  /\ nodes = [n \in Nodes |-> NewNode]
  /\ network = NewNetworkSimulator
  /\ pending = NoRequest
  /\ requests = 0

Next ==
  \/ Start \/ Stop \/ HealAll \/ ClearPartitions \/ CrashInNetwork \/ Restart
  \/ \E n \in Nodes : CrashNode(n) \/ RecoverNode(n) \/ Broadcast(n) \/ Receive(n)
  \/ \E from, to \in Nodes : Deliver(from, to)
  \/ \E groups \in Partitions : SetPartitions(groups)
  \/ \E lvl \in Levels : Reset(lvl)

Spec == Init /\ [][Next]_vars

-----------------------------------------------------------------------------
(* Properties *)

\* Between requests the simulator shows a node as crashed exactly if the
\* network cuts it off, after any sequence of crashes, recoveries and healing.
CrashesAgree == Idle => \A n \in Nodes : nodes[n].status = "crashed" <=> n \in network.crashed

\* While the simulator runs, every node it does not show as crashed has a loop
\* that handles its messages and was not told to end.
LiveNodesRun ==
  Idle /\ running =>
    \A n \in Nodes : nodes[n].status # "crashed" => nodes[n].loops > 0 /\ ~nodes[n].stopped

\* No node is shown as partitioned once there are no partitions any more,
\* by whichever request they ended.
IsolationEnds ==
  Idle /\ network.partitions = <<>> => \A n \in Nodes : nodes[n].status # "partitioned"

\* The statistics shown: each message counted as sent is under way, arrived,
\* or was lost at a full channel; no other message is.
StatsAddUp ==
  network.sent =
    network.arrived + network.overflowed
      + MapThenSumSet(LAMBDA l : network.underWay[l], DOMAIN network.underWay)

\* Nothing is sent by or to a node that is shown as crashed, although its
\* goroutines may outlive the crash.
CrashedAreSilent ==
  [][ \A l \in DOMAIN network.underWay :
        Idle /\ network'.underWay[l] > network.underWay[l]
          => nodes[l[1]].status # "crashed" /\ nodes[l[2]].status # "crashed" ]_vars
==============================================================================
