--------------------------- MODULE Simulator_proofs ---------------------------
(***************************************************************************)
(* That a node is crashed, or isolated, is recorded at the node and in the *)
(* network.  For every number of nodes, requests, partitions and messages  *)
(* under way both records agree between two requests, and the statistics   *)
(* account for every message.                                              *)
(***************************************************************************)
EXTENDS Simulator, FiniteSetTheorems, WellFoundedInduction, TLAPS

Statuses == {"active", "partitioned", "crashed"}

NodeStates == [status : Statuses, started : BOOLEAN, stopped : BOOLEAN, loops : Nat]

Networks ==
  [channel : [Nodes -> Nat], underWay : [Nodes \X Nodes -> Nat], partitions : Partitions,
   crashed : SUBSET Nodes, sent : Nat, dropped : Nat, broadcasts : Nat, arrived : Nat,
   overflowed : Nat]

SimulatorTypes ==
  /\ running \in BOOLEAN
  /\ nodes \in [Nodes -> NodeStates]
  /\ network \in Networks
  /\ pending \in [kind : {"none", "crash", "restart"}, node : Nodes]

\* A crash that is not done yet has reached the node and maybe the network.
CrashesPaired ==
  /\ pending.kind = "crash" => nodes[pending.node].status = "crashed"
  /\ \A n \in Nodes :
       ~(pending.kind = "crash" /\ pending.node = n)
         => (nodes[n].status = "crashed" <=> n \in network.crashed)

Lives(node) == node.loops > 0 /\ ~node.stopped

\* All nodes have their loop but those shown as crashed and the one that is
\* about to be restarted.
OthersRun ==
  running =>
    \A n \in Nodes :
      nodes[n].status # "crashed" /\ ~(pending.kind = "restart" /\ pending.node = n)
        => Lives(nodes[n])

SInv ==
  /\ SimulatorTypes
  /\ CrashesPaired
  /\ OthersRun
  /\ network.partitions = <<>> => \A n \in Nodes : nodes[n].status # "partitioned"

-----------------------------------------------------------------------------
(* The nodes *)

LEMMA NodeCountType == NodeCount \in Nat /\ 0 \in Nodes
  BY SimulatorAssumption DEF NodeCount, MaxFaultTolerance, Nodes

LEMMA NodesFinite ==
  ASSUME NEW S \in SUBSET Nodes
  PROVE  IsFiniteSet(S) /\ Cardinality(S) \in Nat
<1>1. IsFiniteSet(Nodes)
  BY NodeCountType, FS_Interval DEF Nodes
<1> QED
  BY <1>1, FS_Subset, FS_CardinalityType

\* An update of a node, whatever its fields range over.
LEMMA NodeUpdate ==
  ASSUME NEW S, NEW B, NEW L,
         NEW node \in [status : S, started : B, stopped : B, loops : L],
         NEW started \in B, NEW stopped \in B, NEW l \in L
  PROVE  LET after == [node EXCEPT !.started = started, !.stopped = stopped, !.loops = l]
         IN  /\ after \in [status : S, started : B, stopped : B, loops : L]
             /\ after.status = node.status
             /\ after.stopped = stopped
             /\ after.loops = l
  OBVIOUS

LEMMA StartType ==
  ASSUME NEW node \in NodeStates
  PROVE  /\ StartConsensus(node) \in NodeStates
         /\ StartConsensus(node).status = node.status
         /\ Lives(StartConsensus(node))
<1>1. node.loops + 1 \in Nat /\ node.loops + 1 > 0
  BY DEF NodeStates
<1> DEFINE after == [node EXCEPT !.started = TRUE, !.stopped = FALSE, !.loops = node.loops + 1]
<1>2. /\ after \in NodeStates
      /\ after.status = node.status
      /\ after.stopped = FALSE
      /\ after.loops = node.loops + 1
  <2>1. TRUE \in BOOLEAN /\ FALSE \in BOOLEAN
    OBVIOUS
  <2> QED
    BY <1>1, <2>1, NodeUpdate, Zenon DEF NodeStates
<1>3. StartConsensus(node) = after
  BY Zenon DEF StartConsensus
<1> HIDE DEF after
<1> QED
  BY <1>1, <1>2, <1>3 DEF Lives

LEMMA StopType ==
  ASSUME NEW node \in NodeStates, NEW after \in StopConsensus(node)
  PROVE  after \in NodeStates /\ after.status = node.status
<1>1. PICK l \in Nat : after = [node EXCEPT !.started = node.started, !.stopped = TRUE, !.loops = l]
  <2>1. [node EXCEPT !.stopped = TRUE]
          = [node EXCEPT !.started = node.started, !.stopped = TRUE, !.loops = node.loops]
    BY DEF NodeStates
  <2>2. \A l \in Nat : [node EXCEPT !.stopped = TRUE, !.loops = l]
                        = [node EXCEPT !.started = node.started, !.stopped = TRUE, !.loops = l]
    BY DEF NodeStates
  <2>3. CASE node.stopped \/ node.loops = 0
    BY <2>1, <2>3 DEF StopConsensus, NodeStates
  <2>4. CASE ~(node.stopped \/ node.loops = 0)
    <3>1. PICK l \in 0 .. node.loops - 1 : after = [node EXCEPT !.stopped = TRUE, !.loops = l]
      BY <2>4, Zenon DEF StopConsensus
    <3>2. l \in Nat
      BY DEF NodeStates
    <3> QED
      BY <2>2, <3>1, <3>2
  <2> QED
    BY <2>3, <2>4
<1>2. node.started \in BOOLEAN /\ TRUE \in BOOLEAN
  BY DEF NodeStates
<1> QED
  BY <1>1, <1>2, NodeUpdate, Zenon DEF NodeStates

-----------------------------------------------------------------------------
(* The network *)

\* An update of the network, whatever its fields range over.
LEMMA NetworkUpdate ==
  ASSUME NEW C, NEW U, NEW P, NEW K, NEW S,
         NEW net \in [channel : C, underWay : U, partitions : P, crashed : K, sent : S,
                      dropped : S, broadcasts : S, arrived : S, overflowed : S],
         NEW channel \in C, NEW underWay \in U, NEW sent \in S, NEW dropped \in S, NEW arrived \in S
  PROVE  LET after == [net EXCEPT !.dropped = dropped, !.sent = sent, !.arrived = arrived,
                                  !.channel = channel, !.underWay = underWay]
         IN  /\ after \in [channel : C, underWay : U, partitions : P, crashed : K, sent : S,
                           dropped : S, broadcasts : S, arrived : S, overflowed : S]
             /\ after.crashed = net.crashed
             /\ after.partitions = net.partitions
             /\ after.underWay = underWay
  OBVIOUS

LEMMA SendMessagesType ==
  ASSUME NEW net \in Networks, NEW from \in Nodes,
         NEW fate, DOMAIN fate \in SUBSET Nodes
  PROVE  LET sent == SendMessages(net, from, fate)
         IN  /\ sent \in Networks
             /\ sent.crashed = net.crashed
             /\ sent.partitions = net.partitions
             /\ \A l \in Nodes \X Nodes :
                  sent.underWay[l] > net.underWay[l] => l[1] = from /\ l[2] \in DOMAIN fate
<1> DEFINE lost     == Lost(net, from, fate)
           sent     == DOMAIN fate \ lost
           replayed == Replayed(net, from, fate)
           counted  == Counted(net, from, fate)
           channel  == [n \in Nodes |-> IF n \in replayed THEN net.channel[n] + 1
                                        ELSE net.channel[n]]
           underWay == [l \in Nodes \X Nodes |-> IF l[1] = from /\ l[2] \in sent
                                                 THEN net.underWay[l] + 1 ELSE net.underWay[l]]
           card     == Cardinality(lost)
           cards    == Cardinality(counted)
           cardr    == Cardinality(replayed)
           after    == [net EXCEPT !.dropped = @ + card, !.sent = @ + cards + cardr,
                                   !.arrived = @ + cardr, !.channel = channel,
                                   !.underWay = underWay]
<1>1. lost \in SUBSET Nodes /\ counted \in SUBSET Nodes /\ replayed \in SUBSET Nodes
  BY DEF Lost, Counted, Replayed
<1>2. card \in Nat /\ cards \in Nat /\ cardr \in Nat
  BY <1>1, NodesFinite
<1>3. channel \in [Nodes -> Nat]
  BY DEF Networks
<1>4. /\ underWay \in [Nodes \X Nodes -> Nat]
      /\ \A l \in Nodes \X Nodes :
           underWay[l] > net.underWay[l] => l[1] = from /\ l[2] \in DOMAIN fate
  BY DEF Networks
<1>5. SendMessages(net, from, fate) = after
  BY DEF SendMessages
<1>6. net.sent \in Nat /\ net.dropped \in Nat /\ net.arrived \in Nat
  BY DEF Networks
<1>7. net.sent + cards + cardr \in Nat /\ net.dropped + card \in Nat /\ net.arrived + cardr \in Nat
  BY <1>2, <1>6
<1> HIDE DEF channel, underWay, card, cards, cardr
<1>8. /\ after \in Networks
      /\ after.crashed = net.crashed
      /\ after.partitions = net.partitions
      /\ after.underWay = underWay
  BY <1>3, <1>4, <1>7, NetworkUpdate, Zenon DEF Networks
<1> QED
  BY <1>4, <1>5, <1>8

-----------------------------------------------------------------------------
(* The steps *)

LEMMA SInvInit == Init => SInv
<1> SUFFICES ASSUME Init PROVE SInv
  OBVIOUS
<1>1. NewNode \in NodeStates /\ NewNode.status = "active"
  BY DEF NewNode, NodeStates, Statuses
<1>2. /\ NewNetworkSimulator \in Networks
      /\ NewNetworkSimulator.crashed = {}
  BY SimulatorAssumption DEF NewNetworkSimulator, Networks
<1>3. SimulatorTypes
  BY <1>1, <1>2, NodeCountType DEF Init, SimulatorTypes, NoRequest
<1> QED
  BY <1>1, <1>2, <1>3 DEF Init, SInv, CrashesPaired, OthersRun, NoRequest

LEMMA BroadcastKeeps ==
  ASSUME SInv, NEW from \in Nodes, Broadcast(from)
  PROVE  /\ SInv'
         /\ \A l \in Nodes \X Nodes :
              network'.underWay[l] > network.underWay[l]
                => l[1] \notin network.crashed /\ l[2] \notin network.crashed
<1>1. PICK fate \in [Receivers(network, from) -> Fates] :
        network' = [SendMessages(network, from, fate) EXCEPT !.broadcasts = @ + 1]
  BY DEF Broadcast
<1> DEFINE sent == SendMessages(network, from, fate)
<1>2. DOMAIN fate \in SUBSET Nodes /\ DOMAIN fate = Receivers(network, from)
  BY DEF Receivers
<1>3. /\ sent \in Networks
      /\ sent.crashed = network.crashed
      /\ sent.partitions = network.partitions
      /\ \A l \in Nodes \X Nodes :
           sent.underWay[l] > network.underWay[l] => l[1] = from /\ l[2] \in DOMAIN fate
  BY <1>2, SendMessagesType DEF SInv, SimulatorTypes
<1> HIDE DEF sent
<1>4. /\ network' \in Networks
      /\ network'.crashed = network.crashed
      /\ network'.partitions = network.partitions
      /\ network'.underWay = sent.underWay
  BY <1>1, <1>3 DEF sent, Networks
<1>5. UNCHANGED <<running, nodes, pending>>
  BY DEF Broadcast
<1>6. SInv'
  BY <1>4, <1>5 DEF SInv, SimulatorTypes, CrashesPaired, OthersRun
<1>7. from \notin network.crashed
  BY DEF Broadcast
<1> QED
  BY <1>2, <1>3, <1>4, <1>6, <1>7 DEF Receivers

LEMMA DeliverKeeps ==
  ASSUME SInv, NEW from \in Nodes, NEW to \in Nodes, Deliver(from, to)
  PROVE  /\ SInv'
         /\ \A l \in Nodes \X Nodes : ~(network'.underWay[l] > network.underWay[l])
<1> DEFINE arriving == [network EXCEPT !.underWay[<<from, to>>] = @ - 1]
<1>1. network \in Networks /\ network.underWay[<<from, to>>] > 0
  BY DEF Deliver, SInv, SimulatorTypes
<1>2. /\ arriving \in Networks
      /\ arriving.crashed = network.crashed
      /\ arriving.partitions = network.partitions
      /\ \A l \in Nodes \X Nodes : arriving.underWay[l] <= network.underWay[l]
  <2> DEFINE under == [network.underWay EXCEPT ![<<from, to>>] = @ - 1]
  <2>1. under \in [Nodes \X Nodes -> Nat]
        /\ \A l \in Nodes \X Nodes : under[l] <= network.underWay[l]
    BY <1>1 DEF Networks
  <2>2. arriving = [network EXCEPT !.underWay = under]
    BY <1>1 DEF Networks
  <2> HIDE DEF under, arriving
  <2> QED
    BY <1>1, <2>1, <2>2 DEF Networks
<1> HIDE DEF arriving
<1>3. \/ network' = [arriving EXCEPT !.channel[to] = @ + 1, !.arrived = @ + 1]
      \/ network' = [arriving EXCEPT !.overflowed = @ + 1]
  BY DEF Deliver, arriving
<1>4. /\ network' \in Networks
      /\ network'.crashed = network.crashed
      /\ network'.partitions = network.partitions
      /\ network'.underWay = arriving.underWay
  <2>1. CASE network' = [arriving EXCEPT !.channel[to] = @ + 1, !.arrived = @ + 1]
    <3> DEFINE channel == [arriving.channel EXCEPT ![to] = @ + 1]
    <3>1. channel \in [Nodes -> Nat]
      BY <1>2 DEF Networks
    <3>2. network' = [arriving EXCEPT !.dropped = arriving.dropped, !.sent = arriving.sent,
                                      !.arrived = arriving.arrived + 1, !.channel = channel,
                                      !.underWay = arriving.underWay]
      BY <1>2, <2>1 DEF Networks
    <3>3. /\ arriving.dropped \in Nat /\ arriving.sent \in Nat /\ arriving.arrived + 1 \in Nat
          /\ arriving.underWay \in [Nodes \X Nodes -> Nat]
      BY <1>2 DEF Networks
    <3> HIDE DEF channel
    <3> QED
      BY <1>2, <3>1, <3>2, <3>3, NetworkUpdate, Zenon DEF Networks
  <2>2. CASE network' = [arriving EXCEPT !.overflowed = @ + 1]
    BY <1>2, <2>2 DEF Networks
  <2> QED
    BY <1>3, <2>1, <2>2
<1>5. UNCHANGED <<running, nodes, pending>>
  BY DEF Deliver
<1>6. SInv'
  BY <1>4, <1>5 DEF SInv, SimulatorTypes, CrashesPaired, OthersRun
<1>7. \A l \in Nodes \X Nodes : arriving.underWay[l] \in Nat /\ network.underWay[l] \in Nat
  BY <1>1, <1>2 DEF Networks
<1> QED
  BY <1>2, <1>4, <1>6, <1>7

LEMMA ReceiveKeeps ==
  ASSUME SInv, NEW n \in Nodes, Receive(n)
  PROVE  SInv' /\ network'.underWay = network.underWay
<1>1. network \in Networks /\ nodes \in [Nodes -> NodeStates]
  BY DEF SInv, SimulatorTypes
<1> DEFINE channel == [network.channel EXCEPT ![n] = @ - 1]
           node    == [nodes[n] EXCEPT !.loops = IF nodes[n].stopped THEN @ - 1 ELSE @]
<1>2. channel \in [Nodes -> Nat]
  BY <1>1 DEF Receive, Networks
<1>3. network' = [network EXCEPT !.channel = channel]
  BY <1>1 DEF Receive, Networks
<1>4. nodes' = [nodes EXCEPT ![n] = node]
  BY <1>1 DEF Receive
<1>5. node \in NodeStates /\ node.status = nodes[n].status /\ (Lives(nodes[n]) => Lives(node))
  BY <1>1 DEF Receive, NodeStates, Lives
<1> HIDE DEF channel, node
<1>6. /\ network' \in Networks
      /\ network'.crashed = network.crashed
      /\ network'.partitions = network.partitions
      /\ network'.underWay = network.underWay
  BY <1>1, <1>2, <1>3 DEF Networks
<1>7. /\ nodes' \in [Nodes -> NodeStates]
      /\ \A m \in Nodes : /\ nodes'[m].status = nodes[m].status
                          /\ Lives(nodes[m]) => Lives(nodes'[m])
  BY <1>1, <1>4, <1>5
<1>8. UNCHANGED <<running, pending>>
  BY DEF Receive
<1> QED
  BY <1>6, <1>7, <1>8 DEF SInv, SimulatorTypes, CrashesPaired, OthersRun

\* An update of what the network knows of crashes and partitions.
Told(net, groups, crashed) == [net EXCEPT !.partitions = groups, !.crashed = crashed]

LEMMA NetworkTold ==
  ASSUME NEW net \in Networks, NEW groups \in Partitions, NEW crashed \in SUBSET Nodes
  PROVE  /\ Told(net, groups, crashed) \in Networks
         /\ Told(net, groups, crashed).partitions = groups
         /\ Told(net, groups, crashed).crashed = crashed
         /\ Told(net, groups, crashed).underWay = net.underWay
<1>1. ASSUME NEW C, NEW U, NEW P, NEW K, NEW S,
             NEW n \in [channel : C, underWay : U, partitions : P, crashed : K, sent : S,
                        dropped : S, broadcasts : S, arrived : S, overflowed : S],
             NEW p \in P, NEW k \in K,
             NEW a, a = [n EXCEPT !.partitions = p, !.crashed = k]
      PROVE  /\ a \in [channel : C, underWay : U, partitions : P, crashed : K, sent : S,
                        dropped : S, broadcasts : S, arrived : S, overflowed : S]
             /\ a.partitions = p
             /\ a.crashed = k
             /\ a.underWay = n.underWay
  BY <1>1
<1> QED
  BY <1>1, Zenon DEF Networks, Told

LEMMA StatusSet ==
  ASSUME NEW node \in NodeStates, NEW status \in Statuses,
         NEW after, after = [node EXCEPT !.status = status]
  PROVE  /\ after \in NodeStates
         /\ after.status = status
         /\ Lives(after) <=> Lives(node)
<1>1. ASSUME NEW S, NEW B, NEW L,
             NEW n \in [status : S, started : B, stopped : B, loops : L], NEW s \in S,
             NEW a, a = [n EXCEPT !.status = s]
      PROVE  /\ a \in [status : S, started : B, stopped : B, loops : L]
             /\ a.status = s
             /\ a.stopped = n.stopped
             /\ a.loops = n.loops
  BY <1>1
<1>2. /\ after \in NodeStates
      /\ after.status = status
      /\ after.stopped = node.stopped
      /\ after.loops = node.loops
  BY <1>1, Zenon DEF NodeStates
<1> QED
  BY <1>2, Zenon DEF Lives

LEMMA StartKeeps == ASSUME SInv, Start PROVE SInv'
<1>1. nodes \in [Nodes -> NodeStates]
  BY DEF SInv, SimulatorTypes
<1>2. nodes' = [n \in Nodes |-> StartConsensus(nodes[n])]
  BY DEF Start
<1>3. /\ nodes' \in [Nodes -> NodeStates]
      /\ \A n \in Nodes : nodes'[n].status = nodes[n].status /\ Lives(nodes'[n])
  BY <1>1, <1>2, StartType
<1>4. running' = TRUE /\ UNCHANGED <<network, pending>>
  BY DEF Start
<1> QED
  BY <1>3, <1>4 DEF SInv, SimulatorTypes, CrashesPaired, OthersRun

LEMMA StopKeeps == ASSUME SInv, Stop PROVE SInv'
<1>1. nodes \in [Nodes -> NodeStates]
  BY DEF SInv, SimulatorTypes
<1>2. /\ nodes' \in [Nodes -> UNION {StopConsensus(nodes[n]) : n \in Nodes}
                                 \cup {nodes[n] : n \in Nodes}]
      /\ \A n \in Nodes : nodes'[n] = nodes[n] \/ nodes'[n] \in StopConsensus(nodes[n])
  BY DEF Stop, Stopped
<1>3. \A n \in Nodes : nodes'[n] \in NodeStates /\ nodes'[n].status = nodes[n].status
  BY <1>1, <1>2, StopType
<1>4. nodes' \in [Nodes -> NodeStates]
  BY <1>2, <1>3
<1>5. running' = FALSE /\ UNCHANGED <<network, pending>>
  BY DEF Stop
<1> QED
  BY <1>3, <1>4, <1>5 DEF SInv, SimulatorTypes, CrashesPaired, OthersRun

LEMMA CrashNodeKeeps == ASSUME SInv, NEW n \in Nodes, CrashNode(n) PROVE SInv'
<1>1. nodes \in [Nodes -> NodeStates]
  BY DEF SInv, SimulatorTypes
<1>2. PICK node \in StopConsensus(nodes[n]) :
        nodes' = [nodes EXCEPT ![n] = [node EXCEPT !.status = "crashed"]]
  BY DEF CrashNode
<1>3. nodes' \in [Nodes -> NodeStates] /\ nodes'[n].status = "crashed"
  <2>1. nodes[n] \in NodeStates /\ "crashed" \in Statuses
    BY <1>1 DEF Statuses
  <2>2. [node EXCEPT !.status = "crashed"] \in NodeStates
        /\ [node EXCEPT !.status = "crashed"].status = "crashed"
    BY <1>2, <2>1, StopType, StatusSet
  <2> QED
    BY <1>1, <1>2, <2>2, Zenon
<1>4. \A m \in Nodes \ {n} : nodes'[m] = nodes[m]
  BY <1>1, <1>2
<1>5. pending' = [kind |-> "crash", node |-> n] /\ UNCHANGED <<running, network>>
  BY DEF CrashNode
<1>6. pending.kind = "none"
  BY DEF CrashNode, Request, Idle
<1>7. pending'.kind = "crash" /\ pending'.node = n
  BY <1>5
<1>8. SimulatorTypes'
  BY <1>3, <1>5 DEF SInv, SimulatorTypes
<1>9. CrashesPaired'
  BY <1>3, <1>4, <1>5, <1>6, <1>7 DEF SInv, CrashesPaired
<1>10. OthersRun'
  BY <1>3, <1>4, <1>5, <1>6, <1>7 DEF SInv, OthersRun
<1>11. (network.partitions = <<>> => \A m \in Nodes : nodes[m].status # "partitioned")'
  BY <1>3, <1>4, <1>5 DEF SInv
<1> QED
  BY <1>8, <1>9, <1>10, <1>11 DEF SInv

LEMMA CrashInNetworkKeeps ==
  ASSUME SInv, CrashInNetwork
  PROVE  SInv' /\ network'.underWay = network.underWay
<1> DEFINE told == network.crashed \cup {pending.node}
<1>1. network \in Networks /\ pending.node \in Nodes /\ pending.kind = "crash"
  BY DEF CrashInNetwork, SInv, SimulatorTypes
<1>2. network.partitions \in Partitions /\ told \in SUBSET Nodes
  BY <1>1 DEF Networks
<1>3. network' = Told(network, network.partitions, told)
  BY <1>1 DEF CrashInNetwork, Networks, Told
<1>4. /\ network' \in Networks
      /\ network'.partitions = network.partitions
      /\ network'.crashed = told
      /\ network'.underWay = network.underWay
  BY <1>1, <1>2, <1>3, NetworkTold
<1>5. pending' = NoRequest /\ UNCHANGED <<running, nodes>>
  BY DEF CrashInNetwork
<1>6. /\ pending' \in [kind : {"none", "crash", "restart"}, node : Nodes]
      /\ pending'.kind = "none"
  BY <1>5, NodeCountType DEF NoRequest
<1>7. SimulatorTypes'
  BY <1>4, <1>5, <1>6 DEF SInv, SimulatorTypes
<1>8. CrashesPaired'
  BY <1>1, <1>4, <1>5, <1>6 DEF SInv, CrashesPaired
<1>9. OthersRun'
  BY <1>1, <1>5, <1>6 DEF SInv, OthersRun
<1> QED
  BY <1>4, <1>5, <1>7, <1>8, <1>9 DEF SInv

LEMMA RecoverNodeKeeps ==
  ASSUME SInv, NEW n \in Nodes, RecoverNode(n)
  PROVE  SInv' /\ network'.underWay = network.underWay
<1> DEFINE told == network.crashed \ {n}
<1>1. /\ network \in Networks
      /\ nodes \in [Nodes -> NodeStates]
      /\ pending.kind = "none"
  BY DEF RecoverNode, Request, Idle, SInv, SimulatorTypes
<1>2. network.partitions \in Partitions /\ told \in SUBSET Nodes
  BY <1>1 DEF Networks
<1>3. network' = Told(network, network.partitions, told)
  BY <1>1 DEF RecoverNode, Networks, Told
<1>4. /\ network' \in Networks
      /\ network'.partitions = network.partitions
      /\ network'.crashed = told
      /\ network'.underWay = network.underWay
  BY <1>1, <1>2, <1>3, NetworkTold
<1> DEFINE node == [nodes[n] EXCEPT !.status = "active"]
<1>5. nodes' = [nodes EXCEPT ![n] = node]
  BY DEF RecoverNode
<1>6. node \in NodeStates /\ node.status = "active" /\ (Lives(node) <=> Lives(nodes[n]))
  BY <1>1, StatusSet DEF Statuses
<1> HIDE DEF node
<1>7. /\ nodes' \in [Nodes -> NodeStates]
      /\ nodes'[n] = node
      /\ \A m \in Nodes \ {n} : nodes'[m] = nodes[m]
  BY <1>1, <1>5, <1>6
<1>8. /\ pending' \in [kind : {"none", "crash", "restart"}, node : Nodes]
      /\ nodes[n].status = "active" => pending' = pending
      /\ nodes[n].status # "active" => pending'.kind = "restart" /\ pending'.node = n
  BY DEF RecoverNode, SInv, SimulatorTypes
<1>9. running' = running
  BY DEF RecoverNode
<1>10. SimulatorTypes'
  BY <1>4, <1>7, <1>8, <1>9 DEF SInv, SimulatorTypes
<1>11. CrashesPaired'
  BY <1>1, <1>4, <1>6, <1>7, <1>8 DEF SInv, CrashesPaired
<1>12. OthersRun'
  BY <1>1, <1>6, <1>7, <1>8, <1>9 DEF SInv, OthersRun
<1>13. (network.partitions = <<>> => \A m \in Nodes : nodes[m].status # "partitioned")'
  BY <1>4, <1>6, <1>7 DEF SInv
<1> QED
  BY <1>4, <1>10, <1>11, <1>12, <1>13 DEF SInv

LEMMA RestartKeeps == ASSUME SInv, Restart PROVE SInv'
<1> DEFINE n == pending.node
           node == StartConsensus(nodes[n])
<1>1. nodes \in [Nodes -> NodeStates] /\ n \in Nodes /\ pending.kind = "restart"
  BY DEF Restart, SInv, SimulatorTypes
<1>2. nodes' = [nodes EXCEPT ![n] = node]
  BY <1>1 DEF Restart
<1>3. node \in NodeStates /\ node.status = nodes[n].status /\ Lives(node)
  BY <1>1, StartType
<1>4. pending' = NoRequest /\ UNCHANGED <<running, network>>
  BY DEF Restart
<1> HIDE DEF node
<1>5. /\ nodes' \in [Nodes -> NodeStates]
      /\ nodes'[n] = node
      /\ \A m \in Nodes : nodes'[m].status = nodes[m].status
      /\ \A m \in Nodes \ {n} : nodes'[m] = nodes[m]
  BY <1>1, <1>2, <1>3
<1>6. /\ pending' \in [kind : {"none", "crash", "restart"}, node : Nodes]
      /\ pending'.kind = "none"
  BY <1>4, NodeCountType DEF NoRequest
<1>7. SimulatorTypes'
  BY <1>4, <1>5, <1>6 DEF SInv, SimulatorTypes
<1>8. CrashesPaired'
  BY <1>1, <1>4, <1>5, <1>6 DEF SInv, CrashesPaired
<1>9. OthersRun'
  BY <1>1, <1>3, <1>4, <1>5, <1>6 DEF SInv, OthersRun
<1> QED
  BY <1>4, <1>5, <1>7, <1>8, <1>9 DEF SInv

\* Partitions change what active and partitioned nodes are shown as.
LEMMA PartitionsKeep ==
  ASSUME SInv, NEW groups \in Partitions,
         network' = [network EXCEPT !.partitions = groups],
         nodes' = IF groups = <<>> THEN Rejoined(nodes) ELSE Isolated(nodes, groups),
         UNCHANGED <<running, pending>>
  PROVE  SInv' /\ network'.underWay = network.underWay
<1>1. network \in Networks /\ nodes \in [Nodes -> NodeStates]
  BY DEF SInv, SimulatorTypes
<1>2. network.crashed \in SUBSET Nodes
  BY <1>1 DEF Networks
<1>3. network' = Told(network, groups, network.crashed)
  BY <1>1 DEF Networks, Told
<1>4. /\ network' \in Networks
      /\ network'.partitions = groups
      /\ network'.crashed = network.crashed
      /\ network'.underWay = network.underWay
  BY <1>1, <1>2, <1>3, NetworkTold
<1>5. ASSUME NEW n \in Nodes
      PROVE  /\ nodes'[n] \in NodeStates
             /\ nodes'[n].status = "crashed" <=> nodes[n].status = "crashed"
             /\ Lives(nodes'[n]) <=> Lives(nodes[n])
             /\ groups = <<>> => nodes'[n].status # "partitioned"
  <2>1. \/ nodes'[n] = nodes[n] /\ (groups = <<>> => nodes[n].status # "partitioned")
        \/ /\ nodes'[n] = [nodes[n] EXCEPT !.status = "active"]
           /\ nodes[n].status = "partitioned"
        \/ /\ nodes'[n] = [nodes[n] EXCEPT !.status = "partitioned"]
           /\ nodes[n].status = "active" /\ groups # <<>>
    BY DEF Rejoined, Isolated
  <2>2. nodes[n] \in NodeStates /\ "active" \in Statuses /\ "partitioned" \in Statuses
    BY <1>1 DEF Statuses
  <2>3. CASE nodes'[n] = nodes[n] /\ (groups = <<>> => nodes[n].status # "partitioned")
    BY <2>2, <2>3
  <2>4. CASE /\ nodes'[n] = [nodes[n] EXCEPT !.status = "active"]
             /\ nodes[n].status = "partitioned"
    <3>1. /\ nodes'[n] \in NodeStates
          /\ nodes'[n].status = "active"
          /\ Lives(nodes'[n]) <=> Lives(nodes[n])
      BY <2>2, <2>4, StatusSet, Zenon
    <3> QED
      BY <2>4, <3>1
  <2>5. CASE /\ nodes'[n] = [nodes[n] EXCEPT !.status = "partitioned"]
             /\ nodes[n].status = "active" /\ groups # <<>>
    <3>1. /\ nodes'[n] \in NodeStates
          /\ nodes'[n].status = "partitioned"
          /\ Lives(nodes'[n]) <=> Lives(nodes[n])
      BY <2>2, <2>5, StatusSet, Zenon
    <3> QED
      BY <2>5, <3>1
  <2> QED
    BY <2>1, <2>3, <2>4, <2>5
<1>6. nodes' \in [Nodes -> NodeStates]
  <2>1. nodes' = [n \in Nodes |-> nodes'[n]]
    BY DEF Rejoined, Isolated
  <2> QED
    BY <1>5, <2>1
<1>7. SimulatorTypes'
  BY <1>4, <1>6 DEF SInv, SimulatorTypes
<1>8. CrashesPaired'
  BY <1>4, <1>5 DEF SInv, CrashesPaired, SimulatorTypes
<1>9. OthersRun'
  BY <1>5 DEF SInv, OthersRun
<1> QED
  BY <1>4, <1>5, <1>7, <1>8, <1>9 DEF SInv

LEMMA HealAllKeeps ==
  ASSUME SInv, HealAll
  PROVE  SInv' /\ network'.underWay = network.underWay
<1> DEFINE left == {n \in network.crashed : nodes[n].status = "active"}
<1>1. /\ network \in Networks
      /\ nodes \in [Nodes -> NodeStates]
      /\ pending.kind = "none"
  BY DEF HealAll, Request, Idle, SInv, SimulatorTypes
<1>2. left \in SUBSET Nodes
  BY <1>1 DEF Networks
<1>3. network' = Told(network, <<>>, left)
  BY <1>1 DEF HealAll, HealedNetwork, Networks, Told
<1>4. /\ network' \in Networks
      /\ network'.partitions = <<>>
      /\ network'.crashed = left
      /\ network'.underWay = network.underWay
  BY <1>1, <1>2, <1>3, NetworkTold, SimulatorAssumption
<1>5. \A n \in Nodes : n \notin left
  BY <1>1 DEF SInv, CrashesPaired
<1>6. ASSUME NEW n \in Nodes
      PROVE  /\ nodes'[n] \in NodeStates
             /\ nodes'[n].status = "active"
             /\ nodes[n].status # "crashed" /\ Lives(nodes[n]) => Lives(nodes'[n])
             /\ nodes[n].status = "crashed" => Lives(nodes'[n])
  <2> DEFINE active == [nodes[n] EXCEPT !.status = "active"]
  <2>1. /\ active \in NodeStates
        /\ active.status = "active"
        /\ Lives(active) <=> Lives(nodes[n])
    BY <1>1, StatusSet DEF Statuses
  <2>2. nodes'[n] = IF nodes[n].status = "crashed" THEN StartConsensus(active) ELSE active
    BY DEF HealAll, Healed
  <2> HIDE DEF active
  <2> QED
    BY <2>1, <2>2, StartType
<1>7. nodes' \in [Nodes -> NodeStates]
  <2>1. nodes' = [n \in Nodes |-> nodes'[n]]
    BY DEF HealAll, Healed
  <2> QED
    BY <1>6, <2>1
<1>8. UNCHANGED <<running, pending>>
  BY DEF HealAll
<1> HIDE DEF left
<1>9. SimulatorTypes'
  BY <1>4, <1>7, <1>8 DEF SInv, SimulatorTypes
<1>10. CrashesPaired'
  BY <1>1, <1>4, <1>5, <1>6, <1>8 DEF CrashesPaired
<1>11. OthersRun'
  BY <1>1, <1>6, <1>8 DEF SInv, OthersRun
<1> QED
  BY <1>4, <1>6, <1>9, <1>10, <1>11 DEF SInv

LEMMA ResetKeeps ==
  ASSUME SInv, NEW lvl \in Levels, Reset(lvl)
  PROVE  /\ SInv'
         /\ \A l \in Nodes \X Nodes : ~(network'.underWay[l] > network.underWay[l])
<1>1. /\ NewNode \in NodeStates
      /\ NewNode.status = "active"
  BY DEF NewNode, NodeStates, Statuses
<1>2. /\ NewNetworkSimulator \in Networks
      /\ NewNetworkSimulator.crashed = {}
      /\ \A l \in Nodes \X Nodes : NewNetworkSimulator.underWay[l] = 0
  BY SimulatorAssumption DEF NewNetworkSimulator, Networks
<1>3. /\ running' = FALSE
      /\ nodes' = [n \in Nodes |-> NewNode]
      /\ network' = NewNetworkSimulator
      /\ pending' = pending
      /\ pending.kind = "none"
  BY DEF Reset, Request, Idle
<1>4. SimulatorTypes'
  BY <1>1, <1>2, <1>3 DEF SInv, SimulatorTypes
<1>5. CrashesPaired' /\ OthersRun'
  BY <1>1, <1>2, <1>3 DEF CrashesPaired, OthersRun
<1>6. \A l \in Nodes \X Nodes : network.underWay[l] \in Nat
  BY DEF SInv, SimulatorTypes, Networks
<1> QED
  BY <1>1, <1>2, <1>3, <1>4, <1>5, <1>6 DEF SInv

\* What is sent is sent between nodes the network takes to be up.
LEMMA SInvStep ==
  ASSUME SInv, [Next]_vars
  PROVE  /\ SInv'
         /\ \A l \in Nodes \X Nodes :
              network'.underWay[l] > network.underWay[l]
                => l[1] \notin network.crashed /\ l[2] \notin network.crashed
<1>1. \A l \in Nodes \X Nodes : network.underWay[l] \in Nat
  BY DEF SInv, SimulatorTypes, Networks
<1>2. ASSUME SInv', network'.underWay = network.underWay
      PROVE  /\ SInv'
             /\ \A l \in Nodes \X Nodes : ~(network'.underWay[l] > network.underWay[l])
  BY <1>1, <1>2
<1>3. CASE Start \/ Stop \/ Restart \/ \E n \in Nodes : CrashNode(n)
  <2>1. network' = network
    BY <1>3 DEF Start, Stop, Restart, CrashNode
  <2> QED
    BY <1>2, <1>3, <2>1, StartKeeps, StopKeeps, RestartKeeps, CrashNodeKeeps
<1>4. CASE HealAll \/ CrashInNetwork \/ \E n \in Nodes : RecoverNode(n) \/ Receive(n)
  BY <1>2, <1>4, HealAllKeeps, CrashInNetworkKeeps, RecoverNodeKeeps, ReceiveKeeps
<1>5. CASE ClearPartitions
  <2>1. /\ network' = [network EXCEPT !.partitions = <<>>]
        /\ nodes' = Rejoined(nodes)
        /\ UNCHANGED <<running, pending>>
    BY <1>5 DEF ClearPartitions
  <2> QED
    BY <1>2, <2>1, PartitionsKeep, SimulatorAssumption
<1>6. CASE \E groups \in Partitions : SetPartitions(groups)
  BY <1>2, <1>6, PartitionsKeep DEF SetPartitions
<1>7. CASE \E n \in Nodes : Broadcast(n)
  BY <1>7, BroadcastKeeps
<1>8. CASE \E from, to \in Nodes : Deliver(from, to)
  BY <1>8, DeliverKeeps
<1>9. CASE \E lvl \in Levels : Reset(lvl)
  BY <1>9, ResetKeeps
<1>10. CASE UNCHANGED vars
  <2>1. SInv'
    BY <1>10 DEF vars, SInv, SimulatorTypes, CrashesPaired, OthersRun
  <2> QED
    BY <1>2, <1>10, <2>1 DEF vars
<1> QED
  BY <1>3, <1>4, <1>5, <1>6, <1>7, <1>8, <1>9, <1>10 DEF Next

LEMMA SimulatorInvariant == Spec => []SInv
<1>1. SInv /\ [Next]_vars => SInv'
  BY SInvStep
<1> QED
  BY <1>1, SInvInit, PTL DEF Spec

-----------------------------------------------------------------------------
(* Sums.  What a sum amounts to follows from its recursion; what fails for a *)
(* subset fails for a smallest one.                                          *)

\* The sum of the values of u, and the recursion behind it.
SumOf(u) == MapThenSumSet(LAMBDA l : u[l], DOMAIN u)

Some(s) == CHOOSE x \in s : TRUE

SumStep(f, u, s) == IF s = {} THEN 0 ELSE u[Some(s)] + f[s \ {Some(s)}]

IsSum(f, u) == f = [s \in SUBSET (DOMAIN u) |-> SumStep(f, u, s)]

LEMMA LeastNumber ==
  ASSUME NEW S \in SUBSET Nat, S # {}
  PROVE  \E n \in S : \A m \in S : n <= m
<1> DEFINE R == OpToRel(<, Nat)
<1>1. IsWellFoundedOn(R, Nat)
  BY NatLessThanWellFounded
<1>2. \A m, n \in Nat : m < n => <<m, n>> \in R
  BY DEF OpToRel
<1> HIDE DEF R
<1>3. PICK n \in S : \A m \in S : <<m, n>> \notin R
  BY <1>1, WFMin
<1>4. \A m \in S : n <= m
  <2> TAKE m \in S
  <2>1. m \in Nat /\ n \in Nat /\ ~(m < n)
    BY <1>2, <1>3
  <2> QED
    BY <2>1
<1> QED
  BY <1>4

LEMMA LessOne ==
  ASSUME NEW s, IsFiniteSet(s), s # {}
  PROVE  /\ Some(s) \in s
         /\ IsFiniteSet(s \ {Some(s)})
         /\ Cardinality(s) \in Nat /\ Cardinality(s \ {Some(s)}) \in Nat
         /\ Cardinality(s) = Cardinality(s \ {Some(s)}) + 1
<1> DEFINE x == Some(s)
<1> DEFINE t == s \ {x}
<1>1. x \in s
  BY DEF Some
<1> HIDE DEF x
<1>2. IsFiniteSet(t) /\ x \notin t /\ t \cup {x} = s
  BY <1>1, FS_RemoveElement
<1> HIDE DEF t
<1>3. Cardinality(s) = Cardinality(t) + 1 /\ Cardinality(t) \in Nat /\ Cardinality(s) \in Nat
  BY <1>2, FS_CardinalityType, FS_AddElement
<1> QED
  BY <1>1, <1>2, <1>3 DEF t, x

\* What holds of the empty set, and of a set when it holds without the element
\* that is added last, holds of all subsets.
LEMMA OverSubsets ==
  ASSUME NEW D, IsFiniteSet(D), NEW T, {} \in T,
         \A s \in SUBSET D : s # {} /\ s \ {Some(s)} \in T => s \in T
  PROVE  \A s \in SUBSET D : s \in T
<1> DEFINE sizes == {n \in Nat : \E s \in SUBSET D : Cardinality(s) = n /\ s \notin T}
<1>1. \A s \in SUBSET D : IsFiniteSet(s) /\ Cardinality(s) \in Nat
  BY FS_Subset, FS_CardinalityType
<1>2. SUFFICES ASSUME sizes # {} PROVE FALSE
  BY <1>1
<1>3. PICK n \in sizes : \A m \in sizes : n <= m
  BY <1>2, LeastNumber
<1>4. PICK s \in SUBSET D : Cardinality(s) = n /\ s \notin T
  BY <1>3
<1>5. s # {}
  BY <1>4
<1>6. s \ {Some(s)} \notin T
  BY <1>4, <1>5
<1> DEFINE t == s \ {Some(s)}
<1>7. Cardinality(t) \in Nat /\ n = Cardinality(t) + 1
  BY <1>1, <1>4, <1>5, LessOne
<1>8. Cardinality(t) \in sizes
  BY <1>6, <1>7
<1> HIDE DEF t, sizes
<1>9. n <= Cardinality(t)
  BY <1>3, <1>8
<1> QED
  BY <1>7, <1>9

LEMMA SumExists ==
  ASSUME NEW u, IsFiniteSet(DOMAIN u)
  PROVE  \E f : IsSum(f, u)
<1> DEFINE D == DOMAIN u
<1> DEFINE P(n) == {s \in SUBSET D : Cardinality(s) <= n}
<1> DEFINE bad == {n \in Nat : ~\E f : f = [s \in P(n) |-> SumStep(f, u, s)]}
<1>1. \A s \in SUBSET D : IsFiniteSet(s) /\ Cardinality(s) \in Nat
  BY FS_Subset, FS_CardinalityType
<1>2. bad = {}
  <2> SUFFICES ASSUME bad # {} PROVE FALSE
    OBVIOUS
  <2>1. PICK n \in bad : \A m \in bad : n <= m
    BY LeastNumber
  <2>2. n # 0
    <3>1. SUFFICES ASSUME n = 0 PROVE FALSE
      OBVIOUS
    <3>2. P(0) = {{}}
      <4>1. \A s \in SUBSET D : Cardinality(s) <= 0 => s = {}
        BY <1>1, FS_EmptySet
      <4>2. Cardinality({}) = 0
        BY FS_EmptySet
      <4>3. {} \in P(0)
        BY <4>2
      <4>4. \A s \in P(0) : s = {}
        BY <4>1
      <4> HIDE DEF P
      <4> QED
        BY <4>3, <4>4
    <3> DEFINE f == [s \in {{}} |-> 0]
    <3>3. f = [s \in P(0) |-> SumStep(f, u, s)]
      BY <3>2 DEF SumStep
    <3> QED
      BY <2>1, <3>1, <3>3
  <2>3. n - 1 \in Nat /\ n - 1 \notin bad /\ n \in Nat
    <3>1. n \in Nat /\ n - 1 \in Nat /\ ~(n <= n - 1)
      BY <2>1, <2>2
    <3> QED
      BY <2>1, <3>1
  <2>4. PICK f : f = [s \in P(n - 1) |-> SumStep(f, u, s)]
    BY <2>3
  <2> DEFINE g == [s \in P(n) |-> SumStep(f, u, s)]
  <2>5. ASSUME NEW s \in P(n)
        PROVE  g[s] = SumStep(g, u, s)
    <3>1. g[s] = SumStep(f, u, s)
      OBVIOUS
    <3>2. CASE s = {}
      BY <3>1, <3>2 DEF SumStep
    <3>3. CASE s # {}
      <4> DEFINE t == s \ {Some(s)}
      <4>1. Cardinality(t) \in Nat /\ Cardinality(s) = Cardinality(t) + 1 /\ Cardinality(s) <= n
            /\ t \in SUBSET D
        BY <1>1, <3>3, LessOne
      <4>2. t \in P(n - 1) /\ t \in P(n)
        BY <2>3, <4>1
      <4>3. f[t] = SumStep(f, u, t) /\ g[t] = SumStep(f, u, t)
        BY <2>4, <4>2
      <4> HIDE DEF g, t
      <4>4. f[t] = g[t]
        BY <4>3
      <4> QED
        BY <3>1, <3>3, <4>4 DEF SumStep, t
    <3> QED
      BY <3>2, <3>3
  <2>6. g = [s \in P(n) |-> SumStep(g, u, s)]
    <3> HIDE DEF P
    <3>1. [s \in P(n) |-> SumStep(f, u, s)] = [s \in P(n) |-> SumStep(g, u, s)]
      BY <2>5
    <3> QED
      BY <3>1
  <2> HIDE DEF g, P
  <2> QED
    BY <2>1, <2>6
<1>3. P(Cardinality(D)) = SUBSET D
  BY FS_Subset
<1>4. Cardinality(D) \in Nat
  BY FS_CardinalityType
<1>5. PICK f : f = [s \in P(Cardinality(D)) |-> SumStep(f, u, s)]
  BY <1>2, <1>4
<1> HIDE DEF P
<1>6. f = [s \in SUBSET D |-> SumStep(f, u, s)]
  BY <1>3, <1>5, Zenon
<1> QED
  BY <1>6 DEF IsSum

LEMMA SumIsSum ==
  ASSUME NEW u, IsFiniteSet(DOMAIN u)
  PROVE  \E f : IsSum(f, u) /\ SumOf(u) = f[DOMAIN u]
<1> DEFINE f == CHOOSE f : IsSum(f, u)
<1>1. IsSum(f, u)
  BY SumExists
<1>2. SumOf(u) = f[DOMAIN u]
  BY DEF SumOf, MapThenSumSet, MapThenFoldSet, IsSum, SumStep, Some
<1> QED
  BY <1>1, <1>2

\* Where the values of u are natural numbers and those at K are one higher in
\* v, the sum is higher by as many.
LEMMA SumGrows ==
  ASSUME NEW D, IsFiniteSet(D), NEW u \in [D -> Nat], NEW v \in [D -> Nat], NEW K \in SUBSET D,
         \A l \in D : v[l] = IF l \in K THEN u[l] + 1 ELSE u[l]
  PROVE  SumOf(u) \in Nat /\ SumOf(v) = SumOf(u) + Cardinality(K)
<1>1. DOMAIN u = D /\ DOMAIN v = D
  OBVIOUS
<1>2. PICK f : IsSum(f, u) /\ SumOf(u) = f[D]
  BY <1>1, SumIsSum
<1>3. PICK g : IsSum(g, v) /\ SumOf(v) = g[D]
  BY <1>1, SumIsSum
<1>4. \A s \in SUBSET D : f[s] = SumStep(f, u, s) /\ g[s] = SumStep(g, v, s)
  BY <1>1, <1>2, <1>3 DEF IsSum
<1>5. \A s \in SUBSET D : IsFiniteSet(s) /\ IsFiniteSet(K \cap s) /\ Cardinality(K \cap s) \in Nat
  BY FS_Subset, FS_CardinalityType
<1> DEFINE T == {s \in SUBSET D : f[s] \in Nat /\ g[s] = f[s] + Cardinality(K \cap s)}
<1>6. {} \in T
  <2>1. Cardinality(K \cap {}) = 0
    BY FS_EmptySet
  <2>2. f[{}] = 0 /\ g[{}] = 0
    BY <1>4 DEF SumStep
  <2> QED
    BY <2>1, <2>2
<1>7. ASSUME NEW s \in SUBSET D, s # {}, s \ {Some(s)} \in T
      PROVE  s \in T
  <2> DEFINE x == Some(s)
  <2> DEFINE t == s \ {x}
  <2>1. x \in s /\ x \in D
    BY <1>5, <1>7, LessOne
  <2>2. f[s] = u[x] + f[t] /\ g[s] = v[x] + g[t]
    BY <1>4, <1>7 DEF SumStep
  <2>3. f[t] \in Nat /\ g[t] = f[t] + Cardinality(K \cap t) /\ Cardinality(K \cap t) \in Nat
    BY <1>5, <1>7
  <2>4. u[x] \in Nat /\ v[x] = IF x \in K THEN u[x] + 1 ELSE u[x]
    BY <2>1
  <2>5. CASE x \in K
    <3> DEFINE R == K \cap t
    <3>1. K \cap s = R \cup {x} /\ x \notin R
      BY <2>1, <2>5
    <3>2. IsFiniteSet(R)
      BY <1>5
    <3> HIDE DEF R, t
    <3>3. Cardinality(K \cap s) = Cardinality(R) + 1
      BY <3>1, <3>2, FS_AddElement
    <3> QED
      BY <2>2, <2>3, <2>4, <2>5, <3>3 DEF R
  <2>6. CASE x \notin K
    <3>1. K \cap s = K \cap t
      BY <2>6
    <3> HIDE DEF t
    <3> QED
      BY <2>2, <2>3, <2>4, <2>6, <3>1
  <2> QED
    BY <2>5, <2>6
<1> HIDE DEF T
<1>8. D \in T
  BY <1>6, <1>7, OverSubsets
<1>9. K \cap D = K
  OBVIOUS
<1> QED
  BY <1>2, <1>3, <1>8, <1>9 DEF T

LEMMA SumOfNothing ==
  ASSUME NEW D, IsFiniteSet(D)
  PROVE  SumOf([l \in D |-> 0]) = 0
<1> DEFINE u == [l \in D |-> 0]
<1>1. DOMAIN u = D /\ \A l \in D : u[l] = 0
  OBVIOUS
<1> HIDE DEF u
<1>2. PICK f : IsSum(f, u) /\ SumOf(u) = f[D]
  BY <1>1, SumIsSum
<1>3. \A s \in SUBSET D : f[s] = SumStep(f, u, s)
  BY <1>1, <1>2 DEF IsSum
<1>4. \A s \in SUBSET D : IsFiniteSet(s)
  BY FS_Subset
<1> DEFINE T == {s \in SUBSET D : f[s] = 0}
<1>5. {} \in T
  BY <1>3 DEF SumStep
<1>6. ASSUME NEW s \in SUBSET D, s # {}, s \ {Some(s)} \in T
      PROVE  s \in T
  <2>1. Some(s) \in D
    BY <1>4, <1>6, LessOne
  <2>2. f[s] = u[Some(s)] + f[s \ {Some(s)}]
    BY <1>3, <1>6 DEF SumStep
  <2> QED
    BY <1>1, <1>6, <2>1, <2>2
<1> HIDE DEF T
<1>7. D \in T
  BY <1>5, <1>6, OverSubsets
<1>8. SumOf(u) = 0
  BY <1>2, <1>7 DEF T
<1> QED
  BY <1>8 DEF u

-----------------------------------------------------------------------------
(* The statistics *)

\* What is counted as sent is accounted for.
Accounted(net) == net.sent = net.arrived + net.overflowed + SumOf(net.underWay)

LEMMA LinksFinite == IsFiniteSet(Nodes \X Nodes)
  BY NodesFinite, FS_Product

LEMMA NewNetworkAccounted == Accounted(NewNetworkSimulator)
<1>1. SumOf([l \in Nodes \X Nodes |-> 0]) = 0
  BY LinksFinite, SumOfNothing
<1> QED
  BY <1>1 DEF Accounted, NewNetworkSimulator

LEMMA SameAccounts ==
  ASSUME NEW net \in Networks, Accounted(net), NEW after,
         after.sent = net.sent, after.arrived = net.arrived,
         after.overflowed = net.overflowed, after.underWay = net.underWay
  PROVE  Accounted(after)
  BY DEF Accounted

LEMMA SendMessagesAccounted ==
  ASSUME NEW net \in Networks, NEW from \in Nodes,
         NEW fate, DOMAIN fate \in SUBSET Nodes, Accounted(net)
  PROVE  LET sent == SendMessages(net, from, fate)
         IN  sent \in Networks /\ Accounted(sent)
<1> DEFINE after    == SendMessages(net, from, fate)
           sent     == Counted(net, from, fate)
           K        == {from} \X sent
           cards    == Cardinality(sent)
           cardr    == Cardinality(Replayed(net, from, fate))
           u        == net.underWay
           v        == [l \in Nodes \X Nodes |-> IF l[1] = from /\ l[2] \in sent
                                                 THEN u[l] + 1 ELSE u[l]]
<1>1. sent \in SUBSET Nodes /\ Replayed(net, from, fate) \in SUBSET Nodes
  BY DEF Counted, Replayed
<1>2. cards \in Nat /\ cardr \in Nat
  BY <1>1, NodesFinite
<1>3. Cardinality(K) = cards /\ K \in SUBSET (Nodes \X Nodes)
  <2>1. IsFiniteSet(sent) /\ IsFiniteSet({from}) /\ Cardinality({from}) = 1
    BY <1>1, NodesFinite, FS_Singleton
  <2>2. Cardinality(K) = Cardinality({from}) * Cardinality(sent)
    BY <2>1, FS_Product
  <2>3. K \in SUBSET (Nodes \X Nodes)
    BY <1>1
  <2> HIDE DEF K, sent
  <2> QED
    BY <1>2, <2>1, <2>2, <2>3
<1>4. u \in [Nodes \X Nodes -> Nat] /\ v \in [Nodes \X Nodes -> Nat]
  BY DEF Networks
<1>5. \A l \in Nodes \X Nodes : v[l] = IF l \in K THEN u[l] + 1 ELSE u[l]
  <2>1. \A l \in Nodes \X Nodes : l \in K <=> l[1] = from /\ l[2] \in sent
    BY <1>1
  <2> HIDE DEF K, u, sent
  <2> QED
    BY <2>1
<1>6. SumOf(u) \in Nat /\ SumOf(v) = SumOf(u) + cards
  <2> HIDE DEF v, u, K, sent
  <2> QED
    BY <1>3, <1>4, <1>5, LinksFinite, SumGrows
<1>7. after \in Networks
  BY SendMessagesType
<1>8. /\ after.sent = net.sent + cards + cardr
      /\ after.arrived = net.arrived + cardr
      /\ after.overflowed = net.overflowed
      /\ after.underWay = v
  BY DEF SendMessages, Networks, Counted
<1>9. net.sent \in Nat /\ net.arrived \in Nat /\ net.overflowed \in Nat
  BY DEF Networks
<1>10. net.sent = net.arrived + net.overflowed + SumOf(u)
  BY DEF Accounted
<1> HIDE DEF after, v, u, cards, cardr
<1>11. Accounted(after)
  BY <1>2, <1>6, <1>8, <1>9, <1>10 DEF Accounted
<1> QED
  BY <1>7, <1>11 DEF after

LEMMA DeliverAccounted ==
  ASSUME SInv, NEW from \in Nodes, NEW to \in Nodes, Deliver(from, to), Accounted(network)
  PROVE  Accounted(network')
<1> DEFINE K == {<<from, to>>}
           u == network.underWay
           v == [u EXCEPT ![<<from, to>>] = @ - 1]
<1>1. network \in Networks /\ u[<<from, to>>] > 0
  BY DEF Deliver, SInv, SimulatorTypes
<1>2. u \in [Nodes \X Nodes -> Nat] /\ v \in [Nodes \X Nodes -> Nat]
  BY <1>1 DEF Networks
<1>3. \A l \in Nodes \X Nodes : u[l] = IF l \in K THEN v[l] + 1 ELSE v[l]
  BY <1>2
<1>4. Cardinality(K) = 1 /\ K \in SUBSET (Nodes \X Nodes)
  BY FS_Singleton
<1>5. SumOf(v) \in Nat /\ SumOf(u) = SumOf(v) + 1
  <2> HIDE DEF u, v, K
  <2> QED
    BY <1>2, <1>3, <1>4, LinksFinite, SumGrows
<1>6. /\ network'.sent = network.sent
      /\ network'.underWay = v
      /\ \/ network'.arrived = network.arrived + 1 /\ network'.overflowed = network.overflowed
         \/ network'.arrived = network.arrived /\ network'.overflowed = network.overflowed + 1
  BY <1>1 DEF Deliver, Networks
<1>7. network.sent \in Nat /\ network.arrived \in Nat /\ network.overflowed \in Nat
  BY <1>1 DEF Networks
<1>8. network.sent = network.arrived + network.overflowed + SumOf(u)
  BY DEF Accounted
<1> HIDE DEF u, v, K
<1> QED
  BY <1>5, <1>6, <1>7, <1>8 DEF Accounted

LEMMA AccountedStep ==
  ASSUME SInv, Accounted(network), [Next]_vars
  PROVE  Accounted(network')
<1>1. network \in Networks
  BY DEF SInv, SimulatorTypes
<1>2. CASE Start \/ Stop \/ Restart \/ (\E n \in Nodes : CrashNode(n)) \/ UNCHANGED vars
  <2>1. network' = network
    BY <1>2 DEF Start, Stop, Restart, CrashNode, vars
  <2> QED
    BY <2>1
<1>3. CASE \/ HealAll \/ CrashInNetwork \/ ClearPartitions
           \/ \E n \in Nodes : RecoverNode(n) \/ Receive(n)
           \/ \E groups \in Partitions : SetPartitions(groups)
  <2>1. /\ network'.sent = network.sent
        /\ network'.arrived = network.arrived
        /\ network'.overflowed = network.overflowed
        /\ network'.underWay = network.underWay
    BY <1>1, <1>3 DEF HealAll, HealedNetwork, CrashInNetwork, ClearPartitions, RecoverNode,
                      Receive, SetPartitions, Networks
  <2> QED
    BY <1>1, <2>1, SameAccounts
<1>4. CASE \E n \in Nodes : Broadcast(n)
  <2>1. PICK from \in Nodes : Broadcast(from)
    BY <1>4
  <2>2. PICK fate \in [Receivers(network, from) -> Fates] :
          network' = [SendMessages(network, from, fate) EXCEPT !.broadcasts = @ + 1]
    BY <2>1 DEF Broadcast
  <2> DEFINE sent == SendMessages(network, from, fate)
  <2>3. DOMAIN fate \in SUBSET Nodes
    BY DEF Receivers
  <2>4. sent \in Networks /\ Accounted(sent)
    BY <1>1, <2>3, SendMessagesAccounted
  <2> HIDE DEF sent
  <2>5. /\ network'.sent = sent.sent
        /\ network'.arrived = sent.arrived
        /\ network'.overflowed = sent.overflowed
        /\ network'.underWay = sent.underWay
    BY <2>2, <2>4 DEF sent, Networks
  <2> QED
    BY <2>4, <2>5, SameAccounts
<1>5. CASE \E from, to \in Nodes : Deliver(from, to)
  BY <1>5, DeliverAccounted
<1>6. CASE \E lvl \in Levels : Reset(lvl)
  BY <1>6, NewNetworkAccounted DEF Reset
<1> QED
  BY <1>2, <1>3, <1>4, <1>5, <1>6 DEF Next

-----------------------------------------------------------------------------
(* The theorems *)

\* After any sequence of crashes, recoveries, partitions and healing the
\* simulator shows as crashed exactly the nodes the network cuts off, which
\* are told so in two steps (simulator.go:531-589, 657-686).
THEOREM CrashesAlwaysAgree == Spec => []CrashesAgree
<1>1. SInv => CrashesAgree
  BY DEF SInv, CrashesPaired, CrashesAgree, Idle
<1> QED
  BY <1>1, SimulatorInvariant, PTL

\* While the simulator runs, a node it does not show as crashed has a message
\* loop that was not told to end, although Start, Stop, RecoverNode and HealAll
\* start and stop loops that may run already (simulator.go:372-429, 560-589).
THEOREM NodesKeepRunning == Spec => []LiveNodesRun
<1>1. SInv => LiveNodesRun
  BY DEF SInv, OthersRun, LiveNodesRun, Idle, Lives
<1> QED
  BY <1>1, SimulatorInvariant, PTL

\* By whichever request the partitions ended, no node is left shown as
\* partitioned (simulator.go:592-686).
THEOREM NobodyStaysIsolated == Spec => []IsolationEnds
<1>1. SInv => IsolationEnds
  BY DEF SInv, IsolationEnds
<1> QED
  BY <1>1, SimulatorInvariant, PTL

\* Between requests no message is put on a link from or to a node that is shown
\* as crashed, although its goroutines may outlive the crash
\* (network.go:167-203).
THEOREM CrashedSendNothing == Spec => CrashedAreSilent
<1>1. SInv /\ [Next]_vars
        => [\A l \in DOMAIN network.underWay :
              Idle /\ network'.underWay[l] > network.underWay[l]
                => nodes[l[1]].status # "crashed" /\ nodes[l[2]].status # "crashed"]_vars
  <2> SUFFICES ASSUME SInv, [Next]_vars, NEW l \in DOMAIN network.underWay, Idle,
                      network'.underWay[l] > network.underWay[l]
               PROVE  nodes[l[1]].status # "crashed" /\ nodes[l[2]].status # "crashed"
    OBVIOUS
  <2>1. l \in Nodes \X Nodes
    BY DEF SInv, SimulatorTypes, Networks
  <2>2. l[1] \notin network.crashed /\ l[2] \notin network.crashed
    BY <2>1, SInvStep
  <2>3. l[1] \in Nodes /\ l[2] \in Nodes
    BY <2>1
  <2> QED
    BY <2>2, <2>3 DEF SInv, CrashesPaired, Idle
<1> QED
  BY <1>1, SimulatorInvariant, PTL DEF Spec, CrashedAreSilent

\* The statistics the simulator shows stay consistent: each message counted as
\* sent is under way, has arrived or was lost at a full channel, although a
\* replay arrives before the message it copies and a reset forgets both
\* (network.go:199-273).
THEOREM StatisticsAddUp == Spec => []StatsAddUp
<1>1. Init => Accounted(network)
  BY NewNetworkAccounted DEF Init
<1>2. SInv /\ Accounted(network) /\ [Next]_vars => Accounted(network)'
  BY AccountedStep
<1>3. Accounted(network) => StatsAddUp
  BY DEF Accounted, StatsAddUp, SumOf
<1> QED
  BY <1>1, <1>2, <1>3, SimulatorInvariant, PTL DEF Spec
==============================================================================
