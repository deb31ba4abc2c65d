---------------------------- MODULE TwinsExecutor ----------------------------
(***************************************************************************)
(* The execution of one twins scenario (executor.go): the nodes are        *)
(* created and started, the behaviour of the twins is installed, the run   *)
(* ends with enough committed blocks or after two seconds, the nodes are   *)
(* stopped, the network is closed and the violations are counted.          *)
(*                                                                         *)
(* Of a node, a replica of HotStuff2, only what the framework sees is kept:*)
(* a leader proposes blocks in its view and broadcasts no vote in it, any  *)
(* other node votes once in a view, for a block it was proposed, and a node*)
(* commits at most one block at a height, in any order of heights.  Which  *)
(* blocks are voted for and committed is left open.                        *)
(***************************************************************************)
EXTENDS TwinsNetwork

CONSTANTS
  Scenarios,   \* the scenarios given to NewExecutor
  Executed,    \* those of them that are run
  Blocks,      \* the blocks of a height
  Proposers,   \* bound: <<node, view>> where the node may propose
  Listeners,   \* bound: the nodes that receive, and vote
  Committers,  \* bound: the nodes that commit
  Heights,     \* bound: the heights of committed blocks
  MaxCommits,  \* bound: the commits of all nodes
  MaxSaid      \* bound: the messages a node broadcasts

ASSUME ExecutorAssumption == Executed \subseteq Scenarios /\ Proposers \subseteq Nat \X Nat

VARIABLES
  scenario,
  phase,      \* new, rejected, created, started, running, stopping, closed
  net,
  detector,
  node,       \* per node: the proposals it got, what it said and committed
  result,
  observed,   \* history: the votes an interceptor that records votes has seen
  left        \* history: what the delay interceptor of a node has let go

vars == <<scenario, phase, net, detector, node, result, observed, left>>

NewNode == [got |-> {}, said |-> {}, committed |-> {}]

NoResult == [success |-> FALSE, violations |-> {}, blocks |-> 0]

Init ==
  /\ scenario \in Scenarios
  /\ phase = "new"
  /\ net = <<>> /\ detector = <<>> /\ node = <<>> /\ left = <<>>
  /\ result = NoResult
  /\ observed = {}

Twinned == {n \in Nodes(scenario) : IsTwin(n, scenario)}

\* createValidatorSet: a validator for each replica and for each pair.
Validators == scenario.Replicas + scenario.Twins

\* The views with proposals.
LedViews == {x[2] : x \in Proposers}

IsLeader(n, view) == GetValidatorIndex(n, scenario) = view % Validators

NewExecutor ==
  /\ phase = "new"
  /\ IF ValidateScenario(scenario)
     THEN /\ phase' = "created"
          /\ net' = NewTwinsNetwork(scenario)
          /\ detector' = NewViolationDetector
          /\ node' = [n \in Nodes(scenario) |-> NewNode]
          /\ left' = [n \in Nodes(scenario) |-> <<>>]
     ELSE /\ phase' = "rejected"
          /\ UNCHANGED <<net, detector, node, left>>
  /\ UNCHANGED <<scenario, result, observed>>

\* The nodes start in any order; one that has not started yet is one that has
\* done nothing yet.
Start ==
  /\ phase = "created"
  /\ scenario \in Executed
  /\ phase' = "started"
  /\ UNCHANGED <<scenario, net, detector, node, result, observed, left>>

Behave(n) ==
  CASE scenario.Behavior = "Silent" -> net' = [net EXCEPT !.silent = @ \cup {n}]
    [] scenario.Behavior = "Honest" -> UNCHANGED net
    [] OTHER -> net' = [net EXCEPT !.interceptor[n] = scenario.Behavior]

HasBehavior(n) == n \in net.silent \/ net.interceptor[n] # "none"

\* The twins are given their behaviour one after the other, while all run.
ApplyByzantineBehavior(n) ==
  /\ phase = "started"
  /\ scenario.Behavior # "Honest"
  /\ n \in Twinned /\ ~HasBehavior(n)
  /\ \A m \in Twinned : m < n => HasBehavior(m)
  /\ Behave(n)
  /\ UNCHANGED <<scenario, phase, detector, node, result, observed, left>>

Run ==
  /\ phase = "started"
  /\ scenario.Behavior = "Honest" \/ \A n \in Twinned : HasBehavior(n)
  /\ phase' = "running"
  /\ UNCHANGED <<scenario, net, detector, node, result, observed, left>>

-----------------------------------------------------------------------------
(* The nodes *)

RecordsVotes(n) == net.interceptor[n] \in {"DoubleSign", "Random", "Delay"}

Say(n, m) ==
  /\ Cardinality(node[n].said) < MaxSaid
  /\ m \notin node[n].said
  /\ node' = [node EXCEPT ![n].said = @ \cup {m}]
  /\ \E e \in Broadcast(net, detector, n, m) :
       /\ net' = e.net
       /\ detector' = e.detector
       /\ left' = IF net.interceptor[n] = "Delay"
                  THEN [left EXCEPT ![n] = @ \o [i \in DOMAIN e.outs |-> e.outs[i].message]]
                  ELSE left
  /\ observed' = IF m.type = "VOTE" /\ RecordsVotes(n) THEN observed \cup {<<n, m>>} ELSE observed
  /\ UNCHANGED <<scenario, phase, result>>

\* propose is a goroutine Stop does not wait for.
Propose(n) ==
  /\ phase \in {"started", "running", "stopping"}
  /\ \E view \in LedViews, b \in Blocks :
       /\ <<n, view>> \in Proposers
       /\ IsLeader(n, view)
       /\ Say(n, [type |-> "PROPOSE", view |-> view, block |-> b])

\* The leader of a view broadcasts no vote in it.
Vote(n) ==
  /\ phase \in {"started", "running"}
  /\ \E p \in node[n].got :
       /\ ~IsLeader(n, p.view)
       /\ \A m \in node[n].said : m.type = "VOTE" => m.view # p.view
       /\ Say(n, [p EXCEPT !.type = "VOTE"])

Receive(n) ==
  /\ phase \in {"started", "running"}
  /\ n \in Listeners
  /\ net.channel[n] # <<>>
  /\ LET m == Head(net.channel[n])
     IN  node' = [node EXCEPT ![n].got = IF m.type = "PROPOSE" THEN @ \cup {m} ELSE @]
  /\ net' = [net EXCEPT !.channel[n] = Tail(@)]
  /\ UNCHANGED <<scenario, phase, detector, result, observed, left>>

\* onCommit.  The heights of a node may have gaps, since the two-chain rule
\* asks for consecutive views and not for a committed parent.  A leader's own
\* vote may complete a quorum after Stop.
Commit(n) ==
  /\ phase \in {"started", "running", "stopping"}
  /\ n \in Committers
  /\ Cardinality(detector.committed) < MaxCommits
  /\ \E h \in Heights, b \in Blocks :
       /\ \A x \in node[n].committed : x.height # h
       /\ node' = [node EXCEPT ![n].committed = @ \cup {[height |-> h, block |-> b]}]
       /\ detector' = RecordCommit(detector, n, h, b)
  /\ UNCHANGED <<scenario, phase, net, result, observed, left>>

-----------------------------------------------------------------------------
(* The end of the run.  The nodes are stopped one by one; until the last   *)
(* one has stopped the run goes on, with nodes that do nothing any more.   *)

TargetReached ==
  /\ phase = "running"
  /\ \E n \in Nodes(scenario) : Cardinality(node[n].committed) >= scenario.Views
  /\ phase' = "stopping"
  /\ UNCHANGED <<scenario, net, detector, node, result, observed, left>>

TimeOut ==
  /\ phase = "running"
  /\ phase' = "stopping"
  /\ UNCHANGED <<scenario, net, detector, node, result, observed, left>>

\* After 50 ms, taken to be enough for the goroutines that are left.
Finish ==
  /\ phase = "stopping"
  /\ phase' = "closed"
  /\ result' = [ success |-> detector.violations = {},
                 violations |-> detector.violations,
                 blocks |-> FoldSet(LAMBDA n, sum : sum + Cardinality(node[n].committed),
                                    0, Nodes(scenario)) ]
  /\ UNCHANGED <<scenario, net, detector, node, observed, left>>

Next ==
  \/ NewExecutor \/ Start \/ Run \/ TargetReached \/ TimeOut \/ Finish
  \/ \E n \in Nodes(scenario) :
       \/ ApplyByzantineBehavior(n)
       \/ Propose(n) \/ Vote(n) \/ Receive(n) \/ Commit(n)

Spec == Init /\ [][Next]_vars

-----------------------------------------------------------------------------
(* Properties *)

Created == phase \notin {"new", "rejected"}

\* Every scenario the generators make can be run: NewExecutor rejects none.
ScenariosAccepted == phase # "rejected"

\* The result names a fork for exactly the runs in which two nodes, whether
\* replicas or twins, committed different blocks at a height, whoever was
\* first and whenever it happened, also while the nodes were being stopped.
ForksReported ==
  phase = "closed" =>
    ( (\E x \in result.violations : x.type = "Fork")
        <=> \E m, n \in Nodes(scenario) :
              \E x \in node[m].committed, y \in node[n].committed :
                x.height = y.height /\ x.block # y.block )

\* A double vote is reported, apart from those the interceptor makes up, for
\* exactly the validators whose twins voted for different blocks of a view
\* through interceptors that see votes, the votes then lost or delayed included.
DoubleSignsCaught ==
  Created =>
    \A n \in Nodes(scenario), view \in LedViews :
      LET index == GetValidatorIndex(n, scenario)
          votes == {x \in observed : GetValidatorIndex(x[1], scenario) = index /\ x[2].view = view}
      IN  [type |-> "DoubleSign", index |-> index, view |-> view, injected |-> FALSE]
            \in detector.violations
          <=> \E x, y \in votes : x[2].block # y[2].block

\* The delay interceptor holds at most MaxDelay messages, and of what its node
\* said since it is there each message is either held or was let go once,
\* however the queue was reordered.
DelaysBounded ==
  Created =>
    \A n \in Nodes(scenario) :
      LET held == {net.delayed[n][i].message : i \in DOMAIN net.delayed[n]}
          gone == ToSet(left[n])
      IN  /\ Len(net.delayed[n]) <= MaxDelay
          /\ held \cap gone = {}
          /\ Cardinality(held) = Len(net.delayed[n])
          /\ Cardinality(gone) = Len(left[n])
          /\ Cardinality(held \cup gone) = net.count[n]

\* Nothing crosses a partition, whatever the interceptor of the sender routes
\* to single nodes.
PartitionsHold ==
  Created => \A n \in Nodes(scenario) : \A m \in net.heard[n] : ~IsPartitioned(scenario, m, n)
==============================================================================
