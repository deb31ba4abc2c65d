----------------------------- MODULE TwinsNetwork -----------------------------
(***************************************************************************)
(* The network between the nodes of a scenario, the interceptors of the    *)
(* twins (network.go, interceptors.go) and the detector of violations      *)
(* (detector.go).  Each is a record; a broadcast is one critical section of*)
(* the network's mutex, the interceptors and the detector included.        *)
(*                                                                         *)
(* A message is its sender, type, view and block.  The random generator of *)
(* an interceptor may draw anything.                                       *)
(***************************************************************************)
EXTENDS Twins, SequencesExt

CONSTANTS
  Capacity,   \* messages a node's channel holds (100 in the code)
  MinDelay, MaxDelay   \* of the delay interceptor, in messages (1 and 5)

ASSUME NetworkAssumption ==
  Capacity \in Nat /\ MinDelay \in Nat /\ MaxDelay \in Nat /\ MinDelay <= MaxDelay

-----------------------------------------------------------------------------
(* The detector *)

NewViolationDetector == [votes |-> {}, committed |-> {}, violations |-> {}]

\* Every earlier vote of the validator in the view is compared.
RecordVote(d, n, index, view, block) ==
  LET conflicts == \E x \in d.votes : x.index = index /\ x.view = view /\ x.block # block
      vote == [node |-> n, index |-> index, view |-> view, block |-> block]
  IN  [d EXCEPT !.votes = @ \cup {vote},
                !.violations = IF conflicts
                               THEN @ \cup {[type |-> "DoubleSign", index |-> index, view |-> view,
                                              injected |-> FALSE]}
                               ELSE @]

\* A violation is recorded whether or not there is a conflicting vote.
RecordConflictingVote(d, n, index, view, block) ==
  [RecordVote(d, n, index, view, block) EXCEPT
     !.violations = @ \cup {[type |-> "DoubleSign", index |-> index, view |-> view,
                             injected |-> TRUE]}]

\* Mutation: a node is compared with itself only.
RecordCommitOfNode(d, n, height, block) ==
  LET conflicts == \E x \in d.committed : x.node = n /\ x.height = height /\ x.block # block
  IN  [d EXCEPT !.committed = @ \cup {[node |-> n, height |-> height, block |-> block]},
                !.violations = IF conflicts
                               THEN @ \cup {[type |-> "Fork", height |-> height]}
                               ELSE @]

RecordCommit(d, n, height, block) ==
  LET conflicts == \E x \in d.committed : x.height = height /\ x.block # block
  IN  [d EXCEPT !.committed = @ \cup {[node |-> n, height |-> height, block |-> block]},
                !.violations = IF conflicts
                               THEN @ \cup {[type |-> "Fork", height |-> height]}
                               ELSE @]

-----------------------------------------------------------------------------
(* The network; net.scenario never changes *)

NewTwinsNetwork(s) ==
  [ scenario     |-> s,
    channel      |-> [n \in Nodes(s) |-> <<>>],
    silent       |-> {},
    interceptor  |-> [n \in Nodes(s) |-> "none"],
    doubleSigned |-> [n \in Nodes(s) |-> {}],    \* views
    delayed      |-> [n \in Nodes(s) |-> <<>>],  \* delayedQueue
    count        |-> [n \in Nodes(s) |-> 0],     \* messages seen by the delay interceptor
    heard        |-> [n \in Nodes(s) |-> {}] ]   \* history: senders of what reached n

Everyone == -1

Out(to, m) == [to |-> to, message |-> m]

\* What an interceptor does with a message of n: a set of alternatives.
Effect(net, d, outs) == [net |-> net, detector |-> d, outs |-> outs]

RecordIfVote(d, net, n, m) ==
  IF m.type = "VOTE"
  THEN RecordVote(d, n, GetValidatorIndex(n, net.scenario), m.view, m.block) ELSE d

InterceptDoubleSign(net, d, n, m) ==
  LET recorded == RecordIfVote(d, net, n, m)
      pass == <<Out(Everyone, m)>>
  IN  IF m.type # "VOTE" \/ m.view \in net.doubleSigned[n]
      THEN {Effect(net, recorded, pass)}
      ELSE {Effect([net EXCEPT !.doubleSigned[n] = @ \cup {m.view}],
                   RecordConflictingVote(recorded, n, GetValidatorIndex(n, net.scenario),
                                         m.view, m.block),
                   pass)}

\* Only the first partition gets votes and proposals.
InterceptEquivocation(net, d, n, m) ==
  LET partitions == net.scenario.Partitions
      first == IF partitions = <<>> THEN {} ELSE partitions[1]
  IN  {Effect(net, d,
         IF Len(partitions) >= 2 /\ m.type \in {"VOTE", "PROPOSE"} /\ first # {}
         THEN SetToSeq({Out(to, m) : to \in first})
         ELSE <<Out(Everyone, m)>>)}

\* Mutation: a vote that is dropped is not recorded.
RandomDropsFirst(net, d, n, m) ==
  { Effect(net, d, <<>>), Effect(net, RecordIfVote(d, net, n, m), <<Out(Everyone, m)>>) }

\* A vote is recorded, also when it is then dropped.
InterceptRandom(net, d, n, m) ==
  LET recorded == RecordIfVote(d, net, n, m)
  IN  {Effect(net, recorded, <<>>), Effect(net, recorded, <<Out(Everyone, m)>>)}

\* A set of places in order, and what a sequence holds at them.
InOrder(places) ==
  CHOOSE f \in [1 .. Cardinality(places) -> places] : \A i, j \in DOMAIN f : i < j => f[i] < f[j]

At(seq, places) == [k \in 1 .. Cardinality(places) |-> seq[InOrder(places)[k]]]

Swap(q, i, j) == [q EXCEPT ![i] = q[j], ![j] = q[i]]

\* Mutation: a message waits for one message too many.
IsOverdue(x, count) == count > x.releaseAt

IsDue(x, count) == count >= x.releaseAt

Due(queue, count) == At(queue, {i \in DOMAIN queue : IsDue(queue[i], count)})
Waiting(queue, count) == At(queue, {i \in DOMAIN queue : ~IsDue(queue[i], count)})

\* Those of the queue whose time has come are let go.
Release(net, d, n, queue) ==
  LET due == Due(queue, net.count[n])
  IN  Effect([net EXCEPT !.delayed[n] = Waiting(queue, net.count[n])],
             d,
             [i \in DOMAIN due |-> Out(Everyone, due[i].message)])

Counted(net, n) == [net EXCEPT !.count[n] = @ + 1]

Queued(net, n, m, delay) ==
  Append(net.delayed[n], [message |-> m, releaseAt |-> net.count[n] + delay])

\* The message is queued, and two of the queue may change places.
DelayFor(net, d, n, m, delay) ==
  {Release(net, d, n, Swap(Queued(net, n, m, delay), i, j)) :
     i, j \in DOMAIN Queued(net, n, m, delay)}

InterceptDelay(net, d, n, m) ==
  UNION {DelayFor(Counted(net, n), RecordIfVote(d, net, n, m), n, m, delay) :
           delay \in MinDelay .. MaxDelay}

InterceptOutgoing(net, d, n, m) ==
  CASE net.interceptor[n] = "DoubleSign"   -> InterceptDoubleSign(net, d, n, m)
    [] net.interceptor[n] = "Equivocation" -> InterceptEquivocation(net, d, n, m)
    [] net.interceptor[n] = "Random"       -> InterceptRandom(net, d, n, m)
    [] net.interceptor[n] = "Delay"        -> InterceptDelay(net, d, n, m)
    [] OTHER                               -> {Effect(net, d, <<Out(Everyone, m)>>)}

\* Mutation: a message for one node passes between partitions.
BroadcastReachable(net, from, out, to) ==
  /\ out.to = Everyone => to # from /\ ~IsPartitioned(net.scenario, from, to)
  /\ out.to # Everyone => to = out.to
  /\ to \notin net.silent

Reaches(net, from, out, to) ==
  /\ IF out.to = Everyone THEN to # from ELSE to = out.to
  /\ ~IsPartitioned(net.scenario, from, to)
  /\ to \notin net.silent

\* The deliveries, a place in outs and a receiver, that the interceptor of the
\* receiver may drop.
MayDrop(net, from, outs) ==
  {x \in (DOMAIN outs) \X Nodes(net.scenario) :
     Reaches(net, from, outs[x[1]], x[2]) /\ net.interceptor[x[2]] = "Random"}

\* The places of what reaches a node.
Arriving(net, from, outs, dropped, to) ==
  {i \in DOMAIN outs : Reaches(net, from, outs[i], to) /\ <<i, to>> \notin dropped}

\* What a channel holds once messages came in, in the order of their places:
\* those it has no room for are lost.
Filled(channel, outs, places) ==
  LET arriving == At(outs, places)
      all == channel \o [k \in DOMAIN arriving |-> arriving[k].message]
  IN  SubSeq(all, 1, IF Len(all) < Capacity THEN Len(all) ELSE Capacity)

Send(net, from, outs, dropped) ==
  LET places == [to \in Nodes(net.scenario) |-> Arriving(net, from, outs, dropped, to)]
  IN  [net EXCEPT
         !.channel = [to \in DOMAIN @ |-> Filled(@[to], outs, places[to])],
         !.heard = [to \in DOMAIN @ |-> IF places[to] # {} THEN @[to] \cup {from} ELSE @[to]]]

\* What broadcast may leave: the network and the detector.
Broadcast(net, d, n, m) ==
  IF n \in net.silent THEN {[net |-> net, detector |-> d, outs |-> <<>>]}
  ELSE UNION {{[net |-> Send(e.net, n, e.outs, dropped), detector |-> e.detector, outs |-> e.outs] :
                 dropped \in SUBSET MayDrop(e.net, n, e.outs)} :
                e \in InterceptOutgoing(net, d, n, m)}
==============================================================================
