----------------------------- MODULE Twins_proofs -----------------------------
(***************************************************************************)
(* What the twins framework reports about a scenario is what happened in   *)
(* it, for every scenario, behaviour and interleaving: forks, double votes *)
(* and partitions.  Delays end, and what the generators make is accepted.  *)
(***************************************************************************)
EXTENDS TwinsExecutor, FiniteSetTheorems, WellFoundedInduction, TLAPS

\* The fields of the records; what the channels and queues hold is left open.
IsNetwork(x) ==
  x \in [ scenario : {x.scenario}, channel : {x.channel}, silent : {x.silent},
          interceptor : {x.interceptor}, doubleSigned : {x.doubleSigned},
          delayed : {x.delayed}, count : {x.count}, heard : {x.heard} ]

IsDetector(d) ==
  d \in [votes : {d.votes}, committed : {d.committed}, violations : {d.violations}]

IsNode(p) == p \in [got : {p.got}, said : {p.said}, committed : {p.committed}]

Fork(v) == v.type = "Fork"

DoubleVote(index, view) ==
  [type |-> "DoubleSign", index |-> index, view |-> view, injected |-> FALSE]

VoteRecord(n, m) ==
  [node |-> n, index |-> GetValidatorIndex(n, scenario), view |-> m.view, block |-> m.block]

Phases == {"new", "rejected", "created", "started", "running", "stopping", "closed"}

NetworkOK ==
  /\ IsNetwork(net)
  /\ net.scenario = scenario
  /\ net.interceptor \in [Nodes(scenario) -> {scenario.Behavior, "none"}]
  /\ \A n \in Nodes(scenario) : n \in net.silent => net.interceptor[n] = "none"
  /\ net.heard \in [Nodes(scenario) -> SUBSET Nodes(scenario)]
  /\ \A n \in Nodes(scenario) : \A m \in net.heard[n] : ~IsPartitioned(scenario, m, n)

\* The detector has seen the votes that were observed, and no others, and
\* reports a pair of them as soon as it has both.
VotesOK ==
  /\ detector.votes = {VoteRecord(x[1], x[2]) : x \in observed}
  /\ \A index, view :
       DoubleVote(index, view) \in detector.violations
       <=> \E x, y \in detector.votes :
             /\ x.index = index /\ y.index = index
             /\ x.view = view /\ y.view = view
             /\ x.block # y.block

CommitRecords(n) ==
  {[node |-> n, height |-> x.height, block |-> x.block] : x \in node[n].committed}

\* So it does with the blocks that were committed.
CommitsOK ==
  /\ \A n \in Nodes(scenario) : IsNode(node[n])
  /\ detector.committed = UNION {CommitRecords(n) : n \in Nodes(scenario)}
  /\ (\E v \in detector.violations : Fork(v))
       <=> \E x, y \in detector.committed : x.height = y.height /\ x.block # y.block

IInv ==
  /\ phase \in Phases
  /\ ~Created => observed = {}
  /\ Created =>
       /\ NetworkOK
       /\ IsDetector(detector)
       /\ VotesOK
       /\ DOMAIN node = Nodes(scenario)
       /\ CommitsOK
  /\ phase = "closed" => result.violations = detector.violations

-----------------------------------------------------------------------------
(* The interceptors and the network *)

\* What happens to the detector when n broadcasts m: its vote is recorded and
\* compared, if it is one and n's interceptor records votes.  Whatever else
\* that adds was made up by the interceptor.
Recorded(d, e, index, n, m, records) ==
  /\ IsDetector(e)
  /\ e.committed = d.committed
  /\ e.votes = IF records
               THEN d.votes \cup {[node |-> n, index |-> index, view |-> m.view, block |-> m.block]}
               ELSE d.votes
  /\ \A v : Fork(v) => (v \in e.violations <=> v \in d.violations)
  /\ \A i, view :
       DoubleVote(i, view) \in e.violations
       <=> \/ DoubleVote(i, view) \in d.violations
           \/ /\ records /\ i = index /\ view = m.view
              /\ \E x \in d.votes : x.index = i /\ x.view = view /\ x.block # m.block

LEMMA RecordVoteRecords ==
  ASSUME NEW d, IsDetector(d), NEW n, NEW index, NEW m
  PROVE  Recorded(d, RecordVote(d, n, index, m.view, m.block), index, n, m, TRUE)
<1> DEFINE e == RecordVote(d, n, index, m.view, m.block)
<1> DEFINE conflicts == \E x \in d.votes : x.index = index /\ x.view = m.view /\ x.block # m.block
<1> DEFINE vote == [node |-> n, index |-> index, view |-> m.view, block |-> m.block]
<1>1. /\ IsDetector(e)
      /\ e.votes = d.votes \cup {vote}
      /\ e.committed = d.committed
      /\ e.violations = IF conflicts THEN d.violations \cup {DoubleVote(index, m.view)}
                        ELSE d.violations
  <2> DEFINE violations == IF conflicts THEN d.violations \cup {DoubleVote(index, m.view)}
                           ELSE d.violations
  <2> DEFINE votes == d.votes \cup {vote}
  <2>1. e = [d EXCEPT !.votes = votes, !.violations = violations]
    BY DEF RecordVote, DoubleVote
  <2> HIDE DEF e, violations, votes
  <2>2. IsDetector(e) /\ e.votes = votes /\ e.violations = violations /\ e.committed = d.committed
    BY <2>1 DEF IsDetector
  <2> QED BY <2>2 DEF violations, votes
<1> HIDE DEF e
<1>2. \A v : Fork(v) => (v \in e.violations <=> v \in d.violations)
  BY <1>1 DEF Fork, DoubleVote
<1>3. \A i, view : DoubleVote(i, view) = DoubleVote(index, m.view) => i = index /\ view = m.view
  BY DEF DoubleVote
<1>4. ASSUME NEW i, NEW view
      PROVE  DoubleVote(i, view) \in e.violations
             <=> \/ DoubleVote(i, view) \in d.violations
                 \/ /\ i = index /\ view = m.view
                    /\ \E x \in d.votes : x.index = i /\ x.view = view /\ x.block # m.block
  <2>1. CASE conflicts
    BY <1>1, <1>3, <2>1
  <2>2. CASE ~conflicts
    BY <1>1, <1>3, <2>2
  <2> QED BY <2>1, <2>2
<1> QED BY <1>1, <1>2, <1>4 DEF Recorded, e

\* The vote an interceptor makes up to be caught adds nothing to what was seen.
LEMMA ConflictingVoteRecords ==
  ASSUME NEW d, IsDetector(d), NEW n, NEW index, NEW m,
         NEW e, e = RecordVote(d, n, index, m.view, m.block)
  PROVE  Recorded(d, RecordConflictingVote(e, n, index, m.view, m.block), index, n, m, TRUE)
<1> DEFINE again == RecordVote(e, n, index, m.view, m.block)
<1> DEFINE f == RecordConflictingVote(e, n, index, m.view, m.block)
<1> DEFINE made == [type |-> "DoubleSign", index |-> index, view |-> m.view, injected |-> TRUE]
<1>1. Recorded(d, e, index, n, m, TRUE)
  BY RecordVoteRecords
<1>2. Recorded(e, again, index, n, m, TRUE)
  <2>1. IsDetector(e)
    BY <1>1 DEF Recorded
  <2> QED BY <2>1, RecordVoteRecords
<1>3. /\ IsDetector(f)
      /\ f.votes = again.votes
      /\ f.committed = again.committed
      /\ f.violations = again.violations \cup {made}
  <2>1. f = [again EXCEPT !.violations = again.violations \cup {made}]
    BY DEF RecordConflictingVote
  <2> HIDE DEF again, f
  <2> QED BY <2>1, <1>2 DEF Recorded, IsDetector
<1> HIDE DEF again, f
<1>4. \A v : Fork(v) => v # made
  BY DEF Fork
<1>5. \A i, view : DoubleVote(i, view) # made
  BY DEF DoubleVote
<1>6. f.votes = d.votes \cup {[node |-> n, index |-> index, view |-> m.view, block |-> m.block]}
  BY <1>1, <1>2, <1>3 DEF Recorded
<1>7. \A v : Fork(v) => (v \in f.violations <=> v \in d.violations)
  BY <1>1, <1>2, <1>3, <1>4 DEF Recorded
<1>8. ASSUME NEW i, NEW view
      PROVE  DoubleVote(i, view) \in f.violations
             <=> \/ DoubleVote(i, view) \in d.violations
                 \/ /\ i = index /\ view = m.view
                    /\ \E x \in d.votes : x.index = i /\ x.view = view /\ x.block # m.block
  <2>1. DoubleVote(i, view) \in f.violations <=> DoubleVote(i, view) \in again.violations
    BY <1>3, <1>5
  <2>2. (\E x \in e.votes : x.index = i /\ x.view = view /\ x.block # m.block)
        <=> \E x \in d.votes : x.index = i /\ x.view = view /\ x.block # m.block
    BY <1>1 DEF Recorded
  <2> QED BY <2>1, <2>2, <1>1, <1>2 DEF Recorded
<1> QED BY <1>1, <1>2, <1>3, <1>6, <1>7, <1>8 DEF Recorded, f

LEMMA RecordIfVoteRecords ==
  ASSUME NEW d, IsDetector(d), NEW x, NEW n, NEW m
  PROVE  Recorded(d, RecordIfVote(d, x, n, m), GetValidatorIndex(n, x.scenario), n, m,
                  m.type = "VOTE")
<1>1. CASE m.type = "VOTE"
  <2>1. RecordIfVote(d, x, n, m) = RecordVote(d, n, GetValidatorIndex(n, x.scenario), m.view, m.block)
    BY <1>1 DEF RecordIfVote
  <2> DEFINE e == RecordVote(d, n, GetValidatorIndex(n, x.scenario), m.view, m.block)
  <2>2. Recorded(d, e, GetValidatorIndex(n, x.scenario), n, m, TRUE)
    BY RecordVoteRecords
  <2> HIDE DEF e
  <2>3. Recorded(d, e, GetValidatorIndex(n, x.scenario), n, m, m.type = "VOTE")
    BY <2>2, <1>1 DEF Recorded
  <2> QED BY <2>1, <2>3 DEF e
<1>2. CASE m.type # "VOTE"
  BY <1>2 DEF RecordIfVote, Recorded
<1> QED BY <1>1, <1>2

Kept(x, y) ==
  /\ IsNetwork(y)
  /\ y.scenario = x.scenario
  /\ y.interceptor = x.interceptor
  /\ y.silent = x.silent

Records(x, n, m) == m.type = "VOTE" /\ x.interceptor[n] \in {"DoubleSign", "Random", "Delay"}

\* An interceptor changes nothing of the network but its own state, and shows
\* the detector the votes of its node, also those it drops or delays.
LEMMA InterceptRecords ==
  ASSUME NEW x, IsNetwork(x), NEW d, IsDetector(d), NEW n, NEW m,
         NEW e \in InterceptOutgoing(x, d, n, m)
  PROVE  /\ Kept(x, e.net) /\ e.net.heard = x.heard
         /\ Recorded(d, e.detector, GetValidatorIndex(n, x.scenario), n, m, Records(x, n, m))
<1> DEFINE index == GetValidatorIndex(n, x.scenario)
<1> DEFINE recorded == RecordIfVote(d, x, n, m)
<1>1. Recorded(d, recorded, index, n, m, m.type = "VOTE")
  BY RecordIfVoteRecords
<1>2. Kept(x, x)
  BY DEF Kept
<1>3. Recorded(d, d, index, n, m, FALSE)
  BY DEF Recorded
<1>4. CASE x.interceptor[n] = "DoubleSign"
  <2>1. e \in InterceptDoubleSign(x, d, n, m)
    BY <1>4 DEF InterceptOutgoing
  <2>2. CASE m.type # "VOTE" \/ m.view \in x.doubleSigned[n]
    <3>1. e.net = x /\ e.detector = recorded
      BY <2>1, <2>2 DEF InterceptDoubleSign, Effect
    <3>2. Records(x, n, m) = (m.type = "VOTE")
      BY <1>4 DEF Records
    <3> QED BY <3>1, <3>2, <1>1, <1>2
  <2>3. CASE m.type = "VOTE" /\ m.view \notin x.doubleSigned[n]
    <3> DEFINE seen == RecordVote(d, n, index, m.view, m.block)
    <3>1. /\ e.net = [x EXCEPT !.doubleSigned[n] = x.doubleSigned[n] \cup {m.view}]
          /\ e.detector = RecordConflictingVote(recorded, n, index, m.view, m.block)
      BY <2>1, <2>3 DEF InterceptDoubleSign, Effect
    <3>2. Kept(x, e.net) /\ e.net.heard = x.heard
      BY <3>1 DEF IsNetwork, Kept
    <3>3. recorded = seen
      BY <2>3 DEF RecordIfVote
    <3>4. Recorded(d, e.detector, index, n, m, TRUE)
      <4>1. Recorded(d, RecordConflictingVote(seen, n, index, m.view, m.block), index, n, m, TRUE)
        BY ConflictingVoteRecords
      <4> QED BY <3>1, <3>3, <4>1
    <3>5. Records(x, n, m) = TRUE
      BY <1>4, <2>3 DEF Records
    <3> QED BY <3>2, <3>4, <3>5
  <2> QED BY <2>2, <2>3
<1>5. CASE x.interceptor[n] = "Equivocation"
  <2>1. e.net = x /\ e.detector = d
    BY <1>5 DEF InterceptOutgoing, InterceptEquivocation, Effect
  <2>2. Records(x, n, m) = FALSE
    BY <1>5 DEF Records
  <2> QED BY <2>1, <2>2, <1>2, <1>3
<1>6. CASE x.interceptor[n] = "Random"
  <2>1. e.net = x /\ e.detector = recorded
    BY <1>6 DEF InterceptOutgoing, InterceptRandom, Effect
  <2>2. Records(x, n, m) = (m.type = "VOTE")
    BY <1>6 DEF Records
  <2> QED BY <2>1, <2>2, <1>1, <1>2
<1>7. CASE x.interceptor[n] = "Delay"
  <2>1. e \in InterceptDelay(x, d, n, m)
    BY <1>7 DEF InterceptOutgoing
  <2> DEFINE counted == Counted(x, n)
  <2>2. PICK queue : e = Release(counted, recorded, n, queue)
    <3>1. PICK delay \in MinDelay .. MaxDelay : e \in DelayFor(counted, recorded, n, m, delay)
      BY <2>1 DEF InterceptDelay
    <3> HIDE DEF counted, recorded
    <3> QED BY <3>1 DEF DelayFor
  <2>3. /\ e.net = [counted EXCEPT !.delayed[n] = Waiting(queue, counted.count[n])]
        /\ e.detector = recorded
    BY <2>2 DEF Release, Effect
  <2>4. Kept(x, counted) /\ counted.heard = x.heard
    BY DEF Counted, IsNetwork, Kept
  <2> HIDE DEF counted
  <2>5. Kept(counted, e.net) /\ e.net.heard = counted.heard
    BY <2>3, <2>4 DEF IsNetwork, Kept
  <2>6. Records(x, n, m) = (m.type = "VOTE")
    BY <1>7 DEF Records
  <2> QED BY <2>3, <2>4, <2>5, <2>6, <1>1 DEF Kept
<1>8. CASE x.interceptor[n] \notin {"DoubleSign", "Equivocation", "Random", "Delay"}
  <2>1. e.net = x /\ e.detector = d
    BY <1>8 DEF InterceptOutgoing, Effect
  <2>2. Records(x, n, m) = FALSE
    BY <1>8 DEF Records
  <2> QED BY <2>1, <2>2, <1>2, <1>3
<1> QED BY <1>4, <1>5, <1>6, <1>7, <1>8

\* What a node hears of n crossed no partition.
LEMMA SendHolds ==
  ASSUME NEW x, IsNetwork(x), NEW n, NEW outs, NEW dropped,
         NEW N, N = Nodes(x.scenario), n \in N, x.heard \in [N -> SUBSET N]
  PROVE  LET y == Send(x, n, outs, dropped)
         IN  /\ Kept(x, y)
             /\ y.heard \in [N -> SUBSET N]
             /\ \A to \in N : \A from \in y.heard[to] :
                  from \in x.heard[to] \/ (from = n /\ ~IsPartitioned(x.scenario, n, to))
<1> DEFINE places == [to \in N |-> Arriving(x, n, outs, dropped, to)]
<1> DEFINE y == Send(x, n, outs, dropped)
<1>1. PICK channel :
        y = [x EXCEPT !.channel = channel,
                      !.heard = [to \in DOMAIN x.heard |->
                                   IF places[to] # {} THEN x.heard[to] \cup {n} ELSE x.heard[to]]]
  BY DEF Send
<1> DEFINE heard == [to \in N |-> IF places[to] # {} THEN x.heard[to] \cup {n} ELSE x.heard[to]]
<1>2. y = [x EXCEPT !.channel = channel, !.heard = heard]
  BY <1>1
<1> HIDE DEF y, heard
<1>3. Kept(x, y) /\ y.heard = heard
  BY <1>2 DEF IsNetwork, Kept
<1>4. \A to \in N : places[to] # {} => ~IsPartitioned(x.scenario, n, to)
  BY DEF Arriving, Reaches
<1> HIDE DEF places
<1> QED BY <1>3, <1>4 DEF heard, y

\* The same of a whole broadcast, of which a silent node makes nothing.
LEMMA BroadcastRecords ==
  ASSUME NetworkOK, NEW d, IsDetector(d), NEW n \in Nodes(scenario), NEW m,
         NEW e \in Broadcast(net, d, n, m)
  PROVE  /\ Kept(net, e.net)
         /\ e.net.heard \in [Nodes(scenario) -> SUBSET Nodes(scenario)]
         /\ \A to \in Nodes(scenario) : \A from \in e.net.heard[to] :
              ~IsPartitioned(scenario, from, to)
         /\ Recorded(d, e.detector, GetValidatorIndex(n, scenario), n, m, Records(net, n, m))
<1> DEFINE N == Nodes(scenario)
<1>1. /\ IsNetwork(net) /\ net.scenario = scenario
      /\ net.heard \in [N -> SUBSET N]
      /\ \A to \in N : \A from \in net.heard[to] : ~IsPartitioned(scenario, from, to)
  BY DEF NetworkOK
<1>2. CASE n \in net.silent
  <2>1. e.net = net /\ e.detector = d
    BY <1>2 DEF Broadcast
  <2>2. Records(net, n, m) = FALSE
    BY <1>2 DEF Records, NetworkOK
  <2>3. Recorded(d, d, GetValidatorIndex(n, scenario), n, m, FALSE)
    BY DEF Recorded
  <2> QED BY <1>1, <2>1, <2>2, <2>3 DEF Kept
<1>3. CASE n \notin net.silent
  <2>1. PICK f \in InterceptOutgoing(net, d, n, m) :
          \E dropped : e = [net |-> Send(f.net, n, f.outs, dropped), detector |-> f.detector,
                            outs |-> f.outs]
    BY <1>3 DEF Broadcast
  <2>2. PICK dropped : e.net = Send(f.net, n, f.outs, dropped) /\ e.detector = f.detector
    BY <2>1
  <2>3. /\ Kept(net, f.net) /\ f.net.heard = net.heard
        /\ Recorded(d, f.detector, GetValidatorIndex(n, scenario), n, m, Records(net, n, m))
    BY <1>1, InterceptRecords
  <2>4. IsNetwork(f.net) /\ f.net.scenario = scenario
    BY <1>1, <2>3 DEF Kept
  <2> DEFINE y == Send(f.net, n, f.outs, dropped)
  <2>5. /\ Kept(f.net, y)
        /\ y.heard \in [N -> SUBSET N]
        /\ \A to \in N : \A from \in y.heard[to] :
             from \in f.net.heard[to] \/ (from = n /\ ~IsPartitioned(scenario, n, to))
    BY <1>1, <2>3, <2>4, SendHolds
  <2> HIDE DEF y
  <2>6. e.net = y
    BY <2>2 DEF y
  <2>7. Kept(net, y)
    BY <2>3, <2>5 DEF Kept
  <2> QED BY <1>1, <2>2, <2>3, <2>5, <2>6, <2>7
<1> QED BY <1>2, <1>3

-----------------------------------------------------------------------------
(* The invariant *)

\* A node that broadcasts.
LEMMA SayStep ==
  ASSUME IInv, Created, NEW n \in Nodes(scenario), NEW m, Say(n, m)
  PROVE  /\ NetworkOK' /\ IsDetector(detector') /\ VotesOK'
         /\ DOMAIN node' = Nodes(scenario) /\ CommitsOK'
<1> USE DEF IInv
<1>1. PICK e \in Broadcast(net, detector, n, m) : net' = e.net /\ detector' = e.detector
  BY DEF Say
<1>2. /\ scenario' = scenario
      /\ node' = [node EXCEPT ![n].said = node[n].said \cup {m}]
      /\ observed' = IF Records(net, n, m) THEN observed \cup {<<n, m>>} ELSE observed
  BY DEF Say, RecordsVotes, Records
<1> DEFINE index == GetValidatorIndex(n, scenario)
<1> DEFINE records == Records(net, n, m)
<1>3. /\ Kept(net, net')
      /\ net'.heard \in [Nodes(scenario) -> SUBSET Nodes(scenario)]
      /\ \A to \in Nodes(scenario) : \A from \in net'.heard[to] :
           ~IsPartitioned(scenario, from, to)
      /\ Recorded(detector, detector', index, n, m, records)
  BY <1>1, BroadcastRecords
<1>4. NetworkOK'
  BY <1>2, <1>3 DEF NetworkOK, Kept
<1>5. VotesOK'
  <2> DEFINE vote == VoteRecord(n, m)
  <2>1. detector'.votes = IF records THEN detector.votes \cup {vote} ELSE detector.votes
    BY <1>3 DEF Recorded, VoteRecord
  <2>2. \A k, l : VoteRecord(k, l)' = VoteRecord(k, l)
    BY <1>2 DEF VoteRecord
  <2>3. detector'.votes = {VoteRecord(x[1], x[2])' : x \in observed'}
    <3>1. detector.votes = {VoteRecord(x[1], x[2]) : x \in observed}
      BY DEF VotesOK
    <3>2. {VoteRecord(x[1], x[2])' : x \in observed'} = {VoteRecord(x[1], x[2]) : x \in observed'}
      BY <2>2
    <3>3. CASE records
      <4>1. observed' = observed \cup {<<n, m>>} /\ detector'.votes = detector.votes \cup {vote}
        BY <1>2, <2>1, <3>3
      <4>2. vote = VoteRecord(<<n, m>>[1], <<n, m>>[2])
        OBVIOUS
      <4> QED BY <3>1, <3>2, <4>1, <4>2
    <3>4. CASE ~records
      BY <1>2, <2>1, <3>1, <3>2, <3>4
    <3> QED BY <3>3, <3>4
  <2>4. ASSUME NEW i, NEW view
        PROVE  DoubleVote(i, view) \in detector'.violations
               <=> \E x, y \in detector'.votes :
                     x.index = i /\ y.index = i /\ x.view = view /\ y.view = view /\ x.block # y.block
    <3>1. DoubleVote(i, view) \in detector.violations
          <=> \E x, y \in detector.votes :
                x.index = i /\ y.index = i /\ x.view = view /\ y.view = view /\ x.block # y.block
      BY DEF VotesOK
    <3>2. DoubleVote(i, view) \in detector'.violations
          <=> \/ DoubleVote(i, view) \in detector.violations
              \/ /\ records /\ i = index /\ view = m.view
                 /\ \E x \in detector.votes : x.index = i /\ x.view = view /\ x.block # m.block
      BY <1>3 DEF Recorded
    <3>3. vote.index = index /\ vote.view = m.view /\ vote.block = m.block
      BY DEF VoteRecord
    <3> HIDE DEF vote, index, records
    <3>4. CASE records
      BY <2>1, <3>1, <3>2, <3>3, <3>4
    <3>5. CASE ~records
      BY <2>1, <3>1, <3>2, <3>5
    <3> QED BY <3>4, <3>5
  <2> QED BY <2>3, <2>4 DEF VotesOK, DoubleVote
<1>6. DOMAIN node' = Nodes(scenario) /\ CommitsOK'
  <2>1. \A k \in Nodes(scenario) : IsNode(node'[k]) /\ node'[k].committed = node[k].committed
    BY <1>2 DEF CommitsOK, IsNode
  <2>2. detector'.committed = detector.committed
    BY <1>3 DEF Recorded
  <2>3. (\E v \in detector'.violations : Fork(v)) <=> \E v \in detector.violations : Fork(v)
    BY <1>3 DEF Recorded
  <2>4. DOMAIN node' = Nodes(scenario)
    BY <1>2
  <2>5. \A k \in Nodes(scenario) : CommitRecords(k)' = CommitRecords(k)
    BY <2>1 DEF CommitRecords
  <2>6. detector'.committed = UNION {CommitRecords(k)' : k \in Nodes(scenario)}
    BY <2>2, <2>5 DEF CommitsOK
  <2> QED BY <1>2, <2>1, <2>2, <2>3, <2>4, <2>6 DEF CommitsOK, Fork
<1> QED BY <1>3, <1>4, <1>5, <1>6 DEF Recorded

\* A commit is compared with all those before it.
LEMMA RecordCommitRecords ==
  ASSUME NEW d, IsDetector(d), NEW n, NEW height, NEW block, NEW e,
         e = RecordCommit(d, n, height, block)
  PROVE  /\ IsDetector(e)
         /\ e.votes = d.votes
         /\ e.committed = d.committed \cup {[node |-> n, height |-> height, block |-> block]}
         /\ \A i, view : DoubleVote(i, view) \in e.violations <=> DoubleVote(i, view) \in d.violations
         /\ (\E v \in e.violations : Fork(v))
              <=> \/ \E v \in d.violations : Fork(v)
                  \/ \E x \in d.committed : x.height = height /\ x.block # block
<1> DEFINE conflicts == \E x \in d.committed : x.height = height /\ x.block # block
<1> DEFINE fork == [type |-> "Fork", height |-> height]
<1> DEFINE committed == d.committed \cup {[node |-> n, height |-> height, block |-> block]}
<1> DEFINE violations == IF conflicts THEN d.violations \cup {fork} ELSE d.violations
<1>1. e = [d EXCEPT !.committed = committed, !.violations = violations]
  BY DEF RecordCommit
<1> HIDE DEF committed, violations
<1>2. IsDetector(e) /\ e.votes = d.votes /\ e.committed = committed /\ e.violations = violations
  BY <1>1 DEF IsDetector
<1>3. Fork(fork) /\ \A i, view : DoubleVote(i, view) # fork
  BY DEF Fork, DoubleVote
<1> HIDE DEF fork
<1>4. CASE conflicts
  BY <1>2, <1>3, <1>4 DEF committed, violations
<1>5. CASE ~conflicts
  BY <1>2, <1>5 DEF committed, violations
<1> QED BY <1>4, <1>5

LEMMA CommitStep ==
  ASSUME IInv, Created, NEW n \in Nodes(scenario), Commit(n)
  PROVE  /\ NetworkOK' /\ IsDetector(detector') /\ VotesOK'
         /\ DOMAIN node' = Nodes(scenario) /\ CommitsOK'
<1> USE DEF IInv
<1> DEFINE before == node[n].committed
<1>1. PICK height \in Heights, b \in Blocks :
        /\ node' = [node EXCEPT ![n].committed =
                     before \cup {[height |-> height, block |-> b]}]
        /\ detector' = RecordCommit(detector, n, height, b)
  BY DEF Commit
<1>2. UNCHANGED <<scenario, net, observed>>
  BY DEF Commit
<1> DEFINE record == [node |-> n, height |-> height, block |-> b]
<1>3. /\ IsDetector(detector')
      /\ detector'.votes = detector.votes
      /\ detector'.committed = detector.committed \cup {record}
      /\ \A i, view : DoubleVote(i, view) \in detector'.violations
                      <=> DoubleVote(i, view) \in detector.violations
      /\ (\E v \in detector'.violations : Fork(v))
           <=> \/ \E v \in detector.violations : Fork(v)
               \/ \E x \in detector.committed : x.height = height /\ x.block # b
  BY <1>1, RecordCommitRecords
<1>4. NetworkOK'
  BY <1>2 DEF NetworkOK, IsNetwork
<1>5. VotesOK'
  <2>1. \A k, l : VoteRecord(k, l)' = VoteRecord(k, l)
    BY <1>2 DEF VoteRecord
  <2>2. {VoteRecord(x[1], x[2])' : x \in observed'} = {VoteRecord(x[1], x[2]) : x \in observed}
    BY <1>2, <2>1
  <2> QED BY <1>3, <2>2 DEF VotesOK, DoubleVote
<1> DEFINE new == [height |-> height, block |-> b]
<1>6. IsNode(node[n])
  BY DEF CommitsOK
<1>7. /\ DOMAIN node' = Nodes(scenario)
      /\ \A k \in Nodes(scenario) : IsNode(node'[k])
      /\ node'[n].committed = before \cup {new}
      /\ \A k \in Nodes(scenario) : k # n => node'[k] = node[k]
  <2> DEFINE after == before \cup {new}
  <2>1. \A k \in Nodes(scenario) : IsNode(node[k])
    BY DEF CommitsOK
  <2>2. /\ DOMAIN node' = Nodes(scenario)
        /\ node'[n] = [node[n] EXCEPT !.committed = after]
        /\ \A k \in Nodes(scenario) : k # n => node'[k] = node[k]
    BY <1>1
  <2> HIDE DEF after
  <2>3. IsNode(node'[n]) /\ node'[n].committed = after
    BY <1>6, <2>2 DEF IsNode
  <2> QED BY <2>1, <2>2, <2>3 DEF after
<1>8. CommitRecords(n)' = CommitRecords(n) \cup {record}
  <2> DEFINE Record(x) == [node |-> n, height |-> x.height, block |-> x.block]
  <2>1. Record(new) = record
    OBVIOUS
  <2>2. CommitRecords(n) = {Record(x) : x \in before}
    BY DEF CommitRecords
  <2>3. CommitRecords(n)' = {Record(x) : x \in before \cup {new}}
    BY <1>7 DEF CommitRecords
  <2> HIDE DEF Record, record, new, before
  <2> QED BY ONLY <2>1, <2>2, <2>3
<1>9. CommitsOK'
  <2>1. \A k \in Nodes(scenario) : k # n => CommitRecords(k)' = CommitRecords(k)
    BY <1>7 DEF CommitRecords
  <2>2. detector.committed = UNION {CommitRecords(k) : k \in Nodes(scenario)}
    BY DEF CommitsOK
  <2> HIDE DEF record
  <2>3. detector'.committed = UNION {CommitRecords(k)' : k \in Nodes(scenario)}
    BY <1>3, <1>8, <2>1, <2>2
  <2>4. record.height = height /\ record.block = b
    BY DEF record
  <2>5. (\E x, y \in detector'.committed : x.height = y.height /\ x.block # y.block)
        <=> \/ \E x, y \in detector.committed : x.height = y.height /\ x.block # y.block
            \/ \E x \in detector.committed : x.height = height /\ x.block # b
    BY <1>3, <2>4
  <2>6. (\E v \in detector'.violations : Fork(v))
        <=> \E x, y \in detector'.committed : x.height = y.height /\ x.block # y.block
    BY <1>3, <2>5 DEF CommitsOK
  <2> QED BY <1>2, <1>7, <2>3, <2>6 DEF CommitsOK, Fork
<1> QED BY <1>3, <1>4, <1>5, <1>7, <1>9

\* The detector and what the nodes committed stay as they are.
LEMMA QuietStep ==
  ASSUME IInv, Created, UNCHANGED <<scenario, detector, observed>>, NetworkOK',
         DOMAIN node' = Nodes(scenario),
         \A n \in Nodes(scenario) : IsNode(node'[n]) /\ node'[n].committed = node[n].committed
  PROVE  /\ IsDetector(detector') /\ VotesOK' /\ CommitsOK'
<1> USE DEF IInv
<1>1. VotesOK'
  <2>1. \A k, l : VoteRecord(k, l)' = VoteRecord(k, l)
    BY DEF VoteRecord
  <2>2. {VoteRecord(x[1], x[2])' : x \in observed'} = {VoteRecord(x[1], x[2]) : x \in observed}
    BY <2>1
  <2> QED BY <2>2 DEF VotesOK, DoubleVote
<1>2. \A k \in Nodes(scenario) : CommitRecords(k)' = CommitRecords(k)
  BY DEF CommitRecords
<1>3. detector'.committed = UNION {CommitRecords(k)' : k \in Nodes(scenario)}
  BY <1>2 DEF CommitsOK
<1> QED BY <1>1, <1>3 DEF CommitsOK, Fork, IsDetector

LEMMA NewExecutorStep ==
  ASSUME IInv, NewExecutor
  PROVE  IInv'
<1>1. CASE phase' = "rejected"
  BY <1>1 DEF NewExecutor, IInv, Created, Phases
<1>2. CASE phase' = "created"
  <2>1. /\ scenario' = scenario /\ observed' = {}
        /\ net' = NewTwinsNetwork(scenario)
        /\ detector' = NewViolationDetector
        /\ node' = [n \in Nodes(scenario) |-> NewNode]
    BY <1>2 DEF NewExecutor, IInv, Created
  <2>2. NetworkOK'
    BY <2>1 DEF NetworkOK, IsNetwork, NewTwinsNetwork
  <2>3. /\ IsDetector(detector') /\ detector'.votes = {} /\ detector'.committed = {}
        /\ detector'.violations = {}
    BY <2>1 DEF NewViolationDetector, IsDetector
  <2>4. VotesOK'
    BY <2>1, <2>3 DEF VotesOK
  <2>5. DOMAIN node' = Nodes(scenario)' /\ \A n \in Nodes(scenario) : IsNode(node'[n])
    BY <2>1 DEF NewNode, IsNode
  <2>6. \A n \in Nodes(scenario) : CommitRecords(n)' = {}
    BY <2>1 DEF NewNode, CommitRecords
  <2>7. CommitsOK'
    BY <2>1, <2>3, <2>5, <2>6 DEF CommitsOK
  <2> QED BY <1>2, <2>2, <2>3, <2>4, <2>5, <2>7 DEF IInv, Created, Phases
<1> QED BY <1>1, <1>2 DEF NewExecutor

LEMMA IInvInit == Init => IInv
BY DEF Init, IInv, Created, Phases

LEMMA IInvStep ==
  IInv /\ [Next]_vars => IInv'
<1> SUFFICES ASSUME IInv, [Next]_vars PROVE IInv'
  OBVIOUS
<1> DEFINE Good == /\ NetworkOK /\ IsDetector(detector) /\ VotesOK
                   /\ DOMAIN node = Nodes(scenario) /\ CommitsOK
<1>1. ASSUME Created, NEW n \in Nodes(scenario), NEW m, Say(n, m), phase' = phase, phase # "closed"
      PROVE  IInv'
  <2>1. Good'
    BY <1>1, SayStep DEF Say
  <2> QED BY <1>1, <2>1 DEF IInv, Created
\* The detector, the nodes' commits and the observed votes stay.
<1>2. ASSUME Created, UNCHANGED <<scenario, detector, observed>>, NetworkOK',
             DOMAIN node' = Nodes(scenario),
             \A n \in Nodes(scenario) : IsNode(node'[n]) /\ node'[n].committed = node[n].committed,
             phase' \in Phases \ {"new", "rejected"},
             phase' = "closed" => result'.violations = detector.violations
      PROVE  IInv'
  <2>1. Good'
    BY <1>2, QuietStep
  <2> QED BY <1>2, <2>1 DEF IInv, Created
<1>3. ASSUME Created, UNCHANGED <<scenario, net, detector, node, observed>>,
             phase' \in Phases \ {"new", "rejected"},
             phase' = "closed" => result'.violations = detector.violations
      PROVE  IInv'
  <2>1. NetworkOK'
    BY <1>3 DEF IInv, NetworkOK, IsNetwork
  <2>2. /\ DOMAIN node' = Nodes(scenario)
        /\ \A n \in Nodes(scenario) : IsNode(node'[n]) /\ node'[n].committed = node[n].committed
    BY <1>3 DEF IInv, CommitsOK
  <2> QED BY <1>2, <1>3, <2>1, <2>2
<1>4. CASE NewExecutor
  BY <1>4, NewExecutorStep
<1>5. CASE Start
  BY <1>3, <1>5 DEF Start, Created, Phases
<1>6. CASE Run
  BY <1>3, <1>6 DEF Run, Created, Phases
<1>7. CASE TargetReached
  BY <1>3, <1>7 DEF TargetReached, Created, Phases
<1>8. CASE TimeOut
  BY <1>3, <1>8 DEF TimeOut, Created, Phases
<1>9. CASE Finish
  <2>1. result'.violations = detector.violations
    BY <1>9 DEF Finish
  <2> QED BY <1>3, <1>9, <2>1 DEF Finish, Created, Phases
<1>10. ASSUME NEW n \in Nodes(scenario), ApplyByzantineBehavior(n)
       PROVE  IInv'
  <2>1. /\ Created /\ IsNetwork(net) /\ ~HasBehavior(n) /\ Behave(n)
        /\ UNCHANGED <<scenario, phase, detector, node, result, observed, left>>
        /\ phase = "started"
    BY <1>10 DEF ApplyByzantineBehavior, IInv, Created, NetworkOK
  <2>2. NetworkOK'
    <3>1. NetworkOK
      BY <2>1 DEF IInv
    <3>2. CASE scenario.Behavior = "Silent"
      <4>1. net' = [net EXCEPT !.silent = net.silent \cup {n}]
        BY <2>1, <3>2 DEF Behave
      <4> QED BY <2>1, <3>1, <4>1 DEF NetworkOK, IsNetwork, HasBehavior
    <3>3. CASE scenario.Behavior = "Honest"
      BY <2>1, <3>1, <3>3 DEF Behave, NetworkOK, IsNetwork
    <3>4. CASE scenario.Behavior \notin {"Silent", "Honest"}
      <4> DEFINE interceptor == [net.interceptor EXCEPT ![n] = scenario.Behavior]
      <4>1. net' = [net EXCEPT !.interceptor = interceptor]
        BY <2>1, <3>4 DEF Behave
      <4>2. interceptor \in [Nodes(scenario) -> {scenario.Behavior, "none"}]
        BY <3>1 DEF NetworkOK
      <4>3. n \notin net.silent
        BY <2>1 DEF HasBehavior
      <4>4. \A k \in Nodes(scenario) : k # n => interceptor[k] = net.interceptor[k]
        BY <3>1 DEF NetworkOK
      <4> HIDE DEF interceptor
      <4>5. /\ IsNetwork(net') /\ net'.interceptor = interceptor /\ net'.scenario = net.scenario
            /\ net'.silent = net.silent /\ net'.heard = net.heard
        BY <2>1, <4>1 DEF IsNetwork
      <4> QED BY <2>1, <3>1, <4>2, <4>3, <4>4, <4>5 DEF NetworkOK
    <3> QED BY <3>2, <3>3, <3>4
  <2>3. /\ DOMAIN node' = Nodes(scenario)
        /\ \A k \in Nodes(scenario) : IsNode(node'[k]) /\ node'[k].committed = node[k].committed
    BY <2>1 DEF IInv, CommitsOK
  <2> QED BY <1>2, <2>1, <2>2, <2>3 DEF Phases
<1>11. ASSUME NEW n \in Nodes(scenario), Propose(n)
       PROVE  IInv'
  BY <1>1, <1>11 DEF Propose, Say, Created
<1>12. ASSUME NEW n \in Nodes(scenario), Vote(n)
       PROVE  IInv'
  BY <1>1, <1>12 DEF Vote, Say, Created
<1>13. ASSUME NEW n \in Nodes(scenario), Receive(n)
       PROVE  IInv'
  <2>1. Created /\ phase' = phase /\ phase # "closed" /\ phase \in Phases
    BY <1>13 DEF Receive, Created, Phases
  <2>2. PICK got : node' = [node EXCEPT ![n].got = got]
    BY <1>13 DEF Receive
  <2>3. /\ net' = [net EXCEPT !.channel[n] = Tail(net.channel[n])]
        /\ UNCHANGED <<scenario, detector, observed>>
    BY <1>13 DEF Receive
  <2>4. NetworkOK'
    BY <2>1, <2>3 DEF IInv, NetworkOK, IsNetwork
  <2>5. /\ DOMAIN node' = Nodes(scenario)
        /\ \A k \in Nodes(scenario) : IsNode(node'[k]) /\ node'[k].committed = node[k].committed
    BY <2>1, <2>2 DEF IInv, CommitsOK, IsNode
  <2> QED BY <1>2, <2>1, <2>3, <2>4, <2>5 DEF Created
<1>14. ASSUME NEW n \in Nodes(scenario), Commit(n)
       PROVE  IInv'
  <2>1. Created /\ phase' = phase /\ phase # "closed" /\ scenario' = scenario /\ observed' = observed
    BY <1>14 DEF Commit, Created
  <2>2. Good'
    BY <1>14, <2>1, CommitStep
  <2> QED BY <2>1, <2>2 DEF IInv, Created
<1>15. CASE UNCHANGED vars
  <2>1. CASE Created
    BY <1>3, <1>15, <2>1 DEF vars, IInv, Created
  <2>2. CASE ~Created
    BY <1>15, <2>2 DEF vars, IInv, Created
  <2> QED BY <2>1, <2>2
<1> QED
  BY <1>4, <1>5, <1>6, <1>7, <1>8, <1>9, <1>10, <1>11, <1>12, <1>13, <1>14, <1>15 DEF Next

\* The invariant of the executor: the detector knows the observed votes and
\* the commits, and has reported the conflicts among them.
THEOREM TwinsInvariant == Spec => []IInv
<1>1. IInv /\ [Next]_vars => IInv'
  BY IInvStep
<1> QED BY <1>1, IInvInit, PTL DEF Spec

-----------------------------------------------------------------------------
(* What is reported *)

\* A run's result names a fork exactly if two nodes committed different blocks
\* at a height (detector.RecordCommit, executor.buildResult).
THEOREM ForksAreReported == Spec => []ForksReported
<1>1. ASSUME IInv PROVE ForksReported
  <2>1. SUFFICES ASSUME phase = "closed"
                 PROVE  (\E x \in detector.violations : Fork(x))
                        <=> \E m, n \in Nodes(scenario) :
                              \E x \in node[m].committed, y \in node[n].committed :
                                x.height = y.height /\ x.block # y.block
    BY <1>1 DEF ForksReported, IInv, Fork
  <2>2. /\ detector.committed = UNION {CommitRecords(n) : n \in Nodes(scenario)}
        /\ (\E v \in detector.violations : Fork(v))
             <=> \E x, y \in detector.committed : x.height = y.height /\ x.block # y.block
    BY <1>1, <2>1 DEF IInv, Created, CommitsOK
  <2>3. ASSUME NEW x \in detector.committed, NEW y \in detector.committed,
               x.height = y.height, x.block # y.block
        PROVE  \E m, n \in Nodes(scenario) :
                 \E k \in node[m].committed, l \in node[n].committed :
                   k.height = l.height /\ k.block # l.block
    <3>1. PICK m \in Nodes(scenario) : x \in CommitRecords(m)
      BY <2>2
    <3>2. PICK n \in Nodes(scenario) : y \in CommitRecords(n)
      BY <2>2
    <3>3. PICK k \in node[m].committed : x.height = k.height /\ x.block = k.block
      BY <3>1 DEF CommitRecords
    <3>4. PICK l \in node[n].committed : y.height = l.height /\ y.block = l.block
      BY <3>2 DEF CommitRecords
    <3>5. k.height = l.height /\ k.block # l.block
      BY <2>3, <3>3, <3>4
    <3> QED BY <3>5
  <2>4. ASSUME NEW m \in Nodes(scenario), NEW n \in Nodes(scenario),
               NEW k \in node[m].committed, NEW l \in node[n].committed,
               k.height = l.height, k.block # l.block
        PROVE  \E x, y \in detector.committed : x.height = y.height /\ x.block # y.block
    <3> DEFINE x == [node |-> m, height |-> k.height, block |-> k.block]
               y == [node |-> n, height |-> l.height, block |-> l.block]
    <3>1. x \in CommitRecords(m) /\ y \in CommitRecords(n)
      BY DEF CommitRecords
    <3>2. x \in detector.committed /\ y \in detector.committed
      BY <2>2, <3>1
    <3>3. x.height = y.height /\ x.block # y.block
      BY <2>4
    <3> QED BY <3>2, <3>3
  <2> QED BY <2>2, <2>3, <2>4
<1> QED BY <1>1, TwinsInvariant, PTL

\* A double vote is reported exactly if twins voted so where interceptors see
\* it (detector.recordVoteInternal).
THEOREM DoubleSignsAreCaught == Spec => []DoubleSignsCaught
<1>1. ASSUME IInv PROVE DoubleSignsCaught
  <2> SUFFICES ASSUME Created, NEW n \in Nodes(scenario), NEW view \in LedViews
               PROVE  LET index == GetValidatorIndex(n, scenario)
                          votes == {x \in observed : GetValidatorIndex(x[1], scenario) = index
                                                     /\ x[2].view = view}
                      IN  DoubleVote(index, view) \in detector.violations
                          <=> \E x, y \in votes : x[2].block # y[2].block
    BY Zenon DEF DoubleSignsCaught, DoubleVote
  <2> DEFINE index == GetValidatorIndex(n, scenario)
  <2> DEFINE votes == {x \in observed : GetValidatorIndex(x[1], scenario) = index /\ x[2].view = view}
  <2>1. /\ votes \subseteq observed
        /\ \A x \in observed :
             x \in votes <=> GetValidatorIndex(x[1], scenario) = index /\ x[2].view = view
    OBVIOUS
  <2> HIDE DEF index, votes
  <2>2. /\ detector.votes = {VoteRecord(x[1], x[2]) : x \in observed}
        /\ DoubleVote(index, view) \in detector.violations
           <=> \E x, y \in detector.votes :
                 /\ x.index = index /\ y.index = index
                 /\ x.view = view /\ y.view = view
                 /\ x.block # y.block
    BY <1>1 DEF IInv, VotesOK
  <2>3. \A x : LET vote == VoteRecord(x[1], x[2])
               IN  /\ vote.index = GetValidatorIndex(x[1], scenario)
                   /\ vote.view = x[2].view
                   /\ vote.block = x[2].block
    BY DEF VoteRecord
  <2>4. ASSUME NEW x \in votes, NEW y \in votes, x[2].block # y[2].block
        PROVE  \E v, w \in detector.votes :
                 /\ v.index = index /\ w.index = index
                 /\ v.view = view /\ w.view = view
                 /\ v.block # w.block
    <3>1. VoteRecord(x[1], x[2]) \in detector.votes /\ VoteRecord(y[1], y[2]) \in detector.votes
      BY <2>1, <2>2
    <3> DEFINE v == VoteRecord(x[1], x[2])
    <3> DEFINE w == VoteRecord(y[1], y[2])
    <3>2. /\ v.index = index /\ v.view = view /\ v.block = x[2].block
          /\ w.index = index /\ w.view = view /\ w.block = y[2].block
      BY <2>1, <2>3, <2>4
    <3> HIDE DEF v, w
    <3>3. v \in detector.votes /\ w \in detector.votes
      BY <3>1 DEF v, w
    <3> QED BY <2>4, <3>2, <3>3
  <2>5. ASSUME NEW v \in detector.votes, NEW w \in detector.votes,
               v.index = index, w.index = index, v.view = view, w.view = view, v.block # w.block
        PROVE  \E x, y \in votes : x[2].block # y[2].block
    <3>1. PICK x \in observed : v = VoteRecord(x[1], x[2])
      BY <2>2
    <3>2. PICK y \in observed : w = VoteRecord(y[1], y[2])
      BY <2>2
    <3>3. x \in votes /\ y \in votes
      BY <2>1, <2>3, <2>5, <3>1, <3>2
    <3> QED BY <2>3, <2>5, <3>1, <3>2, <3>3
  <2> QED BY <2>2, <2>4, <2>5 DEF index, votes
<1> QED BY <1>1, TwinsInvariant, PTL

\* No message crosses a partition, also one an interceptor sends to a single
\* node (network.sendToInternal).
THEOREM NothingCrosses == Spec => []PartitionsHold
<1>1. IInv => PartitionsHold
  BY DEF IInv, NetworkOK, PartitionsHold
<1> QED BY <1>1, TwinsInvariant, PTL

-----------------------------------------------------------------------------
(* Sequences, read at a set of places *)

LEMMA LeastNumber ==
  ASSUME NEW S \in SUBSET Nat, S # {}
  PROVE  \E n \in S : \A m \in S : n <= m
<1> DEFINE R == OpToRel(<, Nat)
<1>1. IsWellFoundedOn(R, Nat)
  BY NatLessThanWellFounded
<1>2. \A m, n \in Nat : m < n => <<m, n>> \in R
  BY DEF OpToRel
<1> HIDE DEF R
<1>3. PICK n \in S : \A m \in S : <<m, n>> \notin R
  BY <1>1, WFMin
<1>4. \A m \in S : n <= m
  <2> TAKE m \in S
  <2>1. m \in Nat /\ n \in Nat /\ ~(m < n)
    BY <1>2, <1>3
  <2> QED BY <2>1
<1> QED BY <1>4

Increasing(S) ==
  {f \in [1 .. Cardinality(S) -> S] : \A i, j \in 1 .. Cardinality(S) : i < j => f[i] < f[j]}

LEMMA SetsHaveOrders ==
  \A n \in Nat : \A S \in SUBSET (1 .. n) : Increasing(S) # {}
<1> DEFINE bad == {n \in Nat : \E S \in SUBSET (1 .. n) : Increasing(S) = {}}
<1>1. SUFFICES ASSUME bad # {} PROVE FALSE
  OBVIOUS
<1>2. PICK n \in bad : \A m \in bad : n <= m
  BY <1>1, LeastNumber
<1>3. PICK S \in SUBSET (1 .. n) : Increasing(S) = {}
  BY <1>2
<1>4. n \in Nat /\ S \subseteq 1 .. n /\ S \subseteq Nat /\ IsFiniteSet(S)
  <2>1. n \in Nat /\ S \subseteq 1 .. n
    BY <1>2, <1>3
  <2>2. IsFiniteSet(1 .. n)
    BY <2>1, FS_Interval
  <2>3. IsFiniteSet(S)
    BY <2>2, FS_Subset, Zenon
  <2>4. \A i \in 1 .. n : i \in Nat
    BY <2>1
  <2> QED BY <2>1, <2>3, <2>4
<1>5. Cardinality({}) = 0
  BY FS_EmptySet
<1>6. CASE S = {}
  <2>1. [i \in 1 .. 0 |-> 0] \in Increasing({})
    BY <1>5 DEF Increasing
  <2> QED BY <1>3, <1>6, <2>1
<1>7. CASE S # {}
  <2>1. n > 0 /\ n - 1 \in Nat /\ n - 1 \notin bad
    <3>1. n # 0
      <4>1. PICK i \in S : i \in 1 .. n
        BY <1>4, <1>7
      <4> QED BY <1>4, <4>1
    <3>2. n - 1 \in Nat /\ ~(n <= n - 1)
      BY <1>4, <3>1
    <3> QED BY <1>2, <1>4, <3>1, <3>2
  <2>2. \A T \in SUBSET (1 .. n - 1) : Increasing(T) # {}
    BY <2>1
  <2>3. n \in S
    <3>1. S \subseteq 1 .. n - 1 => FALSE
      BY <1>3, <2>2
    <3> QED BY <1>4, <3>1
  <2> DEFINE T == S \ {n}
  <2>4. T \subseteq 1 .. n - 1 /\ T \subseteq S
    BY <1>4, <2>1
  <2>5. Cardinality(T) \in Nat /\ Cardinality(S) = Cardinality(T) + 1
    <3>1. IsFiniteSet(T) /\ n \notin T /\ T \cup {n} = S
      BY <1>4, <2>3, FS_RemoveElement
    <3> HIDE DEF T
    <3> QED BY <3>1, FS_CardinalityType, FS_AddElement
  <2>6. PICK f : f \in Increasing(T)
    BY <2>2, <2>4
  <2> DEFINE k == Cardinality(T)
  <2> DEFINE g == [i \in 1 .. k + 1 |-> IF i = k + 1 THEN n ELSE f[i]]
  <2>7. /\ f \in [1 .. k -> T]
        /\ \A i, j \in 1 .. k : i < j => f[i] < f[j]
    BY <2>6 DEF Increasing
  <2>8. k \in Nat /\ T \subseteq S /\ n \in S /\ \A t \in T : t < n
    BY <1>4, <2>1, <2>3, <2>4, <2>5
  <2> HIDE DEF T, k
  <2>9. g \in [1 .. k + 1 -> S]
    <3>1. ASSUME NEW i \in 1 .. k + 1, i # k + 1 PROVE f[i] \in S
      <4>1. i \in 1 .. k
        BY <2>8, <3>1
      <4> QED BY <2>7, <2>8, <4>1
    <3> QED BY <2>8, <3>1
  <2>10. ASSUME NEW i \in 1 .. k + 1, NEW j \in 1 .. k + 1, i < j
         PROVE  g[i] < g[j]
    <3>1. i \in 1 .. k /\ g[i] = f[i]
      BY <2>8, <2>10
    <3>2. CASE j = k + 1
      BY <2>7, <2>8, <3>1, <3>2
    <3>3. CASE j # k + 1
      <4>1. j \in 1 .. k /\ g[j] = f[j]
        BY <2>8, <2>10, <3>3
      <4> QED BY <2>7, <2>10, <3>1, <4>1
    <3> QED BY <3>2, <3>3
  <2>11. Cardinality(S) = k + 1
    BY <2>5 DEF k
  <2> HIDE DEF g
  <2>12. g \in Increasing(S)
    BY <2>9, <2>10, <2>11 DEF Increasing
  <2> QED BY <1>3, <2>12
<1> QED BY <1>6, <1>7

\* Reading at a set of places gives each of them once.
LEMMA ReadingPlaces ==
  ASSUME NEW E, NEW q \in Seq(E), NEW S \in SUBSET (DOMAIN q)
  PROVE  /\ At(q, S) \in Seq(E)
         /\ \A x \in DOMAIN At(q, S) : InOrder(S)[x] \in S /\ At(q, S)[x] = q[InOrder(S)[x]]
         /\ \A x, y \in DOMAIN At(q, S) : InOrder(S)[x] = InOrder(S)[y] => x = y
         /\ \A i \in S : \E x \in DOMAIN At(q, S) : InOrder(S)[x] = i
<1> DEFINE k == Cardinality(S)
<1> DEFINE f == InOrder(S)
<1>1. DOMAIN q = 1 .. Len(q) /\ Len(q) \in Nat /\ q \in [1 .. Len(q) -> E]
  OBVIOUS
<1>2. IsFiniteSet(S) /\ k \in Nat /\ S \subseteq Nat
  <2>1. IsFiniteSet(1 .. Len(q))
    BY <1>1, FS_Interval
  <2>2. IsFiniteSet(S)
    BY <1>1, <2>1, FS_Subset
  <2> QED BY <1>1, <2>2, FS_CardinalityType
<1>3. f \in [1 .. k -> S] /\ \A i, j \in 1 .. k : i < j => f[i] < f[j]
  <2>1. PICK g : g \in Increasing(S)
    BY <1>1, SetsHaveOrders
  <2>2. g \in [1 .. k -> S] /\ \A i, j \in DOMAIN g : i < j => g[i] < g[j]
    BY <2>1 DEF Increasing
  <2>3. f \in [1 .. k -> S] /\ \A i, j \in DOMAIN f : i < j => f[i] < f[j]
    BY <2>2 DEF InOrder
  <2> QED BY <2>3
<1> DEFINE s == At(q, S)
<1>4. s = [x \in 1 .. k |-> q[f[x]]]
  BY DEF At
<1> HIDE DEF k, f, s
<1>5. DOMAIN s = 1 .. k /\ s \in Seq(E)
  BY <1>1, <1>2, <1>3, <1>4
<1>6. \A x, y \in 1 .. k : f[x] = f[y] => x = y
  <2> TAKE x, y \in 1 .. k
  <2>1. f[x] \in Nat /\ f[y] \in Nat
    BY <1>2, <1>3
  <2>2. x < y \/ y < x \/ x = y
    BY <1>2
  <2> QED BY <1>3, <2>1, <2>2
<1>7. \A i \in S : \E x \in 1 .. k : f[x] = i
  <2>1. f \in Injection(1 .. k, S)
    BY <1>3, <1>6 DEF Injection, IsInjective
  <2>2. IsFiniteSet(1 .. k) /\ Cardinality(1 .. k) = k
    BY <1>2, FS_Interval
  <2>3. f \in Surjection(1 .. k, S)
    BY <1>2, <2>1, <2>2, FS_Injection DEF k
  <2> QED BY <2>3 DEF Surjection
<1> QED BY <1>3, <1>4, <1>5, <1>6, <1>7 DEF s, f

-----------------------------------------------------------------------------
(* The queue of the delay interceptor *)

Items(M) == [message : M, releaseAt : Nat]

DistinctMessages(q) == \A i, j \in DOMAIN q : q[i].message = q[j].message => i = j

Held(q) == {q[i].message : i \in DOMAIN q}

\* r holds the message m, the item new, besides those of q.
Extends(M, q, m, new, r) ==
  /\ r \in Seq(Items(M \cup {m}))
  /\ DistinctMessages(r)
  /\ Held(r) = Held(q) \cup {m}
  /\ ToSet(r) = ToSet(q) \cup {new}

LEMMA MessageQueued ==
  ASSUME NEW M, NEW q \in Seq(Items(M)), DistinctMessages(q), NEW m, m \notin Held(q),
         NEW new \in Items(M \cup {m}), new.message = m, NEW r, r = Append(q, new)
  PROVE  Extends(M, q, m, new, r)
<1>1. Items(M) \subseteq Items(M \cup {m}) /\ new \in Items(M \cup {m}) /\ new.message = m
  BY DEF Items
<1>2. q \in Seq(Items(M \cup {m}))
  <2>1. Len(q) \in Nat /\ q \in [1 .. Len(q) -> Items(M)]
    OBVIOUS
  <2> DEFINE E == Items(M \cup {m})
  <2>2. q \in [1 .. Len(q) -> E]
    BY <1>1, <2>1
  <2> HIDE DEF E
  <2>3. q \in Seq(E)
    BY <2>1, <2>2
  <2> QED BY <2>3 DEF E
<1>3. r \in Seq(Items(M \cup {m}))
  BY <1>1, <1>2
<1>4. /\ Len(q) \in Nat /\ DOMAIN q = 1 .. Len(q) /\ DOMAIN r = 1 .. Len(q) + 1
      /\ \A i \in 1 .. Len(q) : r[i] = q[i]
      /\ r[Len(q) + 1] = new
  BY <1>2
<1>5. DOMAIN r = DOMAIN q \cup {Len(q) + 1}
  BY <1>4
<1>6. Held(r) = Held(q) \cup {m} /\ ToSet(r) = ToSet(q) \cup {new}
  BY <1>1, <1>4, <1>5 DEF Held, ToSet
<1>7. \A i \in DOMAIN q : q[i].message # m
  BY DEF Held
<1>8. DistinctMessages(r)
  <2> SUFFICES ASSUME NEW i \in DOMAIN r, NEW j \in DOMAIN r, r[i].message = r[j].message
               PROVE  i = j
    BY DEF DistinctMessages
  <2>1. CASE i \in DOMAIN q /\ j \in DOMAIN q
    BY <1>4, <2>1 DEF DistinctMessages
  <2>2. CASE i \in DOMAIN q /\ j = Len(q) + 1
    BY <1>1, <1>4, <1>7, <2>2
  <2>3. CASE i = Len(q) + 1 /\ j \in DOMAIN q
    BY <1>1, <1>4, <1>7, <2>3
  <2> QED BY <1>5, <2>1, <2>2, <2>3
<1> QED BY <1>3, <1>6, <1>8 DEF Extends

LEMMA QueueReordered ==
  ASSUME NEW E, NEW q \in Seq(E), DistinctMessages(q), NEW i \in DOMAIN q, NEW j \in DOMAIN q
  PROVE  /\ Swap(q, i, j) \in Seq(E)
         /\ DistinctMessages(Swap(q, i, j))
         /\ Held(Swap(q, i, j)) = Held(q)
         /\ ToSet(Swap(q, i, j)) = ToSet(q)
<1> DEFINE r == Swap(q, i, j)
<1> DEFINE to(k) == IF k = i THEN j ELSE IF k = j THEN i ELSE k
<1>1. Len(q) \in Nat /\ DOMAIN q = 1 .. Len(q) /\ q \in [1 .. Len(q) -> E]
  OBVIOUS
<1>2. DOMAIN r = DOMAIN q /\ \A k \in DOMAIN q : to(k) \in DOMAIN q /\ r[k] = q[to(k)]
  BY DEF Swap
<1>3. r = [k \in 1 .. Len(q) |-> r[k]]
  BY <1>1 DEF Swap
<1>4. r \in Seq(E)
  <2>1. r \in [1 .. Len(q) -> E]
    BY <1>1, <1>2, <1>3
  <2> QED BY <1>1, <2>1
<1>5. \A k, l \in DOMAIN q : (to(k) = to(l) => k = l) /\ to(to(k)) = k
  OBVIOUS
<1> HIDE DEF r, to
<1>6. \A k \in DOMAIN q : q[k] = r[to(k)]
  BY <1>2, <1>5
<1>7. Held(r) = Held(q) /\ ToSet(r) = ToSet(q)
  <2>1. \A k \in DOMAIN q : r[k] \in ToSet(q) /\ r[k].message \in Held(q)
    BY <1>2 DEF Held, ToSet
  <2>2. \A k \in DOMAIN q : q[k] \in ToSet(r) /\ q[k].message \in Held(r)
    BY <1>2, <1>6 DEF Held, ToSet
  <2>3. Held(r) = Held(q)
    BY <1>2, <2>1, <2>2 DEF Held
  <2>4. ToSet(r) = ToSet(q)
    BY <1>2, <2>1, <2>2 DEF ToSet
  <2> QED BY <2>3, <2>4
<1>8. DistinctMessages(r)
  BY <1>2, <1>5 DEF DistinctMessages
<1> QED BY <1>4, <1>7, <1>8 DEF r

\* What is due and what waits are the queue's messages, each on one side.
SplitInto(M, q, c, w, u) ==
  /\ w \in Seq(Items(M)) /\ DistinctMessages(w) /\ ToSet(w) \subseteq ToSet(q)
  /\ u \in Seq(Items(M)) /\ DistinctMessages(u)
  /\ Held(w) \cup Held(u) = Held(q) /\ Held(w) \cap Held(u) = {}
  /\ \A i \in DOMAIN w : w[i].releaseAt > c

LEMMA QueueSplit ==
  ASSUME NEW M, NEW q \in Seq(Items(M)), DistinctMessages(q), NEW c \in Nat,
         NEW w, w = Waiting(q, c), NEW u, u = Due(q, c)
  PROVE  SplitInto(M, q, c, w, u)
<1> DEFINE W == {i \in DOMAIN q : ~IsDue(q[i], c)}
<1> DEFINE U == {i \in DOMAIN q : IsDue(q[i], c)}
<1> DEFINE f == InOrder(W)
<1> DEFINE g == InOrder(U)
<1>1. w = At(q, W) /\ u = At(q, U)
  BY DEF Waiting, Due
<1>2. W \in SUBSET (DOMAIN q) /\ U \in SUBSET (DOMAIN q) /\ W \cup U = DOMAIN q /\ W \cap U = {}
  OBVIOUS
<1>3. \A i \in W : q[i].releaseAt > c
  <2>1. \A i \in DOMAIN q : q[i] \in Items(M)
    OBVIOUS
  <2>2. \A i \in DOMAIN q : q[i].releaseAt \in Nat
    BY <2>1 DEF Items
  <2>3. \A i \in W : i \in DOMAIN q /\ ~(c >= q[i].releaseAt)
    BY DEF IsDue
  <2> QED BY <2>2, <2>3
<1> HIDE DEF W, U, f, g
<1>4. /\ w \in Seq(Items(M))
      /\ \A x \in DOMAIN w : f[x] \in W /\ w[x] = q[f[x]]
      /\ \A x, y \in DOMAIN w : f[x] = f[y] => x = y
      /\ \A i \in W : \E x \in DOMAIN w : f[x] = i
  BY <1>1, <1>2, ReadingPlaces DEF f
<1>5. /\ u \in Seq(Items(M))
      /\ \A x \in DOMAIN u : g[x] \in U /\ u[x] = q[g[x]]
      /\ \A x, y \in DOMAIN u : g[x] = g[y] => x = y
      /\ \A i \in U : \E x \in DOMAIN u : g[x] = i
  BY <1>1, <1>2, ReadingPlaces DEF g
<1>6. \A i, j \in DOMAIN q : q[i].message = q[j].message => i = j
  BY DEF DistinctMessages
<1>7. DistinctMessages(w) /\ DistinctMessages(u)
  BY <1>2, <1>4, <1>5, <1>6 DEF DistinctMessages
<1>8. ToSet(w) \subseteq ToSet(q)
  BY <1>2, <1>4 DEF ToSet
<1>9. Held(w) \cap Held(u) = {}
  <2> SUFFICES ASSUME NEW x \in DOMAIN w, NEW y \in DOMAIN u, w[x].message = u[y].message
               PROVE  FALSE
    BY DEF Held
  <2>1. f[x] \in W /\ g[y] \in U /\ q[f[x]].message = q[g[y]].message
    BY <1>4, <1>5
  <2> QED BY <1>2, <1>6, <2>1
<1>10. Held(w) \cup Held(u) = Held(q)
  <2>1. \A x \in DOMAIN w : w[x].message \in Held(q)
    BY <1>2, <1>4 DEF Held
  <2>2. \A x \in DOMAIN u : u[x].message \in Held(q)
    BY <1>2, <1>5 DEF Held
  <2>3. \A i \in W : q[i].message \in Held(w)
    BY <1>4 DEF Held
  <2>4. \A i \in U : q[i].message \in Held(u)
    BY <1>5 DEF Held
  <2>5. \A i \in DOMAIN q : q[i].message \in Held(w) \cup Held(u)
    BY <1>2, <2>3, <2>4
  <2> QED BY <2>1, <2>2, <2>5 DEF Held
<1>11. \A i \in DOMAIN w : w[i].releaseAt > c
  BY <1>3, <1>4
<1> QED BY <1>4, <1>5, <1>7, <1>8, <1>9, <1>10, <1>11 DEF SplitInto

Later(q, t) == {x \in ToSet(q) : x.releaseAt > t}

\* A queue q after c messages, all from M, of which those gone were let go.  At
\* most MaxDelay - k of those held are still held k messages from now.
DelaySound(M, q, gone, c) ==
  /\ q \in Seq(Items(M)) /\ gone \in Seq(M) /\ c \in Nat
  /\ DistinctMessages(q)
  /\ \A i, j \in DOMAIN gone : gone[i] = gone[j] => i = j
  /\ Held(q) \cap ToSet(gone) = {}
  /\ \A i \in DOMAIN q : q[i].releaseAt > c
  /\ \A k \in 0 .. MaxDelay : Cardinality(Later(q, c + k)) <= MaxDelay - k
  /\ Cardinality(Held(q) \cup ToSet(gone)) = c

\* A sequence without repetitions has as many members as places.
LEMMA NoRepetition ==
  ASSUME NEW E, NEW s \in Seq(E), \A i, j \in DOMAIN s : s[i] = s[j] => i = j
  PROVE  IsFiniteSet(ToSet(s)) /\ Cardinality(ToSet(s)) = Len(s)
<1>1. Len(s) \in Nat /\ DOMAIN s = 1 .. Len(s) /\ s \in [1 .. Len(s) -> E]
  OBVIOUS
<1>2. s \in [1 .. Len(s) -> ToSet(s)]
  BY <1>1 DEF ToSet
<1>3. s \in Bijection(1 .. Len(s), ToSet(s))
  <2>1. s \in Injection(1 .. Len(s), ToSet(s))
    BY <1>1, <1>2 DEF Injection, IsInjective
  <2>2. s \in Surjection(1 .. Len(s), ToSet(s))
    BY <1>1, <1>2 DEF Surjection, ToSet
  <2> QED BY <2>1, <2>2 DEF Bijection
<1>4. ExistsBijection(1 .. Len(s), ToSet(s))
  BY <1>3 DEF ExistsBijection
<1>5. IsFiniteSet(1 .. Len(s)) /\ Cardinality(1 .. Len(s)) = Len(s)
  BY <1>1, FS_Interval
<1> QED BY <1>4, <1>5, FS_Bijection

MessagesOf(q) == [i \in DOMAIN q |-> q[i].message]

LEMMA QueueMembers ==
  ASSUME NEW M, NEW q \in Seq(Items(M)), DistinctMessages(q)
  PROVE  /\ IsFiniteSet(ToSet(q)) /\ Cardinality(ToSet(q)) = Len(q)
         /\ IsFiniteSet(Held(q)) /\ Cardinality(Held(q)) = Len(q)
         /\ MessagesOf(q) \in Seq(M) /\ ToSet(MessagesOf(q)) = Held(q)
         /\ \A i, j \in DOMAIN MessagesOf(q) : MessagesOf(q)[i] = MessagesOf(q)[j] => i = j
<1> DEFINE s == MessagesOf(q)
<1>1. \A i, j \in DOMAIN q : q[i].message = q[j].message => i = j
  BY DEF DistinctMessages
<1>2. IsFiniteSet(ToSet(q)) /\ Cardinality(ToSet(q)) = Len(q)
  <2>1. \A i, j \in DOMAIN q : q[i] = q[j] => i = j
    BY <1>1
  <2> QED BY <2>1, NoRepetition
<1>3. /\ Len(q) \in Nat /\ DOMAIN q = 1 .. Len(q)
      /\ \A i \in DOMAIN q : q[i].message \in M
  <2>1. Len(q) \in Nat /\ DOMAIN q = 1 .. Len(q) /\ \A i \in DOMAIN q : q[i] \in Items(M)
    OBVIOUS
  <2> QED BY <2>1 DEF Items
<1>4. s = [i \in 1 .. Len(q) |-> q[i].message]
  BY <1>3 DEF MessagesOf
<1> HIDE DEF s
<1>5. s \in Seq(M) /\ Len(s) = Len(q) /\ DOMAIN s = DOMAIN q
  BY <1>3, <1>4
<1>6. \A i, j \in DOMAIN s : s[i] = s[j] => i = j
  BY <1>1, <1>3, <1>4
<1>7. ToSet(s) = Held(q)
  BY <1>3, <1>4 DEF ToSet, Held
<1>8. IsFiniteSet(Held(q)) /\ Cardinality(Held(q)) = Len(q)
  BY <1>5, <1>6, <1>7, NoRepetition
<1> QED BY <1>2, <1>5, <1>6, <1>7, <1>8 DEF s

LEMMA QueueAfter ==
  ASSUME NEW M, NEW q \in Seq(Items(M)), DistinctMessages(q), NEW m, m \notin Held(q),
         NEW new \in Items({m}), NEW i, NEW j,
         i \in DOMAIN Append(q, new), j \in DOMAIN Append(q, new)
  PROVE  Extends(M, q, m, new, Swap(Append(q, new), i, j))
<1> DEFINE r == Append(q, new)
<1>1. new \in Items(M \cup {m}) /\ new.message = m
  BY DEF Items
<1>2. Extends(M, q, m, new, r)
  <2>1. r = Append(q, new)
    OBVIOUS
  <2> HIDE DEF r
  <2> QED BY <1>1, <2>1, MessageQueued
<1>3. i \in DOMAIN r /\ j \in DOMAIN r
  OBVIOUS
<1> HIDE DEF r
<1>e. r \in Seq(Items(M \cup {m})) /\ DistinctMessages(r)
  BY <1>2 DEF Extends
<1>4. /\ Swap(r, i, j) \in Seq(Items(M \cup {m})) /\ DistinctMessages(Swap(r, i, j))
      /\ Held(Swap(r, i, j)) = Held(r) /\ ToSet(Swap(r, i, j)) = ToSet(r)
  BY <1>e, <1>3, QueueReordered
<1>5. Extends(M, q, m, new, Swap(r, i, j))
  BY <1>2, <1>4 DEF Extends
<1> QED BY <1>5 DEF r

LEMMA DelayStep ==
  ASSUME NEW M, NEW q, NEW gone, NEW c, DelaySound(M, q, gone, c), NEW d, d = c + 1,
         NEW m, m \notin M,
         NEW new \in Items({m}), new.releaseAt <= d + MaxDelay,
         NEW s, Extends(M, q, m, new, s),
         NEW w, w = Waiting(s, d),
         NEW u, u = Due(s, d)
  PROVE  DelaySound(M \cup {m}, w, gone \o MessagesOf(u), d)
<1> DEFINE N == M \cup {m}
<1> DEFINE out == gone \o MessagesOf(u)
<1>1. /\ q \in Seq(Items(M)) /\ gone \in Seq(M) /\ c \in Nat /\ d \in Nat /\ d = c + 1
      /\ DistinctMessages(q)
      /\ MinDelay \in Nat /\ MaxDelay \in Nat
  BY NetworkAssumption DEF DelaySound
<1>2. m \notin Held(q) /\ m \notin ToSet(gone)
  <2>1. (\A k \in DOMAIN q : q[k] \in Items(M)) /\ \A k \in DOMAIN gone : gone[k] \in M
    BY <1>1
  <2> QED BY <2>1 DEF Held, ToSet, Items
<1>3. new.message = m /\ new.releaseAt \in Nat
  BY DEF Items
<1>4. /\ s \in Seq(Items(N)) /\ DistinctMessages(s)
      /\ Held(s) = Held(q) \cup {m} /\ ToSet(s) = ToSet(q) \cup {new}
  BY DEF Extends
<1> HIDE DEF N
<1>5. /\ w \in Seq(Items(N)) /\ DistinctMessages(w) /\ ToSet(w) \subseteq ToSet(s)
      /\ u \in Seq(Items(N)) /\ DistinctMessages(u)
      /\ Held(w) \cup Held(u) = Held(s) /\ Held(w) \cap Held(u) = {}
      /\ \A x \in DOMAIN w : w[x].releaseAt > d
  <2>1. SplitInto(N, s, d, w, u)
    BY <1>1, <1>4, QueueSplit
  <2> QED BY <2>1 DEF SplitInto
<1>6. /\ MessagesOf(u) \in Seq(N) /\ ToSet(MessagesOf(u)) = Held(u)
      /\ \A x, y \in DOMAIN MessagesOf(u) : MessagesOf(u)[x] = MessagesOf(u)[y] => x = y
  BY <1>5, QueueMembers
<1>7. Held(q) \cap ToSet(gone) = {} /\ \A x, y \in DOMAIN gone : gone[x] = gone[y] => x = y
  BY DEF DelaySound
<1>8. /\ out \in Seq(N)
      /\ ToSet(out) = ToSet(gone) \cup Held(u)
      /\ \A x, y \in DOMAIN out : out[x] = out[y] => x = y
  <2> DEFINE v == MessagesOf(u)
  <2>1. gone \in Seq(N) /\ v \in Seq(N)
    <3>1. Len(gone) \in Nat /\ gone \in [1 .. Len(gone) -> M]
      BY <1>1
    <3>2. gone \in [1 .. Len(gone) -> N]
      BY <3>1 DEF N
    <3> QED BY <1>6, <3>1, <3>2
  <2> HIDE DEF v
  <2>2. /\ Len(gone) \in Nat /\ Len(v) \in Nat
        /\ DOMAIN gone = 1 .. Len(gone) /\ DOMAIN v = 1 .. Len(v)
        /\ gone \o v \in Seq(N) /\ DOMAIN (gone \o v) = 1 .. Len(gone) + Len(v)
        /\ \A x \in 1 .. Len(gone) + Len(v) :
             (gone \o v)[x] = IF x <= Len(gone) THEN gone[x] ELSE v[x - Len(gone)]
    BY <2>1
  <2>3. \A x \in DOMAIN (gone \o v) :
          \/ x \in DOMAIN gone /\ (gone \o v)[x] = gone[x]
          \/ x - Len(gone) \in DOMAIN v /\ (gone \o v)[x] = v[x - Len(gone)]
    BY <2>2
  <2>4. \A x \in DOMAIN gone : x \in DOMAIN (gone \o v) /\ (gone \o v)[x] = gone[x]
    BY <2>2
  <2>5. \A x \in DOMAIN v : x + Len(gone) \in DOMAIN (gone \o v) /\ (gone \o v)[x + Len(gone)] = v[x]
    BY <2>2
  <2>6. ToSet(gone \o v) = ToSet(gone) \cup ToSet(v)
    <3>1. ToSet(gone \o v) \subseteq ToSet(gone) \cup ToSet(v)
      BY <2>3 DEF ToSet
    <3>2. ToSet(gone) \subseteq ToSet(gone \o v)
      BY <2>4 DEF ToSet
    <3>3. ToSet(v) \subseteq ToSet(gone \o v)
      BY <2>5 DEF ToSet
    <3> QED BY <3>1, <3>2, <3>3
  <2>7. ToSet(gone) \cap ToSet(v) = {}
    <3>1. ToSet(v) \subseteq Held(q) \cup {m}
      BY <1>3, <1>4, <1>5, <1>6 DEF v
    <3> QED BY <1>2, <1>7, <3>1
  <2>8. ASSUME NEW x \in DOMAIN (gone \o v), NEW y \in DOMAIN (gone \o v),
               (gone \o v)[x] = (gone \o v)[y]
        PROVE  x = y
    <3>1. (\A k \in DOMAIN gone : gone[k] \in ToSet(gone)) /\ \A k \in DOMAIN v : v[k] \in ToSet(v)
      BY DEF ToSet
    <3>2. x \in Nat /\ y \in Nat
      BY <2>2
    <3>3. CASE x \in DOMAIN gone /\ y \in DOMAIN gone
      BY <1>7, <2>4, <2>8, <3>3
    <3>4. CASE /\ x - Len(gone) \in DOMAIN v /\ (gone \o v)[x] = v[x - Len(gone)]
               /\ y - Len(gone) \in DOMAIN v /\ (gone \o v)[y] = v[y - Len(gone)]
      <4>1. x - Len(gone) = y - Len(gone)
        BY <1>6, <2>8, <3>4 DEF v
      <4> QED BY <2>2, <3>2, <4>1
    <3> QED BY <2>3, <2>7, <2>8, <3>1, <3>3, <3>4
  <2> QED BY <1>6, <2>2, <2>6, <2>8 DEF v
<1>9. Held(w) \cap ToSet(out) = {} /\ Held(w) \cup ToSet(out) = (Held(q) \cup ToSet(gone)) \cup {m}
  BY <1>2, <1>3, <1>4, <1>5, <1>7, <1>8
<1>10. Cardinality(Held(w) \cup ToSet(out)) = d
  <2>1. Cardinality(Held(q) \cup ToSet(gone)) = c
    BY DEF DelaySound
  <2>2. IsFiniteSet(Held(q)) /\ IsFiniteSet(ToSet(gone))
    BY <1>1, <1>7, QueueMembers, NoRepetition
  <2>3. IsFiniteSet(Held(q) \cup ToSet(gone))
    BY <2>2, FS_Union
  <2>4. m \notin Held(q) \cup ToSet(gone)
    BY <1>2
  <2> DEFINE S == Held(q) \cup ToSet(gone)
  <2> HIDE DEF S
  <2>5. Cardinality(S \cup {m}) = Cardinality(S) + 1
    BY <2>3, <2>4, FS_AddElement DEF S
  <2> QED BY <1>9, <2>1, <2>5 DEF S
<1>11. ASSUME NEW k \in 0 .. MaxDelay
       PROVE  Cardinality(Later(w, d + k)) <= MaxDelay - k
  <2>1. IsFiniteSet(ToSet(q)) /\ IsFiniteSet(ToSet(w)) /\ k \in Nat /\ k <= MaxDelay
    BY <1>1, <1>5, QueueMembers
  <2>2. IsFiniteSet(Later(w, d + k)) /\ Cardinality(Later(w, d + k)) \in Nat
    <3>1. Later(w, d + k) \in SUBSET ToSet(w)
      BY DEF Later
    <3> QED BY <2>1, <3>1, FS_Subset, FS_CardinalityType
  <2>3. \A t : IsFiniteSet(Later(q, t)) /\ Cardinality(Later(q, t)) \in Nat
    <3>1. \A t : Later(q, t) \in SUBSET ToSet(q)
      BY DEF Later
    <3> QED BY <2>1, <3>1, FS_Subset, FS_CardinalityType
  <2>4. Later(w, d + k) \subseteq Later(q, d + k)
                                          \cup (IF new.releaseAt > d + k THEN {new} ELSE {})
    BY <1>3, <1>4, <1>5 DEF Later
  <2>5. CASE k < MaxDelay
    <3>1. /\ k + 1 \in 0 .. MaxDelay /\ d + k = c + (k + 1)
      BY <1>1, <2>1, <2>5
    <3>2. Cardinality(Later(q, d + k)) <= MaxDelay - (k + 1)
      BY <3>1 DEF DelaySound
    <3> DEFINE L == Later(q, d + k)
    <3>3. /\ IsFiniteSet(L \cup {new})
          /\ Cardinality(L \cup {new}) <= Cardinality(L) + 1
      <4>1. IsFiniteSet(L) /\ Cardinality(L) \in Nat
        BY <2>3
      <4> HIDE DEF L
      <4>2. /\ IsFiniteSet(L \cup {new})
            /\ Cardinality(L \cup {new}) = IF new \in L THEN Cardinality(L) ELSE Cardinality(L) + 1
        BY <4>1, FS_AddElement
      <4> QED BY <4>1, <4>2
    <3>4. Cardinality(Later(w, d + k)) <= Cardinality(L \cup {new})
      <4>1. Later(w, d + k) \in SUBSET (L \cup {new})
        BY <2>4
      <4> QED BY <3>3, <4>1, FS_Subset
    <3>5. Cardinality(L) \in Nat /\ Cardinality(L \cup {new}) \in Nat
      BY <2>3, <3>3, FS_CardinalityType
    <3> QED BY <1>1, <2>1, <2>2, <3>2, <3>3, <3>4, <3>5
  <2>6. CASE k = MaxDelay
    <3>1. ~(new.releaseAt > d + k)
      BY <1>1, <1>3, <2>6
    <3>2. Cardinality(Later(q, c + MaxDelay)) = 0
      <4>1. MaxDelay \in 0 .. MaxDelay /\ MaxDelay - MaxDelay = 0
        BY <1>1
      <4>2. Cardinality(Later(q, c + MaxDelay)) <= 0
        BY <4>1 DEF DelaySound
      <4> QED BY <2>3, <4>2
    <3>3. Later(q, c + MaxDelay) = {}
      BY <2>3, <3>2, FS_EmptySet
    <3>4. \A x \in ToSet(q) : x.releaseAt \in Nat
      <4>1. \A x \in DOMAIN q : q[x] \in Items(M)
        BY <1>1
      <4> QED BY <4>1 DEF ToSet, Items
    <3>5. Later(q, d + k) = {}
      BY <1>1, <2>6, <3>3, <3>4 DEF Later
    <3>6. Later(w, d + k) = {}
      BY <2>4, <3>1, <3>5
    <3>7. Cardinality(Later(w, d + k)) = 0
      BY <3>6, FS_EmptySet
    <3> QED BY <1>1, <2>6, <3>7
  <2> QED BY <1>1, <2>1, <2>5, <2>6
<1> HIDE DEF out
<1>12. DelaySound(N, w, out, d)
  BY <1>1, <1>5, <1>8, <1>9, <1>10, <1>11 DEF DelaySound
<1> QED BY <1>12 DEF N, out

LEMMA MoreSaid ==
  ASSUME NEW M, NEW N, M \subseteq N, NEW q, NEW gone, NEW c, DelaySound(M, q, gone, c)
  PROVE  DelaySound(N, q, gone, c)
<1>1. q \in Seq(Items(M)) /\ gone \in Seq(M)
  BY DEF DelaySound
<1>2. Items(M) \subseteq Items(N)
  BY DEF Items
<1> DEFINE I == Items(M)
<1> DEFINE J == Items(N)
<1> HIDE DEF I, J
<1>3. \A A, B, s : A \subseteq B /\ s \in Seq(A) => s \in Seq(B)
  <2> SUFFICES ASSUME NEW A, NEW B, NEW s \in Seq(A), A \subseteq B PROVE s \in Seq(B)
    OBVIOUS
  <2>1. Len(s) \in Nat /\ s \in [1 .. Len(s) -> A]
    OBVIOUS
  <2>2. s \in [1 .. Len(s) -> B]
    BY <2>1
  <2> QED BY <2>1, <2>2
<1>4. q \in Seq(Items(N)) /\ gone \in Seq(N)
  BY <1>1, <1>2, <1>3, Zenon
<1> QED BY <1>4 DEF DelaySound

\* What becomes of a message m in the delay interceptor of n: it is queued as
\* the item new, two items change places, and of the queue s that results those
\* due at the count c are let go.
Delays(x, e, n, m, new, s, c) ==
  /\ c = x.count[n] + 1
  /\ \E delay \in MinDelay .. MaxDelay : new = [message |-> m, releaseAt |-> c + delay]
  /\ \E i, j \in DOMAIN Append(x.delayed[n], new) : s = Swap(Append(x.delayed[n], new), i, j)
  /\ e.net.count = [x.count EXCEPT ![n] = c]
  /\ e.net.delayed = [x.delayed EXCEPT ![n] = Waiting(s, c)]
  /\ e.outs = [k \in DOMAIN Due(s, c) |-> Out(Everyone, Due(s, c)[k].message)]

\* It is the only interceptor that touches the queue.
LEMMA InterceptQueues ==
  ASSUME NEW x, IsNetwork(x), NEW d, NEW n, NEW m, NEW e \in InterceptOutgoing(x, d, n, m),
         n \in DOMAIN x.count
  PROVE  IF x.interceptor[n] = "Delay"
         THEN \E new, s, c : Delays(x, e, n, m, new, s, c)
         ELSE e.net.count = x.count /\ e.net.delayed = x.delayed
<1>1. CASE x.interceptor[n] = "DoubleSign"
  <2>1. e \in InterceptDoubleSign(x, d, n, m)
    BY <1>1 DEF InterceptOutgoing
  <2>2. e.net = x \/ e.net = [x EXCEPT !.doubleSigned[n] = x.doubleSigned[n] \cup {m.view}]
    BY <2>1 DEF InterceptDoubleSign, Effect
  <2>3. e.net.count = x.count /\ e.net.delayed = x.delayed
    BY <2>2 DEF IsNetwork
  <2> QED BY <1>1, <2>3
<1>2. CASE x.interceptor[n] = "Equivocation"
  BY <1>2 DEF InterceptOutgoing, InterceptEquivocation, Effect
<1>3. CASE x.interceptor[n] = "Random"
  BY <1>3 DEF InterceptOutgoing, InterceptRandom, Effect
<1>4. CASE x.interceptor[n] = "Delay"
  <2> DEFINE counted == Counted(x, n)
  <2> DEFINE seen == RecordIfVote(d, x, n, m)
  <2> DEFINE c == x.count[n] + 1
  <2>1. e \in InterceptDelay(x, d, n, m)
    BY <1>4 DEF InterceptOutgoing
  <2>2. PICK delay \in MinDelay .. MaxDelay : e \in DelayFor(counted, seen, n, m, delay)
    BY <2>1 DEF InterceptDelay
  <2>3. /\ IsNetwork(counted)
        /\ counted.count = [x.count EXCEPT ![n] = c] /\ counted.count[n] = c
        /\ counted.delayed = x.delayed
    BY DEF Counted, IsNetwork
  <2> DEFINE new == [message |-> m, releaseAt |-> c + delay]
  <2> DEFINE r == Append(x.delayed[n], new)
  <2>4. Queued(counted, n, m, delay) = r
    BY <2>3 DEF Queued
  <2> HIDE DEF counted, seen, c, new
  <2>5. PICK i, j \in DOMAIN r : e = Release(counted, seen, n, Swap(r, i, j))
    BY <2>2, <2>4 DEF DelayFor
  <2> DEFINE s == Swap(r, i, j)
  <2> HIDE DEF r
  <2>6. /\ e.net = [counted EXCEPT !.delayed[n] = Waiting(s, c)]
        /\ e.outs = [k \in DOMAIN Due(s, c) |-> Out(Everyone, Due(s, c)[k].message)]
    BY <2>3, <2>5 DEF Release, Effect
  <2> HIDE DEF s
  <2>7. /\ e.net.count = [x.count EXCEPT ![n] = c]
        /\ e.net.delayed = [x.delayed EXCEPT ![n] = Waiting(s, c)]
    BY <2>3, <2>6 DEF IsNetwork
  <2>8. c = x.count[n] + 1 /\ new = [message |-> m, releaseAt |-> c + delay]
    BY DEF c, new
  <2>9. \E k, l \in DOMAIN Append(x.delayed[n], new) : s = Swap(Append(x.delayed[n], new), k, l)
    BY <2>5 DEF r, s
  <2>10. Delays(x, e, n, m, new, s, c)
    BY <2>2, <2>6, <2>7, <2>8, <2>9 DEF Delays
  <2> QED BY <1>4, <2>10, Zenon
<1>5. CASE x.interceptor[n] \notin {"DoubleSign", "Equivocation", "Random", "Delay"}
  BY <1>5 DEF InterceptOutgoing, Effect
<1> QED BY <1>1, <1>2, <1>3, <1>4, <1>5

DelaysOK ==
  Created =>
    /\ DOMAIN net.delayed = Nodes(scenario) /\ DOMAIN net.count = Nodes(scenario)
    /\ DOMAIN left = Nodes(scenario)
    /\ \A n \in Nodes(scenario) :
         DelaySound(node[n].said, net.delayed[n], left[n], net.count[n])

\* Sending leaves the queues alone.
LEMMA SendQueues ==
  ASSUME NEW x, IsNetwork(x), NEW n, NEW outs, NEW dropped
  PROVE  LET y == Send(x, n, outs, dropped) IN y.count = x.count /\ y.delayed = x.delayed
<1> DEFINE y == Send(x, n, outs, dropped)
<1>1. PICK channel, heard : y = [x EXCEPT !.channel = channel, !.heard = heard]
  BY DEF Send
<1> HIDE DEF y
<1>2. y.count = x.count /\ y.delayed = x.delayed
  BY <1>1 DEF IsNetwork
<1> QED BY <1>2 DEF y

\* What a broadcast makes of the queues.
LEMMA BroadcastQueues ==
  ASSUME NetworkOK, NEW d, IsDetector(d), NEW n \in Nodes(scenario), n \in DOMAIN net.count, NEW m,
         NEW e \in Broadcast(net, d, n, m)
  PROVE  IF net.interceptor[n] = "Delay"
         THEN \E new, s, c : Delays(net, e, n, m, new, s, c)
         ELSE e.net.count = net.count /\ e.net.delayed = net.delayed
<1>1. CASE n \in net.silent
  <2>1. net.interceptor[n] = "none" /\ e.net = net
    BY <1>1 DEF NetworkOK, Broadcast
  <2> QED BY <2>1
<1>2. CASE n \notin net.silent
  <2>1. PICK f \in InterceptOutgoing(net, d, n, m) :
          \E dropped : e = [net |-> Send(f.net, n, f.outs, dropped), detector |-> f.detector,
                            outs |-> f.outs]
    BY <1>2 DEF Broadcast
  <2>2. PICK dropped : e.net = Send(f.net, n, f.outs, dropped) /\ e.outs = f.outs
    BY <2>1
  <2>3. IsNetwork(net)
    BY DEF NetworkOK
  <2>4. IsNetwork(f.net)
    BY <2>3, InterceptRecords DEF Kept
  <2>5. e.net.count = f.net.count /\ e.net.delayed = f.net.delayed
    BY <2>2, <2>4, SendQueues
  <2>6. CASE net.interceptor[n] = "Delay"
    <3>1. PICK new, s, c : Delays(net, f, n, m, new, s, c)
      BY <2>3, <2>6, InterceptQueues, Zenon
    <3>2. Delays(net, e, n, m, new, s, c)
      BY <2>2, <2>5, <3>1 DEF Delays
    <3> QED BY <2>6, <3>2, Zenon
  <2>7. CASE net.interceptor[n] # "Delay"
    <3>1. f.net.count = net.count /\ f.net.delayed = net.delayed
      BY <2>3, <2>7, InterceptQueues
    <3> QED BY <2>5, <2>7, <3>1
  <2> QED BY <2>6, <2>7
<1> QED BY <1>1, <1>2

\* The queue of a node after it said m, and what it has let go.
LEMMA DelaysSound ==
  ASSUME NEW x, NEW e, NEW n, NEW M, NEW gone, DelaySound(M, x.delayed[n], gone, x.count[n]),
         NEW m, m \notin M, NEW new, NEW s, NEW c, Delays(x, e, n, m, new, s, c)
  PROVE  DelaySound(M \cup {m}, Waiting(s, c), gone \o [i \in DOMAIN e.outs |-> e.outs[i].message], c)
<1> DEFINE q == x.delayed[n]
<1> DEFINE b == x.count[n]
<1>1. DelaySound(M, q, gone, b) /\ c = b + 1
  BY DEF Delays
<1>2. PICK delay \in MinDelay .. MaxDelay : new = [message |-> m, releaseAt |-> c + delay]
  BY DEF Delays
<1>3. PICK i, j \in DOMAIN Append(q, new) : s = Swap(Append(q, new), i, j)
  BY DEF Delays
<1>4. MessagesOf(Due(s, c)) = [k \in DOMAIN e.outs |-> e.outs[k].message]
  <2> DEFINE u == Due(s, c)
  <2>1. e.outs = [k \in DOMAIN u |-> Out(Everyone, u[k].message)]
    BY DEF Delays
  <2> HIDE DEF u
  <2>2. [k \in DOMAIN e.outs |-> e.outs[k].message] = [k \in DOMAIN u |-> u[k].message]
    BY <2>1 DEF Out
  <2> QED BY <2>2 DEF MessagesOf, u
<1> HIDE DEF q, b
<1>5. b \in Nat /\ c \in Nat /\ q \in Seq(Items(M)) /\ DistinctMessages(q)
  BY <1>1 DEF DelaySound
<1>6. new \in Items({m}) /\ new.releaseAt <= c + MaxDelay
  <2>1. delay \in Nat /\ delay <= MaxDelay /\ MaxDelay \in Nat
    BY NetworkAssumption
  <2> QED BY <1>2, <1>5, <2>1 DEF Items
<1>7. m \notin Held(q)
  <2>1. \A k \in DOMAIN q : q[k] \in Items(M)
    BY <1>5
  <2> QED BY <2>1 DEF Held, Items
<1>8. Extends(M, q, m, new, s)
  BY <1>3, <1>5, <1>6, <1>7, QueueAfter
<1>9. DelaySound(M \cup {m}, Waiting(s, c), gone \o MessagesOf(Due(s, c)), c)
  BY <1>1, <1>6, <1>8, DelayStep
<1> QED BY <1>4, <1>9

LEMMA SayQueues ==
  ASSUME IInv, Created, DelaysOK, NEW n \in Nodes(scenario), NEW m, Say(n, m)
  PROVE  DelaysOK'
<1> DEFINE N == Nodes(scenario)
<1>1. PICK e \in Broadcast(net, detector, n, m) :
        /\ net' = e.net
        /\ left' = IF net.interceptor[n] = "Delay"
                   THEN [left EXCEPT ![n] = left[n] \o [i \in DOMAIN e.outs |-> e.outs[i].message]]
                   ELSE left
  BY DEF Say
<1>2. /\ scenario' = scenario /\ m \notin node[n].said
      /\ node' = [node EXCEPT ![n].said = node[n].said \cup {m}]
  BY DEF Say
<1>3. /\ DOMAIN net.delayed = N /\ DOMAIN net.count = N /\ DOMAIN left = N
      /\ \A k \in N : DelaySound(node[k].said, net.delayed[k], left[k], net.count[k])
  BY DEF DelaysOK
<1>4. NetworkOK /\ IsDetector(detector) /\ DOMAIN node = N /\ IsNode(node[n])
  BY DEF IInv, CommitsOK
<1>5. /\ node'[n].said = node[n].said \cup {m}
      /\ \A k \in N : k # n => node'[k] = node[k]
  BY <1>2, <1>4 DEF IsNode
<1>6. IF net.interceptor[n] = "Delay"
      THEN \E new, s, c : Delays(net, e, n, m, new, s, c)
      ELSE e.net.count = net.count /\ e.net.delayed = net.delayed
  BY <1>3, <1>4, BroadcastQueues
<1>7. CASE net.interceptor[n] = "Delay"
  <2>1. PICK new, s, c : Delays(net, e, n, m, new, s, c)
    BY <1>6, <1>7, Zenon
  <2> DEFINE after == left[n] \o [i \in DOMAIN e.outs |-> e.outs[i].message]
  <2>2. /\ net'.count = [net.count EXCEPT ![n] = c]
        /\ net'.delayed = [net.delayed EXCEPT ![n] = Waiting(s, c)]
    BY <1>1, <2>1 DEF Delays
  <2>3. DelaySound(node[n].said \cup {m}, Waiting(s, c), after, c)
    BY <1>2, <1>3, <2>1, DelaysSound
  <2>4. left' = [left EXCEPT ![n] = after]
    BY <1>1, <1>7
  <2> HIDE DEF after
  <2>5. \A k \in N : DelaySound(node'[k].said, net'.delayed[k], left'[k], net'.count[k])
    <3> TAKE k \in N
    <3>1. CASE k = n
      BY <1>3, <1>5, <2>2, <2>3, <2>4, <3>1
    <3>2. CASE k # n
      BY <1>3, <1>5, <2>2, <2>4, <3>2
    <3> QED BY <3>1, <3>2
  <2> QED BY <1>2, <1>3, <2>2, <2>4, <2>5 DEF DelaysOK
<1>8. CASE net.interceptor[n] # "Delay"
  <2>1. net'.count = net.count /\ net'.delayed = net.delayed /\ left' = left
    BY <1>1, <1>6, <1>8
  <2>2. DelaySound(node[n].said \cup {m}, net.delayed[n], left[n], net.count[n])
    BY <1>3, MoreSaid
  <2>3. \A k \in N : DelaySound(node'[k].said, net'.delayed[k], left'[k], net'.count[k])
    BY <1>3, <1>5, <2>1, <2>2
  <2> QED BY <1>2, <1>3, <2>1, <2>3 DEF DelaysOK
<1> QED BY <1>7, <1>8

\* The other steps leave the queues alone.
LEMMA OtherQueues ==
  ASSUME Created, DelaysOK,
         UNCHANGED <<scenario, left>>, net'.delayed = net.delayed, net'.count = net.count,
         \A n \in Nodes(scenario) : node'[n].said = node[n].said
  PROVE  DelaysOK'
BY DEF DelaysOK

LEMMA NewQueues ==
  ASSUME NewExecutor, ~Created
  PROVE  DelaysOK'
<1>1. CASE phase' = "rejected"
  BY <1>1 DEF DelaysOK, Created
<1>2. CASE phase' = "created"
  <2> DEFINE N == Nodes(scenario)
  <2>1. /\ scenario' = scenario
        /\ net' = NewTwinsNetwork(scenario)
        /\ node' = [n \in N |-> NewNode]
        /\ left' = [n \in N |-> <<>>]
    BY <1>2 DEF NewExecutor
  <2>2. /\ net'.delayed = [n \in N |-> <<>>] /\ net'.count = [n \in N |-> 0]
        /\ \A n \in N : node'[n].said = {}
    BY <2>1 DEF NewTwinsNetwork, NewNode
  <2>3. DelaySound({}, <<>>, <<>>, 0)
    <3>1. /\ <<>> \in Seq(Items({})) /\ <<>> \in Seq({})
          /\ \A q : q = <<>> => DOMAIN q = {}
      OBVIOUS
    <3>2. Held(<<>>) = {} /\ ToSet(<<>>) = {} /\ \A t : Later(<<>>, t) = {}
      BY <3>1 DEF Held, ToSet, Later
    <3>3. Cardinality({}) = 0 /\ MaxDelay \in Nat
      BY FS_EmptySet, NetworkAssumption
    <3>4. Cardinality(Held(<<>>) \cup ToSet(<<>>)) = 0
      BY <3>2, <3>3
    <3>5. \A k \in 0 .. MaxDelay : Cardinality(Later(<<>>, 0 + k)) <= MaxDelay - k
      <4> TAKE k \in 0 .. MaxDelay
      <4>1. Cardinality(Later(<<>>, 0 + k)) = 0
        <5>1. Later(<<>>, 0 + k) = {}
          BY <3>2
        <5> HIDE DEF Later
        <5> QED BY <3>3, <5>1
      <4> QED BY <3>3, <4>1
    <3> QED BY <3>1, <3>2, <3>4, <3>5 DEF DelaySound, DistinctMessages
  <2> QED BY <2>1, <2>2, <2>3 DEF DelaysOK
<1> QED BY <1>1, <1>2 DEF NewExecutor

LEMMA DelaysStep ==
  IInv /\ DelaysOK /\ [Next]_vars => DelaysOK'
<1> SUFFICES ASSUME IInv, DelaysOK, [Next]_vars PROVE DelaysOK'
  OBVIOUS
<1>1. ASSUME Created, UNCHANGED <<scenario, net, node, left>> PROVE DelaysOK'
  BY <1>1, OtherQueues
<1>2. CASE NewExecutor
  <2>1. ~Created
    BY <1>2 DEF NewExecutor, Created
  <2> QED BY <1>2, <2>1, NewQueues
<1>3. CASE Start
  BY <1>1, <1>3 DEF Start, Created
<1>4. CASE Run
  BY <1>1, <1>4 DEF Run, Created
<1>5. CASE TargetReached
  BY <1>1, <1>5 DEF TargetReached, Created
<1>6. CASE TimeOut
  BY <1>1, <1>6 DEF TimeOut, Created
<1>7. CASE Finish
  BY <1>1, <1>7 DEF Finish, Created
<1>8. ASSUME NEW n \in Nodes(scenario), ApplyByzantineBehavior(n) PROVE DelaysOK'
  <2>1. Created /\ UNCHANGED <<scenario, node, left>> /\ Behave(n)
    BY <1>8 DEF ApplyByzantineBehavior, Created
  <2>2. IsNetwork(net)
    BY <2>1 DEF IInv, NetworkOK
  <2>3. net'.delayed = net.delayed /\ net'.count = net.count
    BY <2>1, <2>2 DEF Behave, IsNetwork
  <2> QED BY <2>1, <2>3, OtherQueues
<1>9. ASSUME NEW n \in Nodes(scenario), Propose(n) PROVE DelaysOK'
  BY <1>9, SayQueues DEF Propose, Created
<1>10. ASSUME NEW n \in Nodes(scenario), Vote(n) PROVE DelaysOK'
  BY <1>10, SayQueues DEF Vote, Created
<1>11. ASSUME NEW n \in Nodes(scenario), Receive(n) PROVE DelaysOK'
  <2>1. /\ Created /\ UNCHANGED <<scenario, left>>
        /\ net' = [net EXCEPT !.channel[n] = Tail(net.channel[n])]
    BY <1>11 DEF Receive, Created
  <2>2. PICK got : node' = [node EXCEPT ![n].got = got]
    BY <1>11 DEF Receive
  <2>3. IsNetwork(net) /\ DOMAIN node = Nodes(scenario) /\ \A k \in Nodes(scenario) : IsNode(node[k])
    BY <2>1 DEF IInv, NetworkOK, CommitsOK
  <2>4. net'.delayed = net.delayed /\ net'.count = net.count
    BY <2>1, <2>3 DEF IsNetwork
  <2>5. \A k \in Nodes(scenario) : node'[k].said = node[k].said
    BY <2>2, <2>3 DEF IsNode
  <2> QED BY <2>1, <2>4, <2>5, OtherQueues
<1>12. ASSUME NEW n \in Nodes(scenario), Commit(n) PROVE DelaysOK'
  <2>1. Created /\ UNCHANGED <<scenario, net, left>>
    BY <1>12 DEF Commit, Created
  <2>2. PICK committed : node' = [node EXCEPT ![n].committed = committed]
    BY <1>12 DEF Commit
  <2>3. DOMAIN node = Nodes(scenario) /\ \A k \in Nodes(scenario) : IsNode(node[k])
    BY <2>1 DEF IInv, CommitsOK
  <2>4. \A k \in Nodes(scenario) : node'[k].said = node[k].said
    BY <2>2, <2>3 DEF IsNode
  <2> QED BY <2>1, <2>4, OtherQueues
<1>13. CASE UNCHANGED vars
  <2>1. CASE Created
    BY <1>1, <1>13, <2>1 DEF vars
  <2>2. CASE ~Created
    BY <1>13, <2>2 DEF vars, DelaysOK, Created
  <2> QED BY <2>1, <2>2
<1> QED
  BY <1>2, <1>3, <1>4, <1>5, <1>6, <1>7, <1>8, <1>9, <1>10, <1>11, <1>12, <1>13 DEF Next

\* The delay interceptor holds at most MaxDelay messages and loses, doubles or
\* makes up none (DelayInterceptor.InterceptOutgoing).
THEOREM DelaysAreBounded == Spec => []DelaysBounded
<1>1. Init => DelaysOK
  BY DEF Init, DelaysOK, Created
<1>2. DelaysOK => DelaysBounded
  <2> SUFFICES ASSUME Created, NEW n \in Nodes(scenario),
                      DelaySound(node[n].said, net.delayed[n], left[n], net.count[n])
               PROVE  LET held == {net.delayed[n][i].message : i \in DOMAIN net.delayed[n]}
                          gone == ToSet(left[n])
                      IN  /\ Len(net.delayed[n]) <= MaxDelay
                          /\ held \cap gone = {}
                          /\ Cardinality(held) = Len(net.delayed[n])
                          /\ Cardinality(gone) = Len(left[n])
                          /\ Cardinality(held \cup gone) = net.count[n]
    BY DEF DelaysOK, DelaysBounded
  <2> DEFINE M == node[n].said
  <2> DEFINE q == net.delayed[n]
  <2> DEFINE c == net.count[n]
  <2>1. DelaySound(M, q, left[n], c)
    OBVIOUS
  <2> HIDE DEF M, q, c
  <2>2. /\ Held(q) \cap ToSet(left[n]) = {}
        /\ Cardinality(Held(q) \cup ToSet(left[n])) = c
        /\ q \in Seq(Items(M)) /\ left[n] \in Seq(M) /\ DistinctMessages(q)
        /\ c \in Nat
        /\ \A i, j \in DOMAIN left[n] : left[n][i] = left[n][j] => i = j
    BY <2>1 DEF DelaySound
  <2>3. Cardinality(Held(q)) = Len(q) /\ Cardinality(ToSet(q)) = Len(q)
    BY <2>2, QueueMembers
  <2>4. Cardinality(ToSet(left[n])) = Len(left[n])
    BY <2>2, NoRepetition
  <2>5. Len(q) <= MaxDelay
    <3>1. Later(q, c + 0) = ToSet(q)
      <4>1. \A i \in DOMAIN q : q[i].releaseAt > c
        BY <2>1 DEF DelaySound
      <4> QED BY <2>2, <4>1 DEF Later, ToSet
    <3>2. 0 \in 0 .. MaxDelay /\ MaxDelay \in Nat
      BY NetworkAssumption
    <3>3. Cardinality(Later(q, c + 0)) <= MaxDelay - 0
      BY <2>1, <3>2 DEF DelaySound
    <3> QED BY <2>3, <3>1, <3>2, <3>3
  <2> QED BY <2>2, <2>3, <2>4, <2>5 DEF Held, q, c
<1> QED BY <1>1, <1>2, DelaysStep, TwinsInvariant, PTL DEF Spec

-----------------------------------------------------------------------------
(* The generators *)

\* The bounds of DefaultGeneratorConfig are such.  A configuration with more
\* pairs than replicas generates scenarios that are rejected.
SoundConfig(config) ==
  /\ config.MinReplicas \in Nat \ {0}
  /\ config.MinTwins \in Nat /\ config.MaxTwins \in Nat
  /\ config.MinViews \in Nat \ {0}
  /\ config.MaxTwins <= config.MinReplicas

\* What a valid scenario is made of.
LEMMA ValidWhen ==
  ASSUME NEW r \in Nat, r >= 1, NEW t \in Nat, 3 * t <= r + 2 * t - 1, NEW v \in Nat, v >= 1,
         NEW behavior, NEW partitions,
         \A i \in DOMAIN partitions : partitions[i] \subseteq 0 .. r + 2 * t - 1
  PROVE  ValidateScenario(Scenario(r, t, v, behavior, partitions))
<1> DEFINE s == Scenario(r, t, v, behavior, partitions)
<1>1. s.Replicas = r /\ s.Twins = t /\ s.Views = v /\ s.Partitions = partitions
  BY DEF Scenario
<1> HIDE DEF s
<1>2. TotalNodes(s) = r + 2 * t /\ Nodes(s) = 0 .. r + 2 * t - 1
  BY <1>1 DEF TotalNodes, Nodes
<1>3. t <= (r + 2 * t - 1) \div 3
  OBVIOUS
<1>4. ValidateScenario(s)
  BY <1>1, <1>2, <1>3 DEF ValidateScenario
<1> QED BY <1>4 DEF s

LEMMA GeneratedAreValid ==
  ASSUME NEW config, SoundConfig(config), NEW s \in Generate(config)
  PROVE  ValidateScenario(s)
<1> DEFINE Pairs(r) == IF MaxTwins(config, r) > 0
                       THEN config.MinTwins .. MaxTwins(config, r) ELSE {0}
<1>1. PICK r \in config.MinReplicas .. config.MaxReplicas :
        \E t \in Pairs(r) : s \in Generated(config, r, t)
  BY DEF Generate
<1>2. PICK t \in Pairs(r) : s \in Generated(config, r, t)
  BY <1>1
<1>3. /\ config.MinReplicas \in Nat /\ config.MinReplicas >= 1
      /\ config.MaxTwins \in Nat /\ config.MaxTwins <= config.MinReplicas
      /\ config.MinTwins \in Nat
      /\ config.MinViews \in Nat /\ config.MinViews >= 1
  BY DEF SoundConfig
<1>4. r \in Nat /\ r >= 1 /\ config.MaxTwins <= r
  BY <1>1, <1>3
<1>5. t \in Nat /\ 3 * t <= r + 2 * t - 1
  <2> DEFINE f == (r + 2 * config.MaxTwins - 1) \div 3
  <2>1. f \in Int /\ 3 * f <= r + 2 * config.MaxTwins - 1
    BY <1>3, <1>4
  <2>2. MaxTwins(config, r) = IF config.MaxTwins > f THEN f ELSE config.MaxTwins
    BY DEF MaxTwins
  <2> HIDE DEF f
  <2>3. CASE MaxTwins(config, r) > 0
    <3>1. t \in Nat /\ t <= f /\ t <= config.MaxTwins
      BY <1>2, <1>3, <2>1, <2>2, <2>3
    <3> QED BY <1>3, <1>4, <2>1, <3>1
  <2>4. CASE ~(MaxTwins(config, r) > 0)
    BY <1>2, <1>4, <2>4
  <2> QED BY <2>3, <2>4
<1>6. PICK v \in config.MinViews .. config.MaxViews, behavior \in Behaviors,
           partitions \in {<<>>} \cup GeneratePartitions(r + 2 * t) :
        s = Scenario(r, t, v, behavior, partitions)
  BY <1>2 DEF Generated, Behaviors
<1>7. v \in Nat /\ v >= 1
  BY <1>3, <1>6
<1>8. \A i \in DOMAIN partitions : partitions[i] \subseteq 0 .. r + 2 * t - 1
  <2>1. CASE partitions = <<>>
    BY <2>1
  <2>2. CASE partitions \in GeneratePartitions(r + 2 * t)
    <3>1. PICK split \in 1 .. r + 2 * t - 1 :
            partitions = <<0 .. split - 1, split .. r + 2 * t - 1>>
      BY <2>2 DEF GeneratePartitions
    <3>2. /\ 0 .. split - 1 \subseteq 0 .. r + 2 * t - 1
          /\ split .. r + 2 * t - 1 \subseteq 0 .. r + 2 * t - 1
      BY <1>4, <1>5
    <3>3. DOMAIN partitions = 1 .. 2 /\ partitions[1] = 0 .. split - 1
          /\ partitions[2] = split .. r + 2 * t - 1
      BY <3>1
    <3>4. \A i \in 1 .. 2 : i = 1 \/ i = 2
      OBVIOUS
    <3> QED BY <3>2, <3>3, <3>4
  <2> QED BY <1>6, <2>1, <2>2
<1> QED BY <1>4, <1>5, <1>6, <1>7, <1>8, ValidWhen

LEMMA ListedAreValid ==
  ASSUME NEW s \in GenerateBasicScenarios \cup EdgeCases
  PROVE  ValidateScenario(s)
<1>1. ASSUME NEW r \in {2, 3, 4, 5, 7}, NEW t \in {0, 1, 2}, t < r, NEW v \in {3, 5}, NEW behavior
      PROVE  ValidateScenario(Scenario(r, t, v, behavior, <<>>))
  <2>1. \A i \in DOMAIN <<>> : <<>>[i] \subseteq 0 .. r + 2 * t - 1
    OBVIOUS
  <2>2. r \in Nat /\ r >= 1 /\ t \in Nat /\ 3 * t <= r + 2 * t - 1 /\ v \in Nat /\ v >= 1
    BY <1>1
  <2> QED BY <2>1, <2>2, ValidWhen
<1>2. ValidateScenario(Scenario(4, 0, 5, "Honest", <<{0, 1}, {2, 3}>>))
  <2> DEFINE partitions == <<{0, 1}, {2, 3}>>
  <2>1. DOMAIN partitions = 1 .. 2 /\ partitions[1] = {0, 1} /\ partitions[2] = {2, 3}
    OBVIOUS
  <2>2. \A i \in 1 .. 2 : i = 1 \/ i = 2
    OBVIOUS
  <2> HIDE DEF partitions
  <2>3. \A i \in DOMAIN partitions : partitions[i] \subseteq 0 .. 4 + 2 * 0 - 1
    BY <2>1, <2>2
  <2>4. ValidateScenario(Scenario(4, 0, 5, "Honest", partitions))
    BY <2>3, ValidWhen
  <2> QED BY <2>4 DEF partitions
<1>3. \/ s = Scenario(4, 0, 5, "Honest", <<{0, 1}, {2, 3}>>)
      \/ \E r \in {2, 3, 4, 5, 7}, t \in {0, 1, 2}, v \in {3, 5}, behavior \in Behaviors :
           t < r /\ s = Scenario(r, t, v, behavior, <<>>)
  BY DEF GenerateBasicScenarios, EdgeCases, Behaviors
<1> QED BY <1>1, <1>2, <1>3

\* NewExecutor rejects nothing that the generators make, whatever numbers they
\* are configured to draw, as long as there are no more pairs than replicas.
THEOREM ScenariosAreAccepted ==
  ASSUME NEW config, SoundConfig(config),
         Scenarios \subseteq GenerateBasicScenarios \cup EdgeCases \cup Generate(config)
  PROVE  Spec => []ScenariosAccepted
<1> DEFINE I == phase # "rejected" /\ ValidateScenario(scenario)
<1>1. Init => I
  BY GeneratedAreValid, ListedAreValid DEF Init
<1>2. I /\ [Next]_vars => I'
  BY DEF Next, vars, NewExecutor, Start, Run, TargetReached, TimeOut, Finish,
         ApplyByzantineBehavior, Propose, Vote, Say, Receive, Commit
<1>3. I => ScenariosAccepted
  BY DEF ScenariosAccepted
<1> QED BY <1>1, <1>2, <1>3, PTL DEF Spec
=============================================================================
