------------------------------- MODULE MCDurable -------------------------------
(* Instances of DurableHotStuff2 for TLC. *)
EXTENDS MCHotStuff2, DurableHotStuff2

\* Votes reach the leader of their view, NEWVIEWs replicas 1 and 2.
NewViewsTo2 ==
  AllBut(To("PROPOSE", {0, 1}, Replicas) \cup ToLeader("VOTE", {0, 1}) \cup
         To("NEWVIEW", {1}, {1, 2}))

\* and replica 3 hears nothing.
Without3 == NewViewsTo2 \cup (Types \X Views \X {3})

\* Votes and NEWVIEWs reach the leader of view 1 only, which then forms the QC
\* of view 0, before it proposes on a quorum of NEWVIEWs or after.
ToLeaderOf1 ==
  AllBut(To("PROPOSE", {0, 1}, Replicas) \cup To("VOTE", {0, 1}, {1}) \cup
         To("NEWVIEW", {1}, {1}))

TimerOf0 == {<<0, 0>>}
TimersOfFollowers == {1, 2, 3} \X {0}
CrashesOf2 == {2} \X Views
==============================================================================
