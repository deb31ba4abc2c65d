----------------------------- MODULE MCHotStuff2 -----------------------------
(***************************************************************************)
(* Instances of HotStuff2 for TLC.  A block is its chain: the sequence of  *)
(* the <<proposer, height>> pairs from the first block to itself, so that  *)
(* blocks of equal content are equal, as the repository's executors make   *)
(* them (test_helpers.go:58-60).                                           *)
(***************************************************************************)
EXTENDS HotStuff2, SequencesExt

CONSTANTS
  MaxChain    \* bound: length of the longest chain of blocks

\* What a leader can put after chain c: itself, with the height of the block
\* it knows c to have, or 1 when it does not know c.  The leaders of a chain
\* follow the views, hence only go up while MaxView < N.
Successors(c) ==
  {<<p, h>> \in {v % N : v \in Views} \X {1, IF c = <<>> THEN 1 ELSE Last(c)[2] + 1} :
     c # <<>> /\ MaxView < N => p >= Last(c)[1]}

Chains[n \in 0 .. MaxChain] ==
  IF n = 0 THEN {<<>>}
  ELSE Chains[n-1] \cup UNION {{Append(c, x) : x \in Successors(c)} : c \in Chains[n-1]}

MCNoBlock == <<>>
MCGenesis == <<<<0, 0>>>>
MCBlocks == (Chains[MaxChain] \ {<<>>}) \cup {MCGenesis}
MCHeight(b) == Last(b)[2]
MCParent(b) == Front(b)
MCCreateBlock(h, parent, proposer) ==
  {b \in {Append(parent, <<proposer, h>>)} : b \in MCBlocks}

-----------------------------------------------------------------------------
(* Messages lost: what makes the instances small *)

Types == {"PROPOSE", "VOTE", "NEWVIEW"}

None == {}
AllBut(delivered) == (Types \X Views \X Replicas) \ delivered
To(type, views, to) == {type} \X views \X to
ToLeader(type, views) == {<<type, v, Leader(v)>> : v \in views}

\* Nobody hears of view 1; votes of view 0 reach the next leader, those of view
\* 2 their own.
SkippingView1 ==
  AllBut(To("PROPOSE", {0, 2}, Replicas) \cup ToLeader("VOTE", {2}) \cup
         {<<"VOTE", 0, 1>>} \cup ToLeader("NEWVIEW", {2}))

\* Votes of view 0 and 2 reach the next leader instead of their own; NEWVIEWs
\* reach the leader of view 2, and replica 1 hears nothing of view 3.
Without1InView3 ==
  AllBut(To("PROPOSE", {0, 1, 2}, Replicas) \cup To("PROPOSE", {3}, Replicas \ {1}) \cup
         {<<"VOTE", 0, 1>>, <<"VOTE", 1, 1>>, <<"VOTE", 2, 3>>, <<"VOTE", 3, 3>>} \cup
         ToLeader("NEWVIEW", {2}))

-----------------------------------------------------------------------------
(* Timers that may fire *)

AllTimers == Replicas \X Views
TimersInViews01 == Replicas \X {0, 1}
TimersToView2 == {<<2, 0>>} \cup (Replicas \X {1})
==============================================================================
