------------------------------- MODULE MCTwins -------------------------------
(* Instance of TwinsExecutor for TLC. *)
EXTENDS TwinsExecutor

CONSTANTS b1, b2

TwoBlocks == {b1, b2}

\* A pair of twins and three replicas, of which node 3, a twin, proposes in two
\* views; a pair of twins and four replicas, of which node 0 proposes and the
\* twins vote.  They are connected or in two groups.
MCExecuted ==
  {Scenario(replicas, 1, 1, behavior, <<>>) : replicas \in {3, 4}, behavior \in Behaviors} \cup
  {Scenario(3, 1, 1, behavior, <<{0, 1, 4}, {2, 3}>>) :
     behavior \in {"Honest", "Equivocation"}} \cup
  {Scenario(4, 1, 1, "Equivocation", <<{0, 4, 5}, {1, 2, 3}>>)}

MCScenarios == GenerateComprehensive \cup MCExecuted
MCProposers == {<<3, 7>>, <<3, 11>>, <<0, 5>>}
MCListeners == {4, 5}
MCCommitters == {0, 3}
MCHeights == {1, 2}
MCSymmetry == Permutations(TwoBlocks)
==============================================================================
