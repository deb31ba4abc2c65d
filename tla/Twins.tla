-------------------------------- MODULE Twins --------------------------------
(***************************************************************************)
(* The scenarios of the twins testing framework (twins.go, generator.go):  *)
(* correct replicas with the identifiers 0 .. Replicas-1, then pairs of    *)
(* twins, nodes that share the key and the index of one validator.         *)
(***************************************************************************)
EXTENDS Integers, Sequences, FiniteSets

Behaviors == {"Honest", "DoubleSign", "Equivocation", "Silent", "Random", "Delay"}

Scenario(replicas, twins, views, behavior, partitions) ==
  [ Replicas |-> replicas, Twins |-> twins, Views |-> views,
    Behavior |-> behavior, Partitions |-> partitions ]

TotalNodes(s) == s.Replicas + 2 * s.Twins

Nodes(s) == 0 .. TotalNodes(s) - 1

ValidateScenario(s) ==
  /\ s.Replicas >= 1
  /\ s.Twins >= 0
  /\ s.Twins <= (TotalNodes(s) - 1) \div 3
  /\ s.Views >= 1
  /\ \A i \in DOMAIN s.Partitions : s.Partitions[i] \subseteq Nodes(s)

IsTwin(n, s) == n >= s.Replicas

\* Both twins of a pair have the index of the pair's validator.
GetValidatorIndex(n, s) ==
  IF IsTwin(n, s) THEN s.Replicas + (n - s.Replicas) \div 2 ELSE n

\* Nodes in different partitions; one listed in none talks to everybody, one
\* listed twice is in the last of its partitions.
Partition(s, n) ==
  LET listing == {i \in DOMAIN s.Partitions : n \in s.Partitions[i]}
  IN  IF listing = {} THEN 0 ELSE CHOOSE i \in listing : \A j \in listing : j <= i

IsPartitioned(s, from, to) ==
  /\ Partition(s, from) # 0
  /\ Partition(s, to) # 0
  /\ Partition(s, from) # Partition(s, to)

-----------------------------------------------------------------------------
(* Generated scenarios *)

GenerateBasicScenarios ==
  { Scenario(4, 0, 5, "Honest", <<>>),
    Scenario(3, 1, 5, "Honest", <<>>),
    Scenario(3, 1, 5, "DoubleSign", <<>>),
    Scenario(4, 0, 5, "Honest", <<{0, 1}, {2, 3}>>),
    Scenario(5, 2, 5, "DoubleSign", <<>>) }

EdgeCases ==
  { Scenario(4, 0, 3, "Honest", <<>>),
    Scenario(2, 1, 5, "DoubleSign", <<>>),
    Scenario(7, 0, 5, "Honest", <<>>),
    Scenario(5, 2, 5, "DoubleSign", <<>>),
    Scenario(3, 1, 5, "Silent", <<>>) }

\* The largest number of pairs drawn for a number of replicas.  The faults
\* tolerated are those of the nodes with all the configured pairs.
MaxTwins(config, replicas) ==
  LET f == (replicas + 2 * config.MaxTwins - 1) \div 3
  IN  IF config.MaxTwins > f THEN f ELSE config.MaxTwins

\* Mutation: the second group ends one node too late.
PartitionsTooLong(nodes) ==
  {<<0 .. split - 1, split .. nodes>> : split \in 1 .. nodes - 1}

\* Two groups of consecutive nodes.
GeneratePartitions(nodes) ==
  {<<0 .. split - 1, split .. nodes - 1>> : split \in 1 .. nodes - 1}

DefaultGeneratorConfig ==
  [ MinReplicas |-> 3, MaxReplicas |-> 7, MinTwins |-> 0, MaxTwins |-> 2,
    MinViews |-> 3, MaxViews |-> 10, IncludePartitions |-> TRUE ]

\* What Generate may return with a number of replicas and of pairs.
Generated(config, replicas, twins) ==
  { Scenario(replicas, twins, views, behavior, partitions) :
      views \in config.MinViews .. config.MaxViews,
      behavior \in IF twins = 0 THEN {"Honest"} ELSE {"Honest", "DoubleSign", "Silent", "Random"},
      partitions \in {<<>>} \cup IF config.IncludePartitions
                                 THEN GeneratePartitions(replicas + 2 * twins) ELSE {} }

Generate(config) ==
  UNION {UNION {Generated(config, r, t) :
                  t \in IF MaxTwins(config, r) > 0
                        THEN config.MinTwins .. MaxTwins(config, r) ELSE {0}} :
           r \in config.MinReplicas .. config.MaxReplicas}

GenerateComprehensive ==
  GenerateBasicScenarios \cup EdgeCases \cup Generate(DefaultGeneratorConfig)
==============================================================================
