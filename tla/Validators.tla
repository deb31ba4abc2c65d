----------------------------- MODULE Validators -----------------------------
(***************************************************************************)
(* The validator set as the replicas see it: N validators with the indices *)
(* 0 .. N-1, round-robin leaders and the quorum size computed from N.      *)
(* N is any positive number: the configuration only checks that N is at    *)
(* least 3F+1 for the F it has itself computed from N, which always holds. *)
(***************************************************************************)
EXTENDS Integers, FiniteSets

CONSTANT
  N   \* number of validators

ASSUME NAssumption == N \in Nat \ {0}

Replicas == 0 .. (N - 1)

\* Largest number of faulty validators tolerated, rounded down.
F == (N - 1) \div 3

Quorum == 2 * F + 1

Leader(v) == v % N

\* A set of voters as counted by the code: by cardinality alone.
IsQuorum(voters) == Cardinality(voters) >= Quorum

-----------------------------------------------------------------------------
\* Any two quorums share a validator that is not among the F faulty ones.
\* The safety argument rests on it; Config.Validate (config.go:106-111) does
\* not guarantee it unless N = 3F+1.
QuorumsOverlap ==
  \A A, B \in SUBSET Replicas :
     IsQuorum(A) /\ IsQuorum(B) => Cardinality(A \cap B) > F
=============================================================================
