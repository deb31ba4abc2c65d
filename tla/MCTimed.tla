------------------------------- MODULE MCTimed -------------------------------
(* Instances of TimedHotStuff2 for TLC. *)
EXTENDS TimedHotStuff2, SequencesExt

CONSTANTS Second, MaxChain

\* Chains of the leaders of increasing views, of which one may propose twice.
\* A leader gives its block the height after the parent's, or 1 when it does
\* not know the parent, which happens once in a chain.
Proposers(n) ==
  {[i \in 1 .. n |-> vs[i] % N] :
     vs \in {f \in [1 .. n -> Views] :
              /\ \A i \in 2 .. n : f[i-1] <= f[i]
              /\ Cardinality({f[i] : i \in 1 .. n}) >= n - 1}}
HeightsOf(n) == {[i \in 1 .. n |-> IF i < k THEN i ELSE i - k + 1] : k \in 1 .. n}
Chains(n) ==
  {[i \in 1 .. n |-> <<p[i], h[i]>>] : p \in Proposers(n), h \in HeightsOf(n)}

MCNoBlock == <<>>
MCGenesis == <<<<0, 0>>>>
MCBlocks == (UNION {Chains(n) : n \in 1 .. MaxChain}) \cup {MCGenesis}
MCHeight(b) == Last(b)[2]
MCParent(b) == Front(b)
MCCreateBlock(h, parent, proposer) ==
  {b \in {Append(parent, <<proposer, h>>)} : b \in MCBlocks}

None == {}
AllTimers == Replicas \X Views
Demo == DemoPacemakerConfig(Second)
\* Time for both leaders' waits and for the messages in between.
Ample ==
  [Demo EXCEPT !.TimeoutPropose = 2 * Demo.MinBlockTime + 7,
               !.MaxTimeout     = 3 * Demo.TimeoutPropose]
Production == ProductionPacemakerConfig(Second, Second)
OneDown == {{}} \cup {{r} : r \in Replicas}
\* Replica 3 a tick before the others time out, or never.
Late3 == {<<3, 1>>}
SlowProposals == {"PROPOSE"} \X {1, 2}
AllUp == {{}}
==============================================================================
