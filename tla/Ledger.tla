-------------------------------- MODULE Ledger --------------------------------
(***************************************************************************)
(* What the consensus core promises, without contexts, messages, views to  *)
(* enter, timers or goroutines: replicas vote for blocks, and enter blocks *)
(* into their ledgers.                                                     *)
(*                                                                         *)
(* A vote goes to a block on top of a certified one; a block is entered    *)
(* when it and a child of it were certified in consecutive views, in a     *)
(* place of the ledger, its height, that is still empty; nothing is taken  *)
(* back.  A vote may be the one that completes a certificate, so that both *)
(* happen in one step, and they are those of one replica.                  *)
(***************************************************************************)
EXTENDS Integers

CONSTANTS
  Replicas, Views, Blocks, Genesis, NoBlock,
  Height(_), Parent(_),
  IsQuorum(_)   \* whether a set of replicas certifies what it voted for

VARIABLES
  votes,    \* every vote there has been
  ledger    \* ledger[r]: the blocks r has committed

Voted(r, v, b) == [view |-> v, block |-> b, voter |-> r]

\* A quorum of the votes vs is for block b in view v.
Certified(vs, v, b) == IsQuorum({r \in Replicas : Voted(r, v, b) \in vs})

Init ==
  /\ votes = {}
  /\ ledger = [r \in Replicas |-> {Genesis}]

\* x is one of the votes vs of a quorum.
CertifiedBy(vs, x) == Certified(vs, x.view, x.block)

Vote(r) ==
  \E v \in Views, b \in Blocks :
    /\ votes' = votes \cup {Voted(r, v, b)}
    /\ Parent(b) = NoBlock \/ \E x \in votes : x.block = Parent(b) /\ CertifiedBy(votes, x)

Enter(r) ==
  \E x \in votes' :
    LET b == Parent(x.block)
    IN  /\ CertifiedBy(votes', x)
        /\ x.view > 0 /\ Certified(votes', x.view - 1, b)
        /\ \A y \in ledger[r] : Height(y) # Height(b)
        /\ ledger' = [ledger EXCEPT ![r] = @ \cup {b}]

Step(r) ==
  /\ UNCHANGED votes \/ Vote(r)
  /\ UNCHANGED ledger \/ Enter(r)

Next == \E r \in Replicas : Step(r)

Spec == Init /\ [][Next]_<<votes, ledger>>
==============================================================================
