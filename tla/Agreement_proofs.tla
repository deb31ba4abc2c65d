--------------------------- MODULE Agreement_proofs ---------------------------
(***************************************************************************)
(* Agreement of the replicas' ledgers, for every number of validators of   *)
(* which two quorums share enough, and what it rests on: one vote per view,*)
(* one QC per view, locks on two-chains.                                   *)
(*                                                                         *)
(* The code does not guarantee agreement as it stands (the runs backwards  *)
(* and late_start).  It is proved of the steps that never take a replica   *)
(* back to an earlier view and never propose a block in two views, when    *)
(* either quorums share three validators, or leaders obey the SafeNode rule*)
(* like everyone else.                                                     *)
(*                                                                         *)
(* The first parts are about what a replica's vote commits it to: one vote *)
(* a view unless it leads, a verified block, and a lock at least as high as*)
(* the certificate of the block's parent.                                  *)
(***************************************************************************)
EXTENDS HotStuff2_proofs

-----------------------------------------------------------------------------
(* What a vote commits a replica to *)

\* The lock stays or moves to a higher view.
LockRises(c, d) ==
  c.lockedQC # NoQC => d.lockedQC # NoQC /\ c.lockedQC.view <= d.lockedQC.view

\* A vote is dropped only KeepViews behind the current view.
VotesKept(c, d) ==
  \A x \in c.votes : x \in d.votes \/ x.view + KeepViews < d.view

\* Neither the view changes nor is anything lost.
Calm(c, d) == LockRises(c, d) /\ c.votes \subseteq d.votes /\ d.view = c.view

\* The view may change.
Moves(c, d) == LockRises(c, d) /\ c.votes \subseteq d.votes

\* The SafeNode rule, the certificates in S counted.
SafeBlock(S, a, lock, b) ==
  lock # NoQC =>
    \/ \E q \in QCs : CertifiedBy(S, q) /\ q.block = Parent(b) /\ q.view > lock.view
    \/ IsAncestor(a, lock.block, b)

\* The lock is at least as high as some certificate of b's parent.
LockedOnParent(S, d, b) ==
  Parent(b) # NoBlock =>
    \E q \in QCs : /\ CertifiedBy(S, q)
                   /\ q.block = Parent(b)
                   /\ d.lockedQC # NoQC
                   /\ d.lockedQC.view >= q.view

\* A vote of r as the leader: in its view, or in the view propose has read.
LeaderVote(r, T, d, v) ==
  /\ Leader(v) = r
  /\ v = d.view \/ [kind |-> "create", view |-> v] \in T

FollowerVote(r, S, c, d, v, b) ==
  /\ Leader(v) # r
  /\ v = d.view
  /\ [view |-> v, block |-> b, voter |-> r] \in d.votes
  /\ ~HasVoted(c, v, r)
  /\ Verify(b)
  /\ \E a \in Contexts : SafeBlock(S, a, c.lockedQC, b)
  /\ LockedOnParent(S, d, b)

\* r signs nothing, or one vote in one of its two roles.
SignsOne(r, S, T, c, e) ==
  \/ e.cast = {}
  \/ \E v \in Views, b \in Blocks :
       /\ e.cast = {[view |-> v, block |-> b, voter |-> r]}
       /\ LeaderVote(r, T, e.ctx, v) \/ FollowerVote(r, S, c, e.ctx, v, b)

\* What a handler of r with context c and goroutines T may do.
VoteEffect(r, S, T, c, e) ==
  /\ LockRises(c, e.ctx)
  /\ VotesKept(c, e.ctx)
  /\ SignsOne(r, S, T, c, e)
  /\ \A t \in e.started : t.kind = "create" => t.view = e.ctx.view /\ Leader(t.view) = r

-----------------------------------------------------------------------------
(* The operations *)

LEMMA LockType ==
  ASSUME NEW c \in Contexts, c.lockedQC # NoQC
  PROVE  c.lockedQC \in QCs /\ c.lockedQC.view \in Nat
  BY BoundsAssumption DEF Contexts, QCs, Views

LEMMA LockRisesReflexive ==
  ASSUME NEW c \in Contexts, NEW d, d.lockedQC = c.lockedQC
  PROVE  LockRises(c, d)
<1>1. c.lockedQC # NoQC => c.lockedQC.view <= c.lockedQC.view
  BY LockType
<1> QED
  BY <1>1 DEF LockRises

LEMMA LockRisesTransitive ==
  ASSUME NEW c \in Contexts, NEW d \in Contexts, NEW e \in Contexts,
         LockRises(c, d), LockRises(d, e)
  PROVE  LockRises(c, e)
<1> SUFFICES ASSUME c.lockedQC # NoQC
             PROVE  e.lockedQC # NoQC /\ c.lockedQC.view <= e.lockedQC.view
  BY DEF LockRises
<1>1. /\ d.lockedQC # NoQC /\ c.lockedQC.view <= d.lockedQC.view
      /\ e.lockedQC # NoQC /\ d.lockedQC.view <= e.lockedQC.view
  BY DEF LockRises
<1>2. c.lockedQC.view \in Nat /\ d.lockedQC.view \in Nat /\ e.lockedQC.view \in Nat
  BY <1>1, LockType
<1> QED
  BY <1>1, <1>2

LEMMA CalmReflexive ==
  ASSUME NEW c \in Contexts
  PROVE  Calm(c, c)
  BY LockRisesReflexive DEF Calm

LEMMA CalmTransitive ==
  ASSUME NEW c \in Contexts, NEW d \in Contexts, NEW e \in Contexts,
         Calm(c, d), Calm(d, e)
  PROVE  Calm(c, e)
  BY LockRisesTransitive DEF Calm

LEMMA MovesTransitive ==
  ASSUME NEW c \in Contexts, NEW d \in Contexts, NEW e \in Contexts,
         Moves(c, d), Moves(d, e)
  PROVE  Moves(c, e)
  BY LockRisesTransitive DEF Moves

LEMMA CalmMoves ==
  ASSUME NEW c, NEW d, Calm(c, d)
  PROVE  Moves(c, d)
  BY DEF Calm, Moves

LEMMA MovesKeeps ==
  ASSUME NEW c, NEW d, Moves(c, d)
  PROVE  LockRises(c, d) /\ VotesKept(c, d)
  BY DEF Moves, VotesKept

LEMMA CalmOperations ==
  ASSUME NEW c \in Contexts
  PROVE  /\ \A x : Calm(c, AddVote(c, x)) /\ x \in AddVote(c, x).votes
         /\ \A b : Calm(c, AddBlock(c, b))
         /\ \A q : Calm(c, AddQC(c, q))
         /\ \A q : Calm(c, UpdateHighQC(c, q))
         /\ \A v, r, q : Calm(c, AddNewView(c, v, r, q))
         /\ \A b : Calm(c, Commit(c, b))
<1>1. /\ \A x : /\ AddVote(c, x).lockedQC = c.lockedQC
                /\ AddVote(c, x).votes = c.votes \cup {x}
                /\ AddVote(c, x).view = c.view
      /\ \A b : /\ AddBlock(c, b).lockedQC = c.lockedQC
                /\ AddBlock(c, b).votes = c.votes
                /\ AddBlock(c, b).view = c.view
      /\ \A q : /\ AddQC(c, q).lockedQC = c.lockedQC
                /\ AddQC(c, q).votes = c.votes
                /\ AddQC(c, q).view = c.view
  BY DEF Contexts, AddVote, AddBlock, AddQC
<1>2. /\ \A q : /\ UpdateHighQC(c, q).lockedQC = c.lockedQC
                /\ UpdateHighQC(c, q).votes = c.votes
                /\ UpdateHighQC(c, q).view = c.view
      /\ \A v, r, q : /\ AddNewView(c, v, r, q).lockedQC = c.lockedQC
                      /\ AddNewView(c, v, r, q).votes = c.votes
                      /\ AddNewView(c, v, r, q).view = c.view
      /\ \A b : /\ Commit(c, b).lockedQC = c.lockedQC
                /\ Commit(c, b).votes = c.votes
                /\ Commit(c, b).view = c.view
  BY DEF Contexts, UpdateHighQC, AddNewView, Commit
<1>3. \A d : d.lockedQC = c.lockedQC => LockRises(c, d)
  BY LockRisesReflexive
<1> QED
  BY <1>1, <1>2, <1>3 DEF Calm

\* The lock it leaves is at least as high as the QC.
LEMMA UpdateLockedQCCalm ==
  ASSUME NEW c \in Contexts, NEW q \in QCs
  PROVE  LET d == UpdateLockedQC(c, q)
         IN  Calm(c, d) /\ d.lockedQC # NoQC /\ d.lockedQC.view >= q.view
<1> DEFINE d == UpdateLockedQC(c, q)
<1>1. q # NoQC /\ q.view \in Nat
  BY NoQCAssumption, BoundsAssumption DEF QCs, Views
<1>2. CASE Supersedes(q, c.lockedQC)
  <2>1. d.lockedQC = q /\ d.votes = c.votes /\ d.view = c.view
    BY <1>2 DEF Contexts, UpdateLockedQC
  <2> HIDE DEF d
  <2>2. LockRises(c, d)
    BY <1>1, <1>2, <2>1, LockType DEF LockRises, Supersedes
  <2>3. Calm(c, d) /\ d.lockedQC # NoQC /\ d.lockedQC.view >= q.view
    BY <1>1, <2>1, <2>2 DEF Calm
  <2> QED
    BY <2>3 DEF d
<1>3. CASE ~Supersedes(q, c.lockedQC)
  <2>1. d = c
    BY <1>3 DEF UpdateLockedQC
  <2>2. c.lockedQC # NoQC /\ ~(q.view > c.lockedQC.view)
    BY <1>1, <1>3 DEF Supersedes
  <2>3. c.lockedQC.view >= q.view
    BY <1>1, <2>2, LockType
  <2> QED
    BY <2>1, <2>2, <2>3, CalmReflexive
<1> QED
  BY <1>2, <1>3

LEMMA SetViewMoves ==
  ASSUME NEW c \in Contexts, NEW v
  PROVE  Moves(c, SetView(c, v)) /\ SetView(c, v).view = v
<1>1. SetView(c, v).lockedQC = c.lockedQC /\ SetView(c, v).votes = c.votes /\ SetView(c, v).view = v
  BY DEF Contexts, SetView
<1> QED
  BY <1>1, LockRisesReflexive DEF Moves

\* Pruning for a view that is or will be the current one.
LEMMA PruneVotesKeeps ==
  ASSUME NEW c \in Contexts, NEW v \in Views, NEW d, d.view = v,
         LockRises(PruneVotes(c, v), d), PruneVotes(c, v).votes \subseteq d.votes
  PROVE  LockRises(c, d) /\ VotesKept(c, d)
<1>1. /\ PruneVotes(c, v).lockedQC = c.lockedQC
      /\ PruneVotes(c, v).votes = {x \in c.votes : x.view + KeepViews >= v}
  BY DEF Contexts, PruneVotes
<1>2. \A x \in c.votes : x.view + KeepViews \in Int
  BY BoundsAssumption DEF Contexts, Votes, Views
<1>3. v \in Int
  BY BoundsAssumption DEF Views
<1>4. VotesKept(c, d)
  BY <1>1, <1>2, <1>3 DEF VotesKept
<1>5. LockRises(c, d)
  BY <1>1 DEF LockRises
<1> QED
  BY <1>4, <1>5

-----------------------------------------------------------------------------
(* Forming QCs and counting votes *)

LEMMA FormQCCalm ==
  ASSUME NEW S, NEW c, Good(S, c), NEW qc \in QCs, CertifiedBy(S, qc)
  PROVE  Calm(c, FormQC(c, qc))
<1> DEFINE c1 == AddQC(c, qc)
           c2 == UpdateHighQC(c1, qc)
           c3 == UpdateLockedQC(c2, qc)
           c4 == CheckCommit(c3, qc)
<1>1. Good(S, c1) /\ Calm(c, c1)
  BY AddQCGood, CalmOperations DEF Good
<1> HIDE DEF c1
<1>2. Good(S, c2) /\ Calm(c1, c2)
  BY <1>1, UpdateHighQCGood, CalmOperations DEF Good
<1> HIDE DEF c2
<1>3. Good(S, c3) /\ Calm(c2, c3)
  BY <1>2, UpdateLockedQCGood, UpdateLockedQCCalm DEF Good
<1> HIDE DEF c3
<1>4. Good(S, c4)
  BY <1>3, CheckCommitGood
<1>5. Calm(c3, c4)
  BY <1>3, CalmOperations, CalmReflexive DEF CheckCommit, Good
<1> HIDE DEF c4
<1>6. {c, c1, c2, c3, c4} \subseteq Contexts
  BY <1>1, <1>2, <1>3, <1>4 DEF Good
<1>7. Calm(c, c2)
  BY <1>1, <1>2, <1>6, CalmTransitive
<1>8. Calm(c, c3)
  BY <1>3, <1>6, <1>7, CalmTransitive
<1>9. Calm(c, c4)
  BY <1>5, <1>6, <1>8, CalmTransitive
<1> QED
  BY <1>9 DEF FormQC, c1, c2, c3, c4

\* A quorum of stored votes certifies, since they were signed.
LEMMA QuorumCertifies ==
  ASSUME NEW S, NEW c, Good(S, c), NEW v, NEW b, QuorumReached(c, v, b)
  PROVE  CertifiedBy(S, [view |-> v, block |-> b])
<1> DEFINE qc == [view |-> v, block |-> b]
           A == Voters(c, v, b)
           B == {r \in Replicas : [view |-> qc.view, block |-> qc.block, voter |-> r] \in S}
<1>1. A \subseteq B /\ B \in SUBSET Replicas
  BY DEF Voters, Good, Backed
<1>2. IsQuorum(A)
  BY DEF QuorumReached
<1> HIDE DEF A, B
<1>3. IsQuorum(B)
  BY <1>1, <1>2, QuorumMonotone
<1> QED
  BY <1>3 DEF CertifiedBy, B

LEMMA CountVoteCalm ==
  ASSUME NEW S, NEW c, Good(S, c), NEW r \in Replicas, NEW v \in Views, NEW b \in Blocks,
         NEW voter \in Replicas, [view |-> v, block |-> b, voter |-> voter] \in S
  PROVE  LET e == CountVote(r, c, v, b, voter)
         IN  /\ Calm(c, e.ctx)
             /\ [view |-> v, block |-> b, voter |-> voter] \in e.ctx.votes
             /\ \A t \in e.started : t.kind # "create"
<1> DEFINE x == [view |-> v, block |-> b, voter |-> voter]
           c1 == AddVote(c, x)
           c2 == TryFormQC(c1, v, b)
           e == CountVote(r, c, v, b, voter)
<1>1. e.ctx = c2 /\ e.started = AdvanceTasks(r, c1, v, b)
  BY DEF CountVote, Only
<1>2. \A t \in e.started : t.kind # "create"
  BY <1>1 DEF AdvanceTasks
<1> HIDE DEF e
<1>3. x \in Votes
  BY DEF Votes
<1>4. Good(S, c1) /\ Calm(c, c1) /\ x \in c1.votes
  BY <1>3, AddVoteGood, CalmOperations DEF Good
<1> HIDE DEF x, c1
<1>5. Good(S, c2)
  BY <1>4, TryFormQCGood
<1>6. Calm(c1, c2)
  <2> DEFINE qc == [view |-> v, block |-> b]
  <2>1. CASE QuorumReached(c1, v, b)
    <3>1. qc \in QCs /\ CertifiedBy(S, qc)
      BY <1>4, <2>1, QuorumCertifies DEF QCs
    <3>2. c2 = FormQC(c1, qc)
      BY <2>1 DEF TryFormQC
    <3> HIDE DEF qc, c2
    <3> QED
      BY <1>4, <3>1, <3>2, FormQCCalm
  <2>2. CASE ~QuorumReached(c1, v, b)
    BY <1>4, <2>2, CalmReflexive DEF TryFormQC, Good
  <2> QED
    BY <2>1, <2>2
<1> HIDE DEF c2
<1>7. Calm(c, c2)
  BY <1>4, <1>5, <1>6, CalmTransitive DEF Good
<1>8. x \in c2.votes
  BY <1>4, <1>6 DEF Calm
<1>9. Calm(c, e.ctx) /\ x \in e.ctx.votes /\ \A t \in e.started : t.kind # "create"
  BY <1>1, <1>2, <1>7, <1>8
<1> QED
  BY <1>9 DEF e, x

LEMMA LockCalm ==
  ASSUME NEW S, NEW c, Good(S, c), NEW qc \in QCs \cup {NoQC}, qc # NoQC => CertifiedBy(S, qc)
  PROVE  LET d == Lock(c, qc)
         IN  /\ Calm(c, d)
             /\ qc # NoQC => d.lockedQC # NoQC /\ d.lockedQC.view >= qc.view
<1>1. CASE qc = NoQC
  BY <1>1, CalmReflexive DEF Lock, Good
<1>2. CASE qc # NoQC
  <2> DEFINE c1 == AddQC(c, qc)
             d == UpdateLockedQC(c1, qc)
  <2>1. Lock(c, qc) = d
    BY <1>2 DEF Lock
  <2>2. Good(S, c1) /\ Calm(c, c1)
    BY <1>2, AddQCGood, CalmOperations DEF Good
  <2> HIDE DEF c1
  <2>3. Good(S, d) /\ Calm(c1, d) /\ d.lockedQC # NoQC /\ d.lockedQC.view >= qc.view
    BY <1>2, <2>2, UpdateLockedQCGood, UpdateLockedQCCalm DEF Good
  <2> HIDE DEF d
  <2>4. Calm(c, d)
    BY <2>2, <2>3, CalmTransitive DEF Good
  <2> QED
    BY <2>1, <2>3, <2>4
<1> QED
  BY <1>1, <1>2

-----------------------------------------------------------------------------
(* Handlers *)

LEMMA RaiseHighQCCalm ==
  ASSUME NEW S, NEW c, Good(S, c), NEW qc \in QCs, CertifiedBy(S, qc)
  PROVE  Calm(c, AddQC(UpdateHighQC(c, qc), qc))
<1> DEFINE c1 == UpdateHighQC(c, qc)
           c2 == AddQC(c1, qc)
<1>1. Good(S, c1) /\ Calm(c, c1)
  BY UpdateHighQCGood, CalmOperations DEF Good
<1> HIDE DEF c1
<1>2. Good(S, c2) /\ Calm(c1, c2)
  BY <1>1, AddQCGood, CalmOperations DEF Good
<1> HIDE DEF c2
<1>3. Calm(c, c2)
  BY <1>1, <1>2, CalmTransitive DEF Good
<1> QED
  BY <1>3 DEF c1, c2

\* Synchronising leaves the lock and the votes alone.
LEMMA SyncByProposalSame ==
  ASSUME NEW c \in Contexts, NEW m \in Messages
  PROVE  LET d == SyncByProposal(c, m)
         IN  d.lockedQC = c.lockedQC /\ d.votes = c.votes
<1> DEFINE c1 == SetView(c, m.view)
           c2 == UpdateHighQC(c1, m.qc)
<1>1. CASE m.qc = NoQC
  BY <1>1 DEF SyncByProposal
<1>2. CASE m.qc # NoQC
  <2>1. m.qc \in QCs /\ m.view \in Views
    BY <1>2 DEF Messages
  <2>2. c1 \in Contexts /\ c1.lockedQC = c.lockedQC /\ c1.votes = c.votes
    BY <2>1 DEF SetView, Contexts
  <2> HIDE DEF c1
  <2>3. c2 \in Contexts /\ c2.lockedQC = c1.lockedQC /\ c2.votes = c1.votes
    BY <2>1, <2>2 DEF UpdateHighQC, Contexts
  <2> HIDE DEF c2
  <2>4. AddQC(c2, m.qc).lockedQC = c2.lockedQC /\ AddQC(c2, m.qc).votes = c2.votes
    BY <2>3 DEF AddQC, Contexts
  <2>5. SyncByProposal(c, m) \in {c, c1, AddQC(c2, m.qc)}
    BY DEF SyncByProposal, c1, c2
  <2> QED
    BY <2>2, <2>3, <2>4, <2>5
<1> QED
  BY <1>1, <1>2

LEMMA EnterWithNewViewMoves ==
  ASSUME NEW S, NEW c, Good(S, c), NEW r \in Replicas, NEW v \in Views
  PROVE  LET e == EnterWithNewView(r, c, v)
         IN  Moves(c, e.ctx) /\ e.ctx.view = v /\ e.started = {}
<1> DEFINE c1 == SetView(c, v)
           c2 == AddNewView(c1, v, r, c.highQC)
           e == EnterWithNewView(r, c, v)
<1>1. e.ctx = c2 /\ e.started = {}
  BY DEF EnterWithNewView, Only
<1> HIDE DEF e
<1>2. Good(S, c1) /\ Moves(c, c1) /\ c1.view = v
  BY SetViewGood, SetViewMoves DEF Good
<1>3. c.highQC \in QCs \cup {NoQC} /\ (c.highQC # NoQC => CertifiedBy(S, c.highQC))
  BY DEF Good, Contexts, Backed
<1> HIDE DEF c1
<1>4. Good(S, c2) /\ Calm(c1, c2)
  BY <1>2, <1>3, AddNewViewGood, CalmOperations DEF Good
<1> HIDE DEF c2
<1>5. Moves(c, c2) /\ c2.view = v
  BY <1>2, <1>4, CalmMoves, MovesTransitive DEF Good, Calm
<1>6. Moves(c, e.ctx) /\ e.ctx.view = v /\ e.started = {}
  BY <1>1, <1>5
<1> QED
  BY <1>6 DEF e

LEMMA SyncByNewViewMoves ==
  ASSUME NEW S, NEW c, Good(S, c), NEW r \in Replicas, NEW m \in Messages, GoodMessage(S, m)
  PROVE  LET e == SyncByNewView(r, RecordNewView(c, m), m)
         IN  Moves(c, e.ctx) /\ e.started = {}
<1> DEFINE c1 == AddNewView(c, m.view, m.from, m.qc)
           d == RecordNewView(c, m)
           e == SyncByNewView(r, d, m)
<1>1. /\ m.view \in Views /\ m.from \in Replicas /\ m.qc \in QCs \cup {NoQC}
      /\ m.qc # NoQC => CertifiedBy(S, m.qc)
  BY DEF Messages, GoodMessage
<1>2. Good(S, c1) /\ Calm(c, c1)
  BY <1>1, AddNewViewGood, CalmOperations DEF Good
<1>3. (m.qc = NoQC => d = c1) /\ (m.qc # NoQC => d = AddQC(UpdateHighQC(c1, m.qc), m.qc))
  BY DEF RecordNewView
<1>4. Good(S, d)
  BY RecordNewViewGood
<1>5. e = EnterWithNewView(r, d, m.view) \/ e = Only(d)
  BY DEF SyncByNewView
<1> HIDE DEF c1, d, e
<1>6. Calm(c1, d)
  BY <1>1, <1>2, <1>3, CalmReflexive, RaiseHighQCCalm DEF Good
<1>7. Moves(c, d)
  BY <1>2, <1>4, <1>6, CalmTransitive, CalmMoves DEF Good
<1>8. CASE e = Only(d)
  <2>1. Moves(c, e.ctx) /\ e.started = {}
    BY <1>7, <1>8 DEF Only
  <2> QED
    BY <2>1 DEF e, d
<1>9. CASE e = EnterWithNewView(r, d, m.view)
  <2>1. Moves(d, e.ctx) /\ e.started = {}
    BY <1>1, <1>4, <1>9, EnterWithNewViewMoves
  <2>2. e.ctx \in Contexts
    BY <1>1, <1>4, <1>9, EnterWithNewViewGood DEF GoodEffect, Good
  <2>3. Moves(c, e.ctx) /\ e.started = {}
    BY <1>4, <1>7, <2>1, <2>2, MovesTransitive DEF Good
  <2> QED
    BY <2>3 DEF e, d
<1> QED
  BY <1>5, <1>8, <1>9

\* Both ways to vote count the vote in after a calm change.
LEMMA CastVotes ==
  ASSUME NEW S, NEW c, Good(S, c), NEW r \in Replicas, NEW v \in Views, NEW b \in Blocks,
         NEW sent
  PROVE  LET x == [view |-> v, block |-> b, voter |-> r]
             e == [CountVote(r, c, v, b, r) EXCEPT !.sent = sent, !.cast = {x}]
         IN  /\ Calm(c, e.ctx)
             /\ x \in e.ctx.votes
             /\ e.cast = {x}
             /\ \A t \in e.started : t.kind # "create"
<1> DEFINE x == [view |-> v, block |-> b, voter |-> r]
           T == S \cup {x}
           e == CountVote(r, c, v, b, r)
           f == [e EXCEPT !.sent = sent, !.cast = {x}]
<1>1. Good(T, c) /\ x \in T
  BY GoodMonotone
<1> HIDE DEF T
<1>2. e \in Effects
  BY <1>1, CountVoteGood
<1>3. Calm(c, e.ctx) /\ x \in e.ctx.votes /\ \A t \in e.started : t.kind # "create"
  BY <1>1, CountVoteCalm
<1> HIDE DEF e
<1>4. f.cast = {x} /\ f.ctx = e.ctx /\ f.started = e.started
  BY <1>2 DEF Effects
<1>5. Calm(c, f.ctx) /\ x \in f.ctx.votes /\ f.cast = {x} /\ \A t \in f.started : t.kind # "create"
  BY <1>3, <1>4
<1> QED
  BY <1>5 DEF f, e, x

LEMMA ProposeVotes ==
  ASSUME NEW S, NEW c, Good(S, c), NEW r \in Replicas, NEW v \in Views,
         NEW justify \in QCs \cup {NoQC}, NEW b \in NewBlocks(r, c, justify)
  PROVE  LET e == Propose(r, c, v, justify, b)
         IN  /\ Calm(c, e.ctx)
             /\ b \in Blocks
             /\ e.cast = {[view |-> v, block |-> b, voter |-> r]}
             /\ \A t \in e.started : t.kind # "create"
<1> DEFINE c1 == AddBlock(c, b)
           x == [view |-> v, block |-> b, voter |-> r]
           sent == {ProposeMessage(r, v, b, justify)}
           e == [CountVote(r, c1, v, b, r) EXCEPT !.sent = sent, !.cast = {x}]
<1>1. ParentOf(justify) \in Blocks \cup {NoBlock}
  BY DEF ParentOf, QCs
<1>2. NextHeight(c, justify) \in {1} \cup {Height(a) + 1 : a \in Blocks}
  BY DEF NextHeight, Good, Contexts
<1>3. b \in Blocks /\ Height(b) > 0
  BY <1>1, <1>2, CreateBlockAssumption, BlocksAssumption DEF NewBlocks
<1>4. Good(S, c1) /\ Calm(c, c1)
  BY <1>3, AddBlockGood, CalmOperations DEF Good
<1> HIDE DEF c1
<1> HIDE DEF sent
<1>5. /\ Calm(c1, e.ctx)
      /\ x \in e.ctx.votes
      /\ e.cast = {x}
      /\ \A t \in e.started : t.kind # "create"
  BY <1>3, <1>4, CastVotes
<1>6. e = Propose(r, c, v, justify, b)
  BY DEF Propose, c1, sent
<1>7. e.ctx \in Contexts
  <2>1. Good(S \cup {x}, c1) /\ x \in S \cup {x}
    BY <1>4, GoodMonotone
  <2> DEFINE f == CountVote(r, c1, v, b, r)
  <2>2. f \in Effects
    BY <1>3, <2>1, CountVoteGood
  <2>3. e = [f EXCEPT !.sent = sent, !.cast = {x}]
    OBVIOUS
  <2> HIDE DEF f, e
  <2>4. e.ctx = f.ctx
    BY <2>2, <2>3 DEF Effects
  <2> QED
    BY <2>2, <2>4 DEF Effects
<1> HIDE DEF e
<1>8. Calm(c, e.ctx)
  BY <1>4, <1>5, <1>7, CalmTransitive DEF Good
<1> QED
  BY <1>3, <1>5, <1>6, <1>8 DEF x

LEMMA ProposalsOnNewViewsVotes ==
  ASSUME NEW S, NEW c, Good(S, c), NEW r \in Replicas, NEW v \in Views,
         NEW p \in ProposalsOnNewViews(r, c, v)
  PROVE  /\ Calm(c, p.ctx)
         /\ \E b \in Blocks : p.cast = {[view |-> v, block |-> b, voter |-> r]}
         /\ \A t \in p.started : t.kind # "create"
         /\ p.ctx \in Contexts
<1>1. PICK q \in Justifications(c, v) : \E b \in NewBlocks(r, c, q) : p = Propose(r, c, v, q, b)
  BY DEF ProposalsOnNewViews
<1>2. PICK b \in NewBlocks(r, c, q) : p = Propose(r, c, v, q, b)
  BY <1>1
<1>3. q \in QCs \cup {NoQC}
  <2>1. q = c.highQC \/ q \in HighestQCFromNewViews(c, v)
    BY <1>1 DEF Justifications
  <2>2. c.highQC \in QCs \cup {NoQC}
    BY DEF Good, Contexts
  <2> QED
    BY <2>1, <2>2, HighestQCGood
<1>4. p.ctx \in Contexts
  BY ProposalsOnNewViewsGood DEF GoodEffect, Good
<1> QED
  BY <1>2, <1>3, <1>4, ProposeVotes

\* A replica that moved to view v and leads it proposes.
LEMMA LeaderEffect ==
  ASSUME NEW S, NEW T, NEW c \in Contexts, NEW d, Good(S, d), NEW r \in Replicas,
         NEW v \in Views, Leader(v) = r, d.view = v,
         LockRises(c, d), VotesKept(c, d),
         NEW e, NEW p \in ProposalsOnNewViews(r, d, v)
  PROVE  VoteEffect(r, S, T, c, Then(e, p))
<1>1. /\ Calm(d, p.ctx)
      /\ \E b \in Blocks : p.cast = {[view |-> v, block |-> b, voter |-> r]}
      /\ \A t \in p.started : t.kind # "create"
      /\ p.ctx \in Contexts
  BY ProposalsOnNewViewsVotes
<1>2. p \in Effects
  BY ProposalsOnNewViewsGood DEF GoodEffect
<1>3. Then(e, p).cast = p.cast /\ Then(e, p).ctx = p.ctx /\ Then(e, p).started = p.started
  BY <1>2 DEF Then, Effects
<1>4. LockRises(c, p.ctx)
  BY <1>1, LockRisesTransitive DEF Calm, Good
<1>5. VotesKept(c, p.ctx)
  BY <1>1 DEF VotesKept, Calm
<1>6. p.ctx.view = v
  BY <1>1 DEF Calm
<1>7. SignsOne(r, S, T, c, Then(e, p))
  BY <1>1, <1>3, <1>6 DEF SignsOne, LeaderVote
<1> QED
  BY <1>1, <1>3, <1>4, <1>5, <1>7 DEF VoteEffect

\* A handler that does not vote.
LEMMA SilentEffect ==
  ASSUME NEW r, NEW S, NEW T, NEW c, NEW e, e.cast = {},
         LockRises(c, e.ctx), VotesKept(c, e.ctx),
         \A t \in e.started : t.kind = "create" => t.view = e.ctx.view /\ Leader(t.view) = r
  PROVE  VoteEffect(r, S, T, c, e)
  BY DEF VoteEffect, SignsOne

\* A follower votes on a proposal it has synchronised with and stored.
LEMMA FollowerEffect ==
  ASSUME NEW S, NEW T, NEW c, Good(S, c), NEW r \in Replicas,
         NEW m \in Messages, GoodMessage(S, m), m.type = "PROPOSE",
         NEW d, Good(S, d), d.lockedQC = c.lockedQC, d.votes = c.votes,
         m.view = d.view, Leader(m.view) # r, ~HasVoted(d, m.view, r), Verify(m.block),
         SafeToVote(d, m.block, m.qc)
  PROVE  VoteEffect(r, S, T, c, VoteFor(r, d, m))
<1> DEFINE v == m.view
           b == m.block
           d1 == Lock(d, m.qc)
           x == [view |-> v, block |-> b, voter |-> r]
           e == VoteFor(r, d, m)
<1>1. /\ v \in Views /\ b \in Blocks
      /\ m.qc \in QCs \cup {NoQC} /\ (m.qc # NoQC => CertifiedBy(S, m.qc))
      /\ Parent(b) = ParentOf(m.qc)
  BY ProposalContents DEF GoodMessage
<1>2. /\ Good(S, d1) /\ Calm(d, d1)
      /\ m.qc # NoQC => d1.lockedQC # NoQC /\ d1.lockedQC.view >= m.qc.view
  BY <1>1, LockGood, LockCalm
<1>3. GoodEffect(S, d, e)
  BY VoteForGood
<1>4. e = [CountVote(r, d1, v, b, r) EXCEPT !.sent = {VoteMessage(r, v, b)}, !.cast = {x}]
  BY DEF VoteFor
<1> HIDE DEF d1, e
<1>5. Calm(d1, e.ctx) /\ x \in e.ctx.votes /\ e.cast = {x} /\ \A t \in e.started : t.kind # "create"
  BY <1>1, <1>2, <1>4, CastVotes
<1>6. e.ctx \in Contexts
  BY <1>3 DEF GoodEffect, Good
<1>7. Calm(d, e.ctx)
  BY <1>2, <1>5, <1>6, CalmTransitive DEF Good
<1>8. LockRises(c, e.ctx) /\ VotesKept(c, e.ctx)
  BY <1>7 DEF Calm, LockRises, VotesKept
<1>9. SafeBlock(S, d, c.lockedQC, b)
  <2> SUFFICES ASSUME c.lockedQC # NoQC, ~IsAncestor(d, c.lockedQC.block, b)
               PROVE  \E q \in QCs : /\ CertifiedBy(S, q)
                                     /\ q.block = Parent(b)
                                     /\ q.view > c.lockedQC.view
    BY DEF SafeBlock
  <2>1. m.qc # NoQC /\ m.qc.view > c.lockedQC.view
    BY DEF SafeToVote
  <2> QED
    BY <1>1, <2>1 DEF ParentOf
<1>10. LockedOnParent(S, e.ctx, b)
  <2> SUFFICES ASSUME Parent(b) # NoBlock
               PROVE  \E q \in QCs : /\ CertifiedBy(S, q)
                                     /\ q.block = Parent(b)
                                     /\ e.ctx.lockedQC # NoQC
                                     /\ e.ctx.lockedQC.view >= q.view
    BY DEF LockedOnParent
  <2>1. m.qc # NoQC /\ Parent(b) = m.qc.block
    BY <1>1 DEF ParentOf
  <2>2. d1.lockedQC # NoQC /\ d1.lockedQC.view >= m.qc.view
    BY <1>2, <2>1
  <2>3. e.ctx.lockedQC # NoQC /\ d1.lockedQC.view <= e.ctx.lockedQC.view
    BY <1>5, <2>2 DEF Calm, LockRises
  <2>4. m.qc.view \in Nat /\ d1.lockedQC.view \in Nat /\ e.ctx.lockedQC.view \in Nat
    BY <1>1, <1>2, <1>6, <2>1, <2>2, <2>3, LockType, BoundsAssumption DEF Good, QCs, Views
  <2>5. e.ctx.lockedQC.view >= m.qc.view
    BY <2>2, <2>3, <2>4
  <2> QED
    BY <1>1, <2>1, <2>3, <2>5
<1>11. v = e.ctx.view
  BY <1>7 DEF Calm
<1>12. ~HasVoted(c, v, r)
  BY DEF HasVoted
<1>13. d \in Contexts
  BY DEF Good
<1> HIDE DEF v, b
<1>14. FollowerVote(r, S, c, e.ctx, v, b)
  BY <1>5, <1>9, <1>10, <1>11, <1>12, <1>13 DEF FollowerVote, v, b
<1>15. SignsOne(r, S, T, c, e)
  BY <1>1, <1>5, <1>14 DEF SignsOne, v, b
<1>16. VoteEffect(r, S, T, c, e)
  BY <1>5, <1>8, <1>15 DEF VoteEffect
<1> QED
  BY <1>16 DEF e

-----------------------------------------------------------------------------
(* Steps *)

\* A replica takes a step with such an effect.
VoteStep(r) ==
  \E e, rest :
    /\ VoteEffect(r, signed, tasks[r], ctx[r], e)
    /\ ctx' = [ctx EXCEPT ![r] = e.ctx]
    /\ rest \subseteq tasks[r]
    /\ tasks' = [tasks EXCEPT ![r] = rest \cup e.started]
    /\ signed' = signed \cup e.cast

LEMMA ConsumeVotes ==
  ASSUME NEW r, NEW m, NEW e, VoteEffect(r, signed, tasks[r], ctx[r], e), Consume(r, m, e)
  PROVE  VoteStep(r)
<1>1. /\ ctx' = [ctx EXCEPT ![r] = e.ctx]
      /\ tasks' = [tasks EXCEPT ![r] = tasks[r] \cup e.started]
      /\ signed' = signed \cup e.cast
  BY DEF Consume
<1> QED
  BY <1>1 DEF VoteStep

LEMMA RunVotes ==
  ASSUME NEW r, NEW t, NEW e, VoteEffect(r, signed, tasks[r], ctx[r], e), Run(r, t, e)
  PROVE  VoteStep(r)
<1>1. /\ ctx' = [ctx EXCEPT ![r] = e.ctx]
      /\ tasks' = [tasks EXCEPT ![r] = (tasks[r] \ t) \cup e.started]
      /\ signed' = signed \cup e.cast
  BY DEF Run
<1>2. tasks[r] \ t \subseteq tasks[r]
  OBVIOUS
<1> QED
  BY <1>1, <1>2 DEF VoteStep

LEMMA NoVoteVotes ==
  ASSUME IInv, NEW r \in Replicas,
         IgnoreProposal(r) \/ DeferProposal(r) \/ RejectProposal(r)
  PROVE  VoteStep(r)
<1> DEFINE c(m) == SyncByProposal(ctx[r], m)
           d(m) == AddBlock(c(m), m.block)
<1>1. PICK m \in Received(r, "PROPOSE") : Consume(r, m, Only(c(m))) \/ Consume(r, m, Only(d(m)))
  BY DEF IgnoreProposal, DeferProposal, RejectProposal
<1>2. m \in inbox[r]
  BY DEF Received
<1>3. Good(signed, ctx[r]) /\ m \in Messages /\ GoodMessage(signed, m)
  BY <1>2, Delivered
<1>4. Good(signed, c(m)) /\ c(m).lockedQC = ctx[r].lockedQC /\ c(m).votes = ctx[r].votes
  BY <1>3, SyncByProposalGood, SyncByProposalSame DEF Good
<1> HIDE DEF c
<1>5. d(m).lockedQC = c(m).lockedQC /\ d(m).votes = c(m).votes
  BY <1>4 DEF Good, Contexts, AddBlock
<1> HIDE DEF d
<1>6. \A x : x.lockedQC = ctx[r].lockedQC /\ x.votes = ctx[r].votes =>
             VoteEffect(r, signed, tasks[r], ctx[r], Only(x))
  <2> TAKE x
  <2> HAVE x.lockedQC = ctx[r].lockedQC /\ x.votes = ctx[r].votes
  <2>1. LockRises(ctx[r], x) /\ VotesKept(ctx[r], x)
    BY <1>3, LockRisesReflexive DEF VotesKept, Good
  <2>2. Only(x).ctx = x /\ Only(x).cast = {} /\ Only(x).started = {}
    BY DEF Only
  <2> QED
    BY <2>1, <2>2, SilentEffect
<1>7. /\ VoteEffect(r, signed, tasks[r], ctx[r], Only(c(m)))
      /\ VoteEffect(r, signed, tasks[r], ctx[r], Only(d(m)))
  BY <1>4, <1>5, <1>6
<1> QED
  BY <1>1, <1>7, ConsumeVotes

LEMMA VoteForProposalVotes ==
  ASSUME IInv, NEW r \in Replicas, VoteForProposal(r)
  PROVE  VoteStep(r)
<1> DEFINE c(m) == SyncByProposal(ctx[r], m)
           d(m) == AddBlock(c(m), m.block)
<1>1. PICK m \in Received(r, "PROPOSE") :
        /\ MayVote(r, c(m), m)
        /\ SafeToVote(d(m), m.block, m.qc)
        /\ Consume(r, m, VoteFor(r, d(m), m))
  BY DEF VoteForProposal
<1>2. m \in inbox[r] /\ m.type = "PROPOSE"
  BY DEF Received
<1>3. Good(signed, ctx[r]) /\ m \in Messages /\ GoodMessage(signed, m)
  BY <1>2, Delivered
<1>4. Good(signed, c(m)) /\ c(m).lockedQC = ctx[r].lockedQC /\ c(m).votes = ctx[r].votes
  BY <1>3, SyncByProposalGood, SyncByProposalSame DEF Good
<1>5. Good(signed, d(m))
  BY <1>2, <1>3, StoreProposalGood
<1>6. m.view = c(m).view /\ Leader(m.view) # r /\ ~HasVoted(c(m), m.view, r) /\ Verify(m.block)
  BY <1>1 DEF MayVote
<1> HIDE DEF c
<1>7. d(m).lockedQC = c(m).lockedQC /\ d(m).votes = c(m).votes /\ d(m).view = c(m).view
  BY <1>4 DEF Good, Contexts, AddBlock
<1> HIDE DEF d
<1>8. ~HasVoted(d(m), m.view, r)
  BY <1>6, <1>7 DEF HasVoted
<1>9. VoteEffect(r, signed, tasks[r], ctx[r], VoteFor(r, d(m), m))
  BY <1>1, <1>2, <1>3, <1>4, <1>5, <1>6, <1>7, <1>8, FollowerEffect
<1> QED
  BY <1>1, <1>9, ConsumeVotes

LEMMA ReceiveVoteVotes ==
  ASSUME IInv, NEW r \in Replicas, ReceiveVote(r)
  PROVE  VoteStep(r)
<1> DEFINE e(m) == CountVote(r, ctx[r], m.view, m.block, m.from)
<1>1. PICK m \in Received(r, "VOTE") : Consume(r, m, e(m))
  BY DEF ReceiveVote
<1>2. m \in inbox[r] /\ m.type = "VOTE"
  BY DEF Received
<1>3. Good(signed, ctx[r]) /\ m \in Messages /\ GoodMessage(signed, m)
  BY <1>2, Delivered
<1>4. /\ m.view \in Views /\ m.from \in Replicas /\ m.block \in Blocks
      /\ [view |-> m.view, block |-> m.block, voter |-> m.from] \in signed
  BY <1>2, <1>3 DEF Messages, GoodMessage
<1>5. /\ Calm(ctx[r], e(m).ctx) /\ e(m).cast = {}
      /\ \A t \in e(m).started : t.kind # "create"
  BY <1>3, <1>4, CountVoteGood, CountVoteCalm
<1> HIDE DEF e
<1>6. VoteEffect(r, signed, tasks[r], ctx[r], e(m))
  BY <1>5, CalmMoves, MovesKeeps, SilentEffect
<1> QED
  BY <1>1, <1>6, ConsumeVotes

LEMMA ReceiveNewViewVotes ==
  ASSUME IInv, NEW r \in Replicas, ReceiveNewView(r)
  PROVE  VoteStep(r)
<1> DEFINE e(m) == SyncByNewView(r, RecordNewView(ctx[r], m), m)
           back(m) == SetView(e(m).ctx, m.view)
<1>1. PICK m \in Received(r, "NEWVIEW") :
        \/ /\ MayPropose(r, e(m).ctx, m.view)
           /\ \E p \in ProposalsOnNewViews(r, back(m), m.view) : Consume(r, m, Then(e(m), p))
        \/ Consume(r, m, e(m))
  BY DEF ReceiveNewView
<1>2. m \in inbox[r]
  BY DEF Received
<1>3. Good(signed, ctx[r]) /\ m \in Messages /\ GoodMessage(signed, m) /\ m.view \in Views
  BY <1>2, Delivered DEF Messages
<1>4. Moves(ctx[r], e(m).ctx) /\ e(m).started = {}
  BY <1>3, SyncByNewViewMoves
<1>5. GoodEffect(signed, ctx[r], e(m)) /\ e(m).cast = {}
  BY <1>3, SyncByNewViewGood
<1>6. MayPropose(r, e(m).ctx, m.view) => Leader(m.view) = r
  BY DEF MayPropose
<1> HIDE DEF e
<1>7. CASE Consume(r, m, e(m))
  <2>1. VoteEffect(r, signed, tasks[r], ctx[r], e(m))
    BY <1>4, <1>5, MovesKeeps, SilentEffect
  <2> QED
    BY <1>7, <2>1, ConsumeVotes
<1>8. ASSUME MayPropose(r, e(m).ctx, m.view),
             NEW p \in ProposalsOnNewViews(r, back(m), m.view), Consume(r, m, Then(e(m), p))
      PROVE  VoteStep(r)
  <2>1. Good(signed, e(m).ctx)
    <3>1. Good(signed \cup {}, e(m).ctx)
      BY <1>5 DEF GoodEffect
    <3> QED
      BY <3>1, GoodMonotone
  <2>2. Good(signed, back(m)) /\ Moves(e(m).ctx, back(m)) /\ back(m).view = m.view
    BY <1>3, <2>1, SetViewGood, SetViewMoves DEF Good
  <2> HIDE DEF back
  <2>3. LockRises(ctx[r], back(m)) /\ VotesKept(ctx[r], back(m))
    BY <1>3, <1>4, <2>1, <2>2, MovesTransitive, MovesKeeps DEF Good
  <2>4. VoteEffect(r, signed, tasks[r], ctx[r], Then(e(m), p))
    BY <1>3, <1>6, <1>8, <2>2, <2>3, LeaderEffect DEF Good
  <2> QED
    BY <1>8, <2>4, ConsumeVotes
<1> QED
  BY <1>1, <1>7, <1>8

LEMMA TimeoutVotes ==
  ASSUME IInv, NEW r \in Replicas, Timeout(r)
  PROVE  VoteStep(r)
<1> DEFINE v == ctx[r].view + 1
           c1 == PruneVotes(ctx[r], v)
           e == EnterWithNewView(r, c1, v)
<1>1. \/ /\ MayPropose(r, e.ctx, v)
         /\ \E p \in ProposalsOnNewViews(r, e.ctx, v) : Run(r, {}, Then(e, p))
      \/ Run(r, {}, e)
  BY DEF Timeout
<1>2. Good(signed, ctx[r]) /\ ctx[r].view \in Views
  BY DEF IInv, TypeOK, Contexts
<1>3. v \in Views
  BY <1>2, BoundsAssumption DEF Timeout, Views
<1> HIDE DEF v
<1>4. Good(signed, c1)
  BY <1>2, <1>3, PruneVotesGood
<1>5. Moves(c1, e.ctx) /\ e.ctx.view = v /\ e.started = {}
  <2> HIDE DEF c1
  <2> QED
    BY <1>3, <1>4, EnterWithNewViewMoves
<1>6. GoodEffect(signed, c1, e) /\ e.cast = {}
  <2> HIDE DEF c1
  <2> QED
    BY <1>3, <1>4, EnterWithNewViewGood
<1> HIDE DEF e
<1>7. LockRises(ctx[r], e.ctx) /\ VotesKept(ctx[r], e.ctx)
  BY <1>2, <1>3, <1>5, PruneVotesKeeps DEF Good, Moves
<1>8. CASE Run(r, {}, e)
  <2>1. VoteEffect(r, signed, tasks[r], ctx[r], e)
    BY <1>5, <1>6, <1>7, SilentEffect
  <2> QED
    BY <1>8, <2>1, RunVotes
<1>9. ASSUME MayPropose(r, e.ctx, v),
             NEW p \in ProposalsOnNewViews(r, e.ctx, v), Run(r, {}, Then(e, p))
      PROVE  VoteStep(r)
  <2>1. Good(signed, e.ctx)
    <3>1. Good(signed \cup {}, e.ctx)
      BY <1>6 DEF GoodEffect
    <3> QED
      BY <3>1, GoodMonotone
  <2>2. Leader(v) = r
    BY <1>9 DEF MayPropose
  <2>3. VoteEffect(r, signed, tasks[r], ctx[r], Then(e, p))
    BY <1>2, <1>3, <1>5, <1>7, <1>9, <2>1, <2>2, LeaderEffect DEF Good
  <2> QED
    BY <1>9, <2>3, RunVotes
<1> QED
  BY <1>1, <1>8, <1>9

LEMMA GoroutineVotes ==
  ASSUME IInv, NEW r \in Replicas, AdvanceViewWithQC(r) \/ StartPropose(r)
  PROVE  VoteStep(r)
<1>1. Good(signed, ctx[r])
  BY DEF IInv
<1>2. CASE AdvanceViewWithQC(r)
  <2> DEFINE c1(t) == SetView(ctx[r], t.view)
             c2(t) == PruneVotes(c1(t), t.view)
             e(t) == [Only(c2(t)) EXCEPT !.started = {[kind |-> "propose", view |-> 0]}]
  <2>1. PICK t \in tasks[r] : Run(r, {t}, e(t))
    BY <1>2 DEF AdvanceViewWithQC
  <2>2. t.view \in Views
    BY DEF IInv, TypeOK, Tasks
  <2>3. Good(signed, c1(t)) /\ Moves(ctx[r], c1(t)) /\ c1(t).view = t.view
    BY <1>1, <2>2, SetViewGood, SetViewMoves DEF Good
  <2>4. /\ e(t).ctx = c2(t) /\ e(t).cast = {}
        /\ e(t).started = {[kind |-> "propose", view |-> 0]}
    BY DEF Only
  <2> HIDE DEF c1, e
  <2>5. c2(t).view = t.view /\ c2(t).lockedQC = c1(t).lockedQC
    BY <2>3 DEF Good, Contexts, PruneVotes
  <2>6. LockRises(c2(t), c2(t))
    <3>1. c2(t) \in Contexts
      BY <2>2, <2>3, PruneVotesGood DEF Good
    <3> QED
      BY <3>1, LockRisesReflexive
  <2>7. LockRises(c1(t), c2(t)) /\ VotesKept(c1(t), c2(t))
    BY <2>2, <2>3, <2>5, <2>6, PruneVotesKeeps DEF Good
  <2> HIDE DEF c2
  <2>8. LockRises(ctx[r], c2(t)) /\ VotesKept(ctx[r], c2(t))
    BY <2>3, <2>5, <2>7 DEF Moves, LockRises, VotesKept
  <2>9. \A u \in e(t).started : u.kind # "create"
    BY <2>4
  <2>10. VoteEffect(r, signed, tasks[r], ctx[r], e(t))
    BY <2>4, <2>8, <2>9, SilentEffect
  <2> QED
    BY <2>1, <2>10, RunVotes
<1>3. CASE StartPropose(r)
  <2> DEFINE next == IF Leader(ctx[r].view) = r
                     THEN {[kind |-> "create", view |-> ctx[r].view]}
                     ELSE {}
             e == [Only(ctx[r]) EXCEPT !.started = next]
  <2>1. PICK t \in tasks[r] : Run(r, {t}, e)
    BY <1>3 DEF StartPropose
  <2>2. \A u \in next : u.kind = "create" => u.view = ctx[r].view /\ Leader(u.view) = r
    OBVIOUS
  <2> HIDE DEF next
  <2>3. e.ctx = ctx[r] /\ e.cast = {} /\ e.started = next
    BY DEF Only
  <2> HIDE DEF e
  <2>4. LockRises(ctx[r], ctx[r]) /\ VotesKept(ctx[r], ctx[r])
    BY <1>1, LockRisesReflexive DEF VotesKept, Good
  <2>5. VoteEffect(r, signed, tasks[r], ctx[r], e)
    BY <2>2, <2>3, <2>4, SilentEffect
  <2> QED
    BY <2>1, <2>5, RunVotes
<1> QED
  BY <1>2, <1>3

\* propose only goes on in a view its replica leads.
CreatesLead ==
  \A r \in Replicas : \A t \in tasks[r] : t.kind = "create" => Leader(t.view) = r

LEMMA FinishProposeVotes ==
  ASSUME IInv, CreatesLead, NEW r \in Replicas, FinishPropose(r)
  PROVE  VoteStep(r)
<1> DEFINE justify == ctx[r].highQC
           e(t, b) == Propose(r, ctx[r], t.view, justify, b)
<1>1. PICK t \in tasks[r], b \in NewBlocks(r, ctx[r], justify) :
        t.kind = "create" /\ Run(r, {t}, e(t, b))
  BY DEF FinishPropose
<1>2. Good(signed, ctx[r]) /\ t \in Tasks
  BY DEF IInv, TypeOK
<1>3. justify \in QCs \cup {NoQC}
  BY <1>2 DEF Good, Contexts
<1>4. t.view \in Views /\ Leader(t.view) = r /\ t = [kind |-> "create", view |-> t.view]
  BY <1>1, <1>2 DEF CreatesLead, Tasks
<1> HIDE DEF justify
<1>5. /\ Calm(ctx[r], e(t, b).ctx)
      /\ b \in Blocks
      /\ e(t, b).cast = {[view |-> t.view, block |-> b, voter |-> r]}
      /\ \A u \in e(t, b).started : u.kind # "create"
  BY <1>2, <1>3, <1>4, ProposeVotes
<1> HIDE DEF e
<1>6. LeaderVote(r, tasks[r], e(t, b).ctx, t.view)
  BY <1>1, <1>4 DEF LeaderVote
<1>7. SignsOne(r, signed, tasks[r], ctx[r], e(t, b))
  BY <1>4, <1>5, <1>6 DEF SignsOne
<1>8. VoteEffect(r, signed, tasks[r], ctx[r], e(t, b))
  BY <1>5, <1>7, CalmMoves, MovesKeeps DEF VoteEffect
<1> QED
  BY <1>1, <1>8, RunVotes

LEMMA NextVotes ==
  ASSUME IInv, CreatesLead, Next
  PROVE  \E r \in Replicas : VoteStep(r)
<1>1. PICK r \in Replicas :
        \/ IgnoreProposal(r) \/ DeferProposal(r) \/ RejectProposal(r)
        \/ VoteForProposal(r)
        \/ ReceiveVote(r)
        \/ ReceiveNewView(r)
        \/ Timeout(r)
        \/ AdvanceViewWithQC(r) \/ StartPropose(r)
        \/ FinishPropose(r)
  BY DEF Next
<1>2. VoteStep(r)
  BY <1>1, NoVoteVotes, VoteForProposalVotes, ReceiveVoteVotes, ReceiveNewViewVotes,
     TimeoutVotes, GoroutineVotes, FinishProposeVotes
<1> QED
  BY <1>2

\* A vote just signed, in one of its voter's two roles.
NewVote(x) ==
  LET r == x.voter
  IN  \/ LeaderVote(r, tasks[r], ctx'[r], x.view)
      \/ FollowerVote(r, signed, ctx[r], ctx'[r], x.view, x.block)

\* What a step does to locks, votes and goroutines, whoever takes it.
VotingStep ==
  /\ \A q \in Replicas : LockRises(ctx[q], ctx'[q]) /\ VotesKept(ctx[q], ctx'[q])
  /\ signed \subseteq signed'
  /\ \A x, y \in signed' \ signed : x = y
  /\ \A x \in signed' \ signed : x \in Votes /\ NewVote(x)
  /\ \A q \in Replicas : \A t \in tasks'[q] :
       \/ t \in tasks[q]
       \/ t.kind = "create" => t.view = ctx'[q].view /\ Leader(t.view) = q

LEMMA StepVotes ==
  ASSUME IInv, CreatesLead, [Next]_vars
  PROVE  VotingStep
<1>1. \A q \in Replicas : LockRises(ctx[q], ctx[q]) /\ VotesKept(ctx[q], ctx[q])
  BY LockRisesReflexive DEF VotesKept, IInv, TypeOK
<1>2. CASE UNCHANGED vars
  BY <1>1, <1>2 DEF vars, VotingStep
<1>3. CASE Next
  <2>1. PICK r \in Replicas : VoteStep(r)
    BY <1>3, NextVotes
  <2>2. PICK e, rest :
          /\ VoteEffect(r, signed, tasks[r], ctx[r], e)
          /\ ctx' = [ctx EXCEPT ![r] = e.ctx]
          /\ rest \subseteq tasks[r]
          /\ tasks' = [tasks EXCEPT ![r] = rest \cup e.started]
          /\ signed' = signed \cup e.cast
    BY <2>1 DEF VoteStep
  <2>3. /\ ctx'[r] = e.ctx /\ \A q \in Replicas \ {r} : ctx'[q] = ctx[q]
        /\ tasks'[r] = rest \cup e.started /\ \A q \in Replicas \ {r} : tasks'[q] = tasks[q]
    BY <2>2 DEF IInv, TypeOK
  <2>4. \A q \in Replicas : LockRises(ctx[q], ctx'[q]) /\ VotesKept(ctx[q], ctx'[q])
    BY <1>1, <2>2, <2>3 DEF VoteEffect
  <2>5. \A q \in Replicas : \A t \in tasks'[q] :
          \/ t \in tasks[q]
          \/ t.kind = "create" => t.view = ctx'[q].view /\ Leader(t.view) = q
    BY <2>2, <2>3 DEF VoteEffect
  <2>6. CASE e.cast = {}
    BY <2>2, <2>4, <2>5, <2>6 DEF VotingStep
  <2>7. CASE e.cast # {}
    <3>1. PICK v \in Views, b \in Blocks :
            /\ e.cast = {[view |-> v, block |-> b, voter |-> r]}
            /\ \/ LeaderVote(r, tasks[r], e.ctx, v)
               \/ FollowerVote(r, signed, ctx[r], e.ctx, v, b)
      BY <2>2, <2>7 DEF VoteEffect, SignsOne
    <3>2. \A x \in signed' \ signed : x = [view |-> v, block |-> b, voter |-> r]
      BY <2>2, <3>1
    <3>3. \A x \in signed' \ signed : x \in Votes /\ NewVote(x)
      BY <2>3, <3>1, <3>2 DEF NewVote, Votes
    <3> QED
      BY <2>2, <2>4, <2>5, <3>2, <3>3 DEF VotingStep
  <2> QED
    BY <2>6, <2>7
<1> QED
  BY <1>2, <1>3

-----------------------------------------------------------------------------
(* What a vote commits its voter to *)

\* The voter does not lead the view of its vote.
Follower(x) == Leader(x.view) # x.voter

FollowersVerify == \A x \in signed : Follower(x) => Verify(x.block)

\* A follower holds a lock as high as a certificate of what its block is on.
FollowersLock ==
  \A x \in signed : Follower(x) => LockedOnParent(signed, ctx[x.voter], x.block)

VInv == IInv /\ CreatesLead /\ FollowersVerify /\ FollowersLock

LEMMA LockedMonotone ==
  ASSUME NEW S, NEW T, S \subseteq T, NEW c \in Contexts, NEW d \in Contexts,
         LockRises(c, d), NEW b, LockedOnParent(S, c, b)
  PROVE  LockedOnParent(T, d, b)
<1> SUFFICES ASSUME Parent(b) # NoBlock
             PROVE  \E q \in QCs : /\ CertifiedBy(T, q)
                                   /\ q.block = Parent(b)
                                   /\ d.lockedQC # NoQC
                                   /\ d.lockedQC.view >= q.view
  BY DEF LockedOnParent
<1>1. PICK q \in QCs : /\ CertifiedBy(S, q)
                       /\ q.block = Parent(b)
                       /\ c.lockedQC # NoQC
                       /\ c.lockedQC.view >= q.view
  BY DEF LockedOnParent
<1>2. d.lockedQC # NoQC /\ c.lockedQC.view <= d.lockedQC.view
  BY <1>1 DEF LockRises
<1>3. d.lockedQC.view >= q.view
  BY <1>1, <1>2, LockType, BoundsAssumption DEF QCs, Views
<1> QED
  BY <1>1, <1>2, <1>3, CertifiedMonotone

LEMMA VInvInit == Init => VInv
  BY InitGood DEF Init, VInv, CreatesLead, FollowersVerify, FollowersLock

LEMMA VInvStep ==
  ASSUME VInv, [Next]_vars
  PROVE  VInv' /\ VotingStep
<1>1. IInv'
  BY NextGood DEF GoodStep, VInv
<1>2. VotingStep
  BY StepVotes DEF VInv
<1>3. CreatesLead'
  BY <1>2 DEF VInv, CreatesLead, VotingStep
<1>4. \A x \in signed' \ signed : Follower(x) =>
        FollowerVote(x.voter, signed, ctx[x.voter], ctx'[x.voter], x.view, x.block)
  BY <1>2 DEF VotingStep, NewVote, LeaderVote, Follower
<1>5. FollowersVerify'
  BY <1>4 DEF VInv, FollowersVerify, Follower, FollowerVote
<1>6. FollowersLock'
  <2> SUFFICES ASSUME NEW x \in signed', Follower(x)
               PROVE  LockedOnParent(signed', ctx'[x.voter], x.block)
    BY DEF FollowersLock, Follower
  <2>1. x.voter \in Replicas
    BY <1>1 DEF IInv, TypeOK, Votes
  <2>2. ctx[x.voter] \in Contexts /\ ctx'[x.voter] \in Contexts
    BY <1>1, <2>1 DEF VInv, IInv, TypeOK
  <2>3. signed \subseteq signed' /\ LockRises(ctx[x.voter], ctx'[x.voter])
    BY <1>2, <2>1 DEF VotingStep
  <2>4. CASE x \in signed
    BY <2>2, <2>3, <2>4, LockedMonotone DEF VInv, FollowersLock
  <2>5. CASE x \notin signed
    <3>1. LockedOnParent(signed, ctx'[x.voter], x.block)
      BY <1>4, <2>5 DEF FollowerVote
    <3> QED
      BY <2>2, <2>3, <3>1, LockedMonotone, LockRisesReflexive
  <2> QED
    BY <2>4, <2>5
<1> QED
  BY <1>1, <1>2, <1>3, <1>5, <1>6 DEF VInv

LEMMA VotersVerifyAndLock == Spec => []VInv
<1>1. VInv /\ [Next]_vars => VInv'
  BY VInvStep
<1> QED
  BY <1>1, VInvInit, PTL DEF Spec

-----------------------------------------------------------------------------
(* One vote per view *)

\* What keeps a pruned vote from being cast again: r does not go back, or
\* nobody gets far enough for anything to be pruned.
NoReturn(r) == ctx[r].view <= ctx'[r].view \/ KeepViews >= MaxView

\* r has its votes at hand but for pruned ones, and has one of a view.
Remembers(r) ==
  /\ \A x \in signed : x.voter = r /\ Follower(x) =>
       x \in ctx[r].votes \/ x.view + KeepViews < ctx[r].view
  /\ \A x, y \in signed :
       x.voter = r /\ y.voter = r /\ x.view = y.view /\ Follower(x) => x = y

LEMMA OneVoteStep ==
  ASSUME IInv, IInv', VotingStep, NEW r \in Replicas, NoReturn(r), Remembers(r)
  PROVE  Remembers(r)'
<1> DEFINE Pruned(x) == x.view + KeepViews < ctx[r].view
<1>1. /\ signed \subseteq signed' /\ \A x \in signed' : x.view \in Nat /\ x.voter \in Replicas
      /\ ctx[r].view \in 0 .. MaxView /\ ctx'[r].view \in 0 .. MaxView
  BY BoundsAssumption DEF VotingStep, IInv, TypeOK, Contexts, Votes, Views
<1>2. \A x \in signed' \ signed : x.voter = r /\ Follower(x) =>
        FollowerVote(r, signed, ctx[r], ctx'[r], x.view, x.block)
  BY DEF VotingStep, NewVote, LeaderVote, Follower
\* what has been pruned is behind the new view as well
<1>3. \A x \in signed : Pruned(x) => x.view + KeepViews < ctx'[r].view
  <2> SUFFICES ASSUME NEW x \in signed, Pruned(x)
               PROVE  x.view + KeepViews < ctx'[r].view
    OBVIOUS
  <2>1. x.view \in Nat
    BY <1>1
  <2>2. ~(KeepViews >= MaxView)
    BY <1>1, <2>1, BoundsAssumption
  <2>3. ctx[r].view <= ctx'[r].view
    BY <2>2 DEF NoReturn
  <2> QED
    BY <1>1, <2>1, <2>3, BoundsAssumption
<1>4. ASSUME NEW x \in signed', x.voter = r, Follower(x)
      PROVE  x \in ctx'[r].votes \/ x.view + KeepViews < ctx'[r].view
  <2>1. CASE x \notin signed
    <3>1. [view |-> x.view, block |-> x.block, voter |-> x.voter] \in ctx'[r].votes
      BY <1>2, <1>4, <2>1 DEF FollowerVote
    <3>2. x = [view |-> x.view, block |-> x.block, voter |-> x.voter]
      BY DEF IInv, TypeOK, Votes
    <3> QED
      BY <3>1, <3>2
  <2>2. CASE x \in signed
    <3>1. VotesKept(ctx[r], ctx'[r])
      BY DEF VotingStep
    <3> QED
      BY <1>3, <1>4, <2>2, <3>1 DEF Remembers, VotesKept
  <2> QED
    BY <2>1, <2>2
\* a follower that votes has no vote of the view, at hand or pruned
<1>5. ASSUME NEW x \in signed, NEW y \in signed' \ signed,
             x.voter = r, y.voter = r, x.view = y.view, Follower(x)
      PROVE  FALSE
  <2>1. FollowerVote(r, signed, ctx[r], ctx'[r], y.view, y.block)
    BY <1>2, <1>5 DEF Follower
  <2>2. x \notin ctx[r].votes
    BY <1>5, <2>1 DEF FollowerVote, HasVoted
  <2>3. x.view + KeepViews < ctx'[r].view
    BY <1>3, <1>5, <2>2 DEF Remembers
  <2>4. x.view = ctx'[r].view
    BY <1>5, <2>1 DEF FollowerVote
  <2>5. x.view \in Nat
    BY <1>1
  <2> QED
    BY <2>3, <2>4, <2>5, BoundsAssumption
<1>6. ASSUME NEW x \in signed', NEW y \in signed',
             x.voter = r, y.voter = r, x.view = y.view, Follower(x)
      PROVE  x = y
  <2>1. Follower(y)
    BY <1>6 DEF Follower
  <2>2. CASE x \in signed /\ y \in signed
    BY <1>6, <2>2 DEF Remembers
  <2>3. CASE x \in signed /\ y \notin signed
    BY <1>5, <1>6, <2>3
  <2>4. CASE x \notin signed /\ y \in signed
    BY <1>5, <1>6, <2>1, <2>4
  <2>5. CASE x \notin signed /\ y \notin signed
    BY <2>5 DEF VotingStep
  <2> QED
    BY <2>2, <2>3, <2>4, <2>5
<1> QED
  BY <1>4, <1>6 DEF Remembers, Follower

AllRemember == \A r \in Replicas : Remembers(r)

LEMMA AllRememberInit == Init => AllRemember
  BY DEF Init, AllRemember, Remembers

LEMMA AllRememberStep ==
  ASSUME VInv, [Next]_vars, \A r \in Replicas : NoReturn(r), AllRemember
  PROVE  AllRemember'
<1>1. IInv /\ IInv' /\ VotingStep
  BY VInvStep DEF VInv
<1> QED
  BY <1>1, OneVoteStep DEF AllRemember

LEMMA OneVoteEach ==
  ASSUME IInv, AllRemember
  PROVE  OneVotePerView
<1>1. \A x \in signed : x.voter \in Replicas
  BY DEF IInv, TypeOK, Votes
<1> QED
  BY <1>1 DEF AllRemember, Remembers, OneVotePerView, Follower

\* While no replica goes back to a view it has left, one that does not lead a
\* view signs one vote in it, whatever is lost, late or repeated
\* (hotstuff2.go:306-309), although it forgets its votes after KeepViews views
\* (context.go:509-530).
THEOREM OneVoteForward == ForwardSpec => []OneVotePerView
<1>1. [Next /\ ViewsForward]_vars => [Next]_vars
  OBVIOUS
<1>2. VInv /\ AllRemember /\ [Next /\ ViewsForward]_vars => AllRemember'
  <2> SUFFICES ASSUME VInv, AllRemember, [Next /\ ViewsForward]_vars PROVE AllRemember'
    OBVIOUS
  <2>1. \A r \in Replicas : NoReturn(r)
    <3>1. CASE Next /\ ViewsForward
      BY <3>1 DEF NoReturn, ViewsForward
    <3>2. CASE UNCHANGED vars
      <4>1. \A r \in Replicas : ctx[r].view \in Int
        BY BoundsAssumption DEF VInv, IInv, TypeOK, Contexts, Views
      <4> QED
        BY <3>2, <4>1 DEF NoReturn, vars
    <3> QED
      BY <3>1, <3>2
  <2> QED
    BY <1>1, <2>1, AllRememberStep
<1>3. VInv /\ AllRemember => OneVotePerView
  BY OneVoteEach DEF VInv
<1> QED
  BY <1>1, <1>2, <1>3, AllRememberInit, VotersVerifyAndLock, PTL DEF ForwardSpec, Spec

\* Replicas that may go back as well sign one vote in a view for as long as no
\* vote has been pruned: in the code, for 10 views.
THEOREM OneVoteAtHand == KeepViews >= MaxView /\ Spec => []OneVotePerView
<1> SUFFICES ASSUME KeepViews >= MaxView
             PROVE  Spec => []OneVotePerView
  OBVIOUS
<1>1. VInv /\ AllRemember /\ [Next]_vars => AllRemember'
  BY AllRememberStep DEF NoReturn
<1>2. VInv /\ AllRemember => OneVotePerView
  BY OneVoteEach DEF VInv
<1> QED
  BY <1>1, <1>2, AllRememberInit, VotersVerifyAndLock, PTL DEF Spec

-----------------------------------------------------------------------------
(* Quorums share voters *)

LEMMA FType == F \in Int
  BY NAssumption DEF F

LEMMA Overlap ==
  ASSUME NEW A \in SUBSET Replicas, NEW B \in SUBSET Replicas, IsQuorum(A), IsQuorum(B)
  PROVE  IsFiniteSet(A \cap B) /\ Cardinality(A \cap B) >= 2 * Quorum - N
<1>1. /\ IsFiniteSet(A) /\ IsFiniteSet(B) /\ IsFiniteSet(A \cap B)
      /\ A \cup B \in SUBSET Replicas
  BY ReplicasFinite, FS_Subset
<1>2. Cardinality(A \cup B) = Cardinality(A) + Cardinality(B) - Cardinality(A \cap B)
  BY <1>1, FS_Union
<1>3. Cardinality(A \cup B) <= N /\ IsFiniteSet(A \cup B)
  BY <1>1, ReplicasFinite, FS_Subset
<1>4. /\ Cardinality(A) \in Nat /\ Cardinality(B) \in Nat
      /\ Cardinality(A \cap B) \in Nat /\ Cardinality(A \cup B) \in Nat
  BY <1>1, <1>3, FS_CardinalityType
<1>5. Cardinality(A) >= Quorum /\ Cardinality(B) >= Quorum
  BY DEF IsQuorum
<1> QED
  BY <1>1, <1>2, <1>3, <1>4, <1>5, QuorumType, NAssumption

LEMMA AllButOne ==
  ASSUME NEW X, IsFiniteSet(X), NEW l
  PROVE  /\ IsFiniteSet(X \ {l})
         /\ Cardinality(X) \in Nat /\ Cardinality(X \ {l}) \in Nat
         /\ Cardinality(X \ {l}) >= Cardinality(X) - 1
<1>1. /\ IsFiniteSet(X \ {l})
      /\ Cardinality(X \ {l}) = IF l \in X THEN Cardinality(X) - 1 ELSE Cardinality(X)
  BY FS_RemoveElement
<1>2. Cardinality(X) \in Nat /\ Cardinality(X \ {l}) \in Nat
  BY <1>1, FS_CardinalityType
<1> QED
  BY <1>1, <1>2

\* Of two elements one is not l, and of three one is neither l nor m.
LEMMA AnotherOne ==
  ASSUME NEW X, IsFiniteSet(X), Cardinality(X) >= 2, NEW l
  PROVE  \E r \in X : r # l
<1>1. Cardinality(X \ {l}) # 0
  BY AllButOne
<1>2. X \ {l} # {}
  BY <1>1, FS_EmptySet
<1> QED
  BY <1>2

LEMMA YetAnotherOne ==
  ASSUME NEW X, IsFiniteSet(X), Cardinality(X) >= 3, NEW l, NEW m
  PROVE  \E r \in X : r # l /\ r # m
<1>1. IsFiniteSet(X \ {l}) /\ Cardinality(X \ {l}) >= 2
  BY AllButOne
<1> QED
  BY <1>1, AnotherOne

SignersIn(S, q) ==
  {r \in Replicas : [view |-> q.view, block |-> q.block, voter |-> r] \in S}

LEMMA CertifiedSigners ==
  ASSUME NEW S, NEW q
  PROVE  /\ CertifiedBy(S, q) <=> IsQuorum(SignersIn(S, q))
         /\ SignersIn(S, q) \in SUBSET Replicas
  BY DEF CertifiedBy, SignersIn

\* When N is 3F+1, or 3F+2 with F > 1, or 3F+3 with F > 2, two QCs of a view
\* are for the same block: quorums share a voter that does not lead the view.
LEMMA OneBlockPerView ==
  ASSUME N <= 4 * F, OneVotePerView, NEW p \in QCs, NEW q \in QCs, p.view = q.view,
         CertifiedBy(signed, p), CertifiedBy(signed, q)
  PROVE  p = q
<1> DEFINE A == SignersIn(signed, p)
           B == SignersIn(signed, q)
<1>1. /\ A \in SUBSET Replicas /\ IsQuorum(A)
      /\ B \in SUBSET Replicas /\ IsQuorum(B)
  BY CertifiedSigners
<1>2. \A r \in A : [view |-> p.view, block |-> p.block, voter |-> r] \in signed
  BY DEF SignersIn
<1>3. \A r \in B : [view |-> q.view, block |-> q.block, voter |-> r] \in signed
  BY DEF SignersIn
<1> HIDE DEF A, B
<1>4. IsFiniteSet(A \cap B) /\ Cardinality(A \cap B) >= 2 * Quorum - N
  BY <1>1, Overlap
<1>5. Cardinality(A \cap B) \in Nat
  BY <1>4, FS_CardinalityType
<1>6. Cardinality(A \cap B) >= 2
  BY <1>4, <1>5, FType, NAssumption DEF Quorum
<1>7. PICK r \in A \cap B : r # Leader(p.view)
  BY <1>4, <1>6, AnotherOne
<1>8. [view |-> p.view, block |-> p.block, voter |-> r] =
        [view |-> q.view, block |-> q.block, voter |-> r]
  BY <1>2, <1>3, <1>7 DEF OneVotePerView
<1>9. p.block = q.block
  BY <1>8
<1> QED
  BY <1>9 DEF QCs

LEMMA HeldQCsType ==
  ASSUME IInv
  PROVE  HeldQCs \subseteq QCs
<1> SUFFICES ASSUME NEW q \in HeldQCs PROVE q \in QCs
  OBVIOUS
<1>1. PICK r \in Replicas : q \in QCsOf(ctx[r]) \cup {m.qc : m \in inbox[r]}
  BY DEF HeldQCs
<1>2. ctx[r] \in Contexts /\ \A m \in inbox[r] : m.qc \in QCs \cup {NoQC}
  BY DEF IInv, TypeOK, Messages
<1>3. q # NoQC
  BY DEF HeldQCs
<1>4. QCsOf(ctx[r]) \subseteq QCs \cup {NoQC}
  BY <1>2 DEF QCsOf, Contexts, NewViews
<1> QED
  BY <1>1, <1>2, <1>3, <1>4

LEMMA OneQC ==
  ASSUME N <= 4 * F, IInv, QCIntegrity, OneVotePerView
  PROVE  UniqueQCPerView
<1>1. \A q \in HeldQCs : q \in QCs /\ CertifiedBy(signed, q)
  BY HeldQCsType, CertifiedByFields DEF QCIntegrity
<1> QED
  BY <1>1, OneBlockPerView DEF UniqueQCPerView

\* Two QCs of a view, wherever they are, certify one block, while no replica
\* goes back: quorums of the size the code counts (config.go:243-245) share a
\* validator besides the leader, which may sign two blocks.
THEOREM OneQCForward == N <= 4 * F /\ ForwardSpec => []UniqueQCPerView
<1> SUFFICES ASSUME N <= 4 * F
             PROVE  ForwardSpec => []UniqueQCPerView
  OBVIOUS
<1>1. IInv /\ QCIntegrity /\ OneVotePerView => UniqueQCPerView
  BY OneQC
<1>2. [Next /\ ViewsForward]_vars => [Next]_vars
  OBVIOUS
<1> QED
  BY <1>1, <1>2, InductiveInvariant, QCsAreCertified, OneVoteForward, PTL DEF ForwardSpec, Spec

\* The same of replicas that may go back, until they forget votes.
THEOREM OneQCAtHand == N <= 4 * F /\ KeepViews >= MaxView /\ Spec => []UniqueQCPerView
<1> SUFFICES ASSUME N <= 4 * F, KeepViews >= MaxView
             PROVE  Spec => []UniqueQCPerView
  OBVIOUS
<1>1. IInv /\ QCIntegrity /\ OneVotePerView => UniqueQCPerView
  BY OneQC
<1>2. Spec => []OneVotePerView
  BY OneVoteAtHand
<1> QED
  BY <1>1, <1>2, InductiveInvariant, QCsAreCertified, PTL

-----------------------------------------------------------------------------
(* Locks *)

LEMMA SignedAgain ==
  ASSUME BlocksOfOneView, NEW p, NEW q, p.block = q.block,
         CertifiedBy(signed, p), CertifiedBy(signed, q)
  PROVE  p.view = q.view
<1>1. PICK r \in Replicas : [view |-> p.view, block |-> p.block, voter |-> r] \in signed
  BY CertifiedVoted
<1>2. PICK s \in Replicas : [view |-> q.view, block |-> q.block, voter |-> s] \in signed
  BY CertifiedVoted
<1> QED
  BY <1>1, <1>2 DEF BlocksOfOneView

LEMMA TwoChainLocks ==
  ASSUME VInv, BlocksOfOneView
  PROVE  TwoChainsAreLocked
<1> SUFFICES ASSUME NEW x \in signed,
                    Certified(x.view, x.block),
                    x.view > 0,
                    Parent(x.block) # NoBlock,
                    Certified(x.view - 1, Parent(x.block))
             PROVE  Cardinality({r \in Replicas : /\ ctx[r].lockedQC # NoQC
                                                  /\ ctx[r].lockedQC.view >= x.view - 1})
                      >= Quorum - 1
  BY DEF TwoChainsAreLocked
<1> DEFINE A == Signers(x.view, x.block)
           B == A \ {Leader(x.view)}
           Z == {r \in Replicas : /\ ctx[r].lockedQC # NoQC
                                  /\ ctx[r].lockedQC.view >= x.view - 1}
           p == [view |-> x.view - 1, block |-> Parent(x.block)]
<1>1. CertifiedBy(signed, p)
  BY CertifiedIsBy
<1>2. ASSUME NEW r \in B
      PROVE  r \in Z
  <2>1. [view |-> x.view, block |-> x.block, voter |-> r] \in signed /\ r \in Replicas
    BY DEF Signers
  <2>2. LockedOnParent(signed, ctx[r], x.block)
    BY <2>1 DEF VInv, FollowersLock, Follower
  <2>3. PICK q \in QCs : /\ CertifiedBy(signed, q)
                         /\ q.block = Parent(x.block)
                         /\ ctx[r].lockedQC # NoQC
                         /\ ctx[r].lockedQC.view >= q.view
    BY <2>2 DEF LockedOnParent
  <2>4. q.view = p.view
    BY <1>1, <2>3, SignedAgain
  <2> QED
    BY <2>1, <2>3, <2>4
<1>3. B \subseteq Z /\ Z \in SUBSET Replicas /\ A \in SUBSET Replicas
  BY <1>2 DEF Signers
<1>4. IsQuorum(A)
  BY DEF Certified
<1> HIDE DEF A, Z
<1>5. IsFiniteSet(A) /\ IsFiniteSet(Z)
  BY <1>3, ReplicasFinite, FS_Subset
<1>6. IsFiniteSet(B) /\ Cardinality(B) >= Cardinality(A) - 1
  BY <1>5, AllButOne
<1>7. Cardinality(B) <= Cardinality(Z)
  BY <1>3, <1>5, FS_Subset
<1>8. Cardinality(A) \in Nat /\ Cardinality(B) \in Nat /\ Cardinality(Z) \in Nat
  BY <1>5, <1>6, FS_CardinalityType
<1>9. Cardinality(A) >= Quorum
  BY <1>4 DEF IsQuorum
<1>10. Cardinality(Z) >= Quorum - 1
  BY <1>6, <1>7, <1>8, <1>9, QuorumType
<1> QED
  BY <1>10 DEF Z

LEMMA OneViewHolds == OneViewSpec => [](VInv /\ BlocksOfOneView)
<1>1. [Next /\ BlocksOfOneView']_vars => [Next]_vars
  OBVIOUS
<1>2. BlocksOfOneView /\ [Next /\ BlocksOfOneView']_vars => BlocksOfOneView'
  BY DEF BlocksOfOneView, vars
<1>3. Init => BlocksOfOneView
  BY DEF Init, BlocksOfOneView
<1> QED
  BY <1>1, <1>2, <1>3, VotersVerifyAndLock, PTL DEF OneViewSpec, Spec

\* As long as no block is proposed in two views, a block with a child certified
\* in the next view is locked by all but one of a quorum: followers lock what
\* justifies the proposal before they vote (hotstuff2.go:346-362), the leader
\* votes without locking (hotstuff2.go:930-935).
THEOREM TwoChainsLock == OneViewSpec => []TwoChainsAreLocked
<1>1. VInv /\ BlocksOfOneView => TwoChainsAreLocked
  BY TwoChainLocks
<1> QED
  BY <1>1, OneViewHolds, PTL

-----------------------------------------------------------------------------
(* Blocks above blocks *)

\* Votes on certified parents, those of followers for verified blocks.
Sound(S) ==
  \A x \in S : ParentCertified(S, x.block) /\ (Follower(x) => Verify(x.block))

LEMMA SignedSound ==
  ASSUME VInv
  PROVE  Sound(signed)
  BY DEF VInv, IInv, FollowersVerify, Sound

\* A certified block has been verified: some signer does not lead the view.
LEMMA CertifiedVerified ==
  ASSUME N <= 4 * F, NEW S, Sound(S), NEW q, CertifiedBy(S, q)
  PROVE  Verify(q.block)
<1> DEFINE A == SignersIn(S, q)
<1>1. A \in SUBSET Replicas /\ IsQuorum(A)
  BY CertifiedSigners
<1>2. \A r \in A : [view |-> q.view, block |-> q.block, voter |-> r] \in S
  BY DEF SignersIn
<1> HIDE DEF A
<1>3. IsFiniteSet(A) /\ Cardinality(A) \in Nat
  BY <1>1, ReplicasFinite, FS_Subset, FS_CardinalityType
<1>4. Cardinality(A) >= 2
  BY <1>1, <1>3, FType, NAssumption DEF IsQuorum, Quorum
<1>5. \A l : \E r \in A : r # l
  BY <1>3, <1>4, AnotherOne
<1>6. PICK r \in A : r # Leader(q.view)
  BY <1>5
<1> QED
  BY <1>2, <1>6 DEF Sound, Follower

\* A block that can be voted for is one higher than its parent.
LEMMA VerifiedHeight ==
  ASSUME StrictVerify, NEW b \in Blocks, Verify(b), Parent(b) # NoBlock
  PROVE  Height(b) = Height(Parent(b)) + 1
  BY DEF Verify

\* What the walk from a verified block on a certified parent meets is lower.
LEMMA AncestorsAreLower ==
  ASSUME StrictVerify, N <= 4 * F, NEW S, Sound(S),
         NEW c \in Contexts, NEW b \in Blocks, ParentCertified(S, b), Verify(b),
         NEW a \in Blocks, IsAncestor(c, a, b)
  PROVE  a = b \/ Height(a) < Height(b)
<1> DEFINE Low == {x \in Blocks : /\ Height(x) < Height(b)
                                  /\ ParentCertified(S, x)
                                  /\ Verify(x)}
           I == Low \cup {b, NoBlock}
<1>1. ASSUME NEW x \in Low \cup {b}
      PROVE  Parent(x) \in I
  <2>1. /\ x \in Blocks /\ ParentCertified(S, x) /\ Verify(x)
        /\ Height(x) \in Nat /\ Height(b) \in Nat
        /\ Height(x) <= Height(b)
    BY BlocksAssumption
  <2>2. CASE Parent(x) = NoBlock
    BY <2>2
  <2>3. CASE Parent(x) # NoBlock
    <3>1. PICK y \in S : y.block = Parent(x) /\ CertifiedBy(S, y)
      BY <2>1, <2>3 DEF ParentCertified
    <3>2. Verify(Parent(x)) /\ ParentCertified(S, Parent(x))
      BY <3>1, CertifiedVerified DEF Sound
    <3>3. Parent(x) \in Blocks /\ Height(Parent(x)) \in Nat
      BY <2>1, <2>3, BlocksAssumption
    <3>4. Height(x) = Height(Parent(x)) + 1
      BY <2>1, <2>3, VerifiedHeight
    <3>5. Height(Parent(x)) < Height(b)
      BY <2>1, <3>3, <3>4
    <3> QED
      BY <3>2, <3>3, <3>5
  <2> QED
    BY <2>2, <2>3
<1>2. NoBlock \notin c.parents
  BY BlocksAssumption DEF Contexts
<1>3. b \in I /\ \A x \in I \cap c.parents : Parent(x) \in I
  BY <1>1, <1>2
<1> HIDE DEF I
<1>4. Ancestry(c, b) \subseteq I
  BY <1>3, AncestryClosed
<1>5. a \in I
  BY <1>4 DEF IsAncestor
<1> QED
  BY <1>5, BlocksAssumption DEF I

\* Some block certified in no earlier view than a's parent was lies below b.
Above(S, a, b) ==
  \E q, p \in QCs :
    /\ CertifiedBy(S, q)
    /\ CertifiedBy(S, p)
    /\ p.block = Parent(a)
    /\ q.view >= p.view
    /\ Verify(b) => Height(q.block) < Height(b)

LEMMA AboveMonotone ==
  ASSUME NEW S, NEW T, S \subseteq T, NEW a, NEW b, Above(S, a, b)
  PROVE  Above(T, a, b)
  BY CertifiedMonotone DEF Above

\* The SafeNode rule lets a replica locked on a's parent or above vote for b
\* only if b is above as well, or is what it is locked on.
LEMMA SafeBlocksAreAbove ==
  ASSUME StrictVerify, N <= 4 * F, NEW S, Sound(S),
         NEW c \in Contexts, NEW lock \in QCs, CertifiedBy(S, lock),
         NEW a, NEW p \in QCs, CertifiedBy(S, p), p.block = Parent(a), lock.view >= p.view,
         NEW b \in Blocks, ParentCertified(S, b), SafeBlock(S, c, lock, b)
  PROVE  lock.block = b \/ Above(S, a, b)
<1>1. lock # NoQC /\ lock.view \in Nat /\ p.view \in Nat
  BY NoQCAssumption, BoundsAssumption DEF QCs, Views
<1>2. ASSUME NEW q \in QCs, CertifiedBy(S, q), q.block = Parent(b), q.view > lock.view
      PROVE  Above(S, a, b)
  <2>1. q.view \in Nat /\ q.view >= p.view
    BY <1>1, <1>2, BoundsAssumption DEF QCs, Views
  <2>2. Parent(b) # NoBlock /\ Height(Parent(b)) \in Nat
    BY <1>2, BlocksAssumption DEF QCs
  <2>3. Verify(b) => Height(q.block) < Height(b)
    BY <1>2, <2>2, VerifiedHeight
  <2> QED
    BY <1>2, <2>1, <2>3 DEF Above
<1>3. CASE IsAncestor(c, lock.block, b)
  <2>1. lock.block \in Blocks
    BY DEF QCs
  <2>2. Verify(b) => lock.block = b \/ Height(lock.block) < Height(b)
    BY <1>3, <2>1, AncestorsAreLower
  <2> QED
    BY <2>2 DEF Above
<1> QED
  BY <1>1, <1>2, <1>3 DEF SafeBlock

-----------------------------------------------------------------------------
(* Votes of one replica in two views *)

\* No replica has voted in, or read, a view it has yet to enter.
VotesBehind ==
  /\ \A x \in signed : x.view <= ctx[x.voter].view
  /\ \A r \in Replicas : \A t \in tasks[r] : t.kind = "create" => t.view <= ctx[r].view

\* Votes that obey the SafeNode rule: those of followers, and when leaders obey
\* it too (strict), all of them.
Careful(strict, x) == strict \/ Follower(x)

\* A vote on a parent, after which the voter is locked on it or above.
Locking(x) == Follower(x) /\ Parent(x.block) # NoBlock

\* After a locking vote, a replica's careful votes are for blocks above, or for
\* certified ones.
LaterVotesAbove(strict) ==
  \A x, y \in signed :
    Locking(x) /\ Careful(strict, y) /\ x.voter = y.voter /\ x.view < y.view
      => CertifiedBy(signed, y) \/ Above(signed, x.block, y.block)

\* q was certified by a quorum whose careful members had cast no locking vote
\* in an earlier view but for blocks on parents that q's block is above of.
CertifiedInOrder(strict, q) ==
  \E A \in SUBSET SignersIn(signed, q) :
    /\ IsQuorum(A)
    /\ \A r \in A : strict \/ Leader(q.view) # r =>
         \A x \in signed :
           Locking(x) /\ x.voter = r /\ x.view < q.view => Above(signed, x.block, q.block)

AllCertifiedInOrder(strict) ==
  \A q \in QCs : CertifiedBy(signed, q) => CertifiedInOrder(strict, q)

AInv(strict) ==
  VotesBehind /\ LaterVotesAbove(strict) /\ AllCertifiedInOrder(strict)

\* What the restricted steps guarantee.
RestrictedStep(strict) ==
  /\ ViewsForward
  /\ BlocksOfOneView'
  /\ strict => LeadersVoteSafely

LEMMA VotesBehindStep ==
  ASSUME VInv, VInv', VotingStep, ViewsForward, VotesBehind
  PROVE  VotesBehind'
<1>1. \A r \in Replicas : ctx[r].view \in Nat /\ ctx'[r].view \in Nat
  BY BoundsAssumption DEF VInv, IInv, TypeOK, Contexts, Views
<1>2. \A x \in signed' : x.voter \in Replicas /\ x.view \in Nat
  BY BoundsAssumption DEF VInv, IInv, TypeOK, Votes, Views
<1>3. \A r \in Replicas : \A t \in tasks[r] \cup tasks'[r] : t.view \in Nat
  BY BoundsAssumption DEF VInv, IInv, TypeOK, Tasks, Views
<1>4. ASSUME NEW r \in Replicas, NEW v, v \in Nat, v <= ctx[r].view
      PROVE  v <= ctx'[r].view
  <2>1. ctx[r].view <= ctx'[r].view
    BY DEF ViewsForward
  <2> QED
    BY <1>1, <1>4, <2>1
<1>5. ASSUME NEW x \in signed'
      PROVE  x.view <= ctx'[x.voter].view
  <2>1. CASE x \in signed
    BY <1>2, <1>4, <2>1 DEF VotesBehind
  <2>2. CASE x \notin signed
    <3>1. NewVote(x)
      BY <2>2 DEF VotingStep
    <3>2. CASE x.view = ctx'[x.voter].view
      BY <1>1, <1>2, <3>2
    <3>3. CASE [kind |-> "create", view |-> x.view] \in tasks[x.voter]
      <4>1. x.view <= ctx[x.voter].view
        BY <1>2, <3>3 DEF VotesBehind
      <4> QED
        BY <1>2, <1>4, <4>1
    <3> QED
      BY <3>1, <3>2, <3>3 DEF NewVote, LeaderVote, FollowerVote
  <2> QED
    BY <2>1, <2>2
<1>6. ASSUME NEW r \in Replicas, NEW t \in tasks'[r], t.kind = "create"
      PROVE  t.view <= ctx'[r].view
  <2>1. CASE t \in tasks[r]
    BY <1>3, <1>4, <1>6, <2>1 DEF VotesBehind
  <2>2. CASE t.view = ctx'[r].view
    BY <1>1, <2>2
  <2> QED
    BY <1>6, <2>1, <2>2 DEF VotingStep
<1> QED
  BY <1>5, <1>6 DEF VotesBehind

\* A new careful vote, after a locking vote of its voter.
LEMMA NewVoteAbove ==
  ASSUME StrictVerify, N <= 4 * F, NEW strict, RestrictedStep(strict),
         VInv, VInv', VotingStep,
         NEW x \in signed, Locking(x),
         NEW y \in signed' \ signed, Careful(strict, y), x.voter = y.voter
  PROVE  CertifiedBy(signed, y) \/ Above(signed', x.block, y.block)
<1> DEFINE r == x.voter
           lock == ctx[r].lockedQC
<1>1. /\ x \in Votes /\ y \in Votes /\ r \in Replicas
      /\ ctx[r] \in Contexts /\ ctx'[r] \in Contexts
      /\ signed \subseteq signed'
      /\ IInv /\ IInv'
  BY DEF VInv, IInv, TypeOK, Votes, VotingStep
<1>2. y.block \in Blocks /\ ParentCertified(signed', y.block)
  BY <1>1 DEF Votes, IInv
<1>3. LockedOnParent(signed, ctx[r], x.block)
  BY DEF VInv, FollowersLock, Locking
<1>4. PICK p \in QCs : /\ CertifiedBy(signed, p)
                       /\ p.block = Parent(x.block)
                       /\ lock # NoQC
                       /\ lock.view >= p.view
  BY <1>3 DEF LockedOnParent, Locking
<1>5. lock \in QCs /\ CertifiedBy(signed, lock)
  BY <1>1, <1>4, LockType DEF IInv, Good, Backed
<1>6. CertifiedBy(signed', p) /\ CertifiedBy(signed', lock)
  BY <1>1, <1>4, <1>5, CertifiedMonotone
<1>7. \E a \in Contexts : SafeBlock(signed', a, lock, y.block)
  <2>1. CASE Follower(y)
    <3>1. FollowerVote(r, signed, ctx[r], ctx'[r], y.view, y.block)
      BY <2>1 DEF VotingStep, NewVote, LeaderVote, Follower
    <3>2. PICK a \in Contexts : SafeBlock(signed, a, lock, y.block)
      BY <3>1 DEF FollowerVote
    <3>3. SafeBlock(signed', a, lock, y.block)
      BY <1>1, <3>2, CertifiedMonotone DEF SafeBlock
    <3> QED
      BY <3>3
  <2>2. CASE ~Follower(y)
    <3>1. strict /\ Leader(y.view) = y.voter
      BY <2>2 DEF Careful, Follower
    <3>2. \/ \E q \in QCsOf(ctx'[r]) \ {NoQC} : q.block = Parent(y.block) /\ q.view > lock.view
          \/ IsAncestor(ctx'[r], lock.block, y.block)
      BY <1>4, <3>1 DEF RestrictedStep, LeadersVoteSafely
    <3>3. \A q \in QCsOf(ctx'[r]) \ {NoQC} : q \in QCs /\ CertifiedBy(signed', q)
      BY <1>1 DEF QCsOf, IInv, Good, Backed, Contexts, NewViews
    <3>4. SafeBlock(signed', ctx'[r], lock, y.block)
      BY <3>2, <3>3 DEF SafeBlock
    <3> QED
      BY <1>1, <3>4
  <2> QED
    BY <2>1, <2>2
<1> HIDE DEF r, lock
<1>8. lock.block = y.block \/ Above(signed', x.block, y.block)
  <2>1. Sound(signed')
    BY DEF VInv, IInv, FollowersVerify, Sound, Follower
  <2>2. PICK a \in Contexts : SafeBlock(signed', a, lock, y.block)
    BY <1>7
  <2> QED
    BY <1>2, <1>4, <1>5, <1>6, <2>1, <2>2, SafeBlocksAreAbove
<1>9. CASE lock.block = y.block
  <2>1. PICK s \in Replicas : [view |-> lock.view, block |-> lock.block, voter |-> s] \in signed
    BY <1>5, CertifiedVoted
  <2>2. lock.view = y.view
    BY <1>1, <1>9, <2>1 DEF RestrictedStep, BlocksOfOneView
  <2> QED
    BY <1>5, <1>9, <2>2 DEF CertifiedBy
<1> QED
  BY <1>8, <1>9

\* A follower's new vote is in no earlier view than its others.
LEMMA NewVotesAreLast ==
  ASSUME VInv, VInv', VotingStep, ViewsForward, VotesBehind,
         NEW x \in signed' \ signed, Follower(x), NEW y \in signed', x.voter = y.voter
  PROVE  ~(x.view < y.view)
<1>1. x \in Votes /\ y \in Votes
  BY DEF VInv, IInv, TypeOK
<1>2. x.view \in Nat /\ y.view \in Nat /\ x.voter \in Replicas
  BY <1>1, BoundsAssumption DEF Votes, Views
<1>3. CASE y \notin signed
  BY <1>2, <1>3 DEF VotingStep
<1>4. CASE y \in signed
  <2>1. x.view = ctx'[x.voter].view
    BY DEF VotingStep, NewVote, LeaderVote, FollowerVote, Follower
  <2>2. y.view <= ctx[x.voter].view
    BY <1>4 DEF VotesBehind
  <2>3. ctx[x.voter].view <= ctx'[x.voter].view
    BY <1>2 DEF ViewsForward
  <2>4. ctx[x.voter].view \in Nat /\ ctx'[x.voter].view \in Nat
    BY <1>2, BoundsAssumption DEF VInv, IInv, TypeOK, Contexts, Views
  <2> QED
    BY <1>2, <2>1, <2>2, <2>3, <2>4
<1> QED
  BY <1>3, <1>4

\* What holds of a locking vote and a later careful one after a step.
LEMMA LaterVote ==
  ASSUME StrictVerify, N <= 4 * F, NEW strict, RestrictedStep(strict),
         VInv, VInv', VotingStep, VotesBehind, LaterVotesAbove(strict),
         NEW x \in signed', NEW y \in signed',
         Locking(x), Careful(strict, y), x.voter = y.voter, x.view < y.view
  PROVE  CertifiedBy(signed, y) \/ Above(signed', x.block, y.block)
<1>1. x \in signed
  BY NewVotesAreLast DEF RestrictedStep, Locking
<1>2. CASE y \in signed
  <2>1. CertifiedBy(signed, y) \/ Above(signed, x.block, y.block)
    BY <1>1, <1>2 DEF LaterVotesAbove
  <2>2. signed \subseteq signed'
    BY DEF VotingStep
  <2> QED
    BY <2>1, <2>2, AboveMonotone
<1>3. CASE y \notin signed
  BY <1>1, <1>3, NewVoteAbove
<1> QED
  BY <1>2, <1>3

LEMMA CertifiedInOrderStep ==
  ASSUME StrictVerify, N <= 4 * F, NEW strict, RestrictedStep(strict),
         VInv, VInv', VotingStep, VotesBehind, LaterVotesAbove(strict),
         AllCertifiedInOrder(strict),
         NEW q \in QCs, CertifiedBy(signed', q)
  PROVE  CertifiedInOrder(strict, q)'
<1>1. signed \subseteq signed' /\ q.view \in Nat
  BY BoundsAssumption DEF VotingStep, QCs, Views
<1>2. SUFFICES ASSUME NEW A \in SUBSET SignersIn(signed', q), IsQuorum(A),
                      NEW r \in A, strict \/ Leader(q.view) # r,
                      NEW x \in signed', Locking(x), x.voter = r, x.view < q.view,
                      CertifiedBy(signed, q) =>
                        /\ A \subseteq SignersIn(signed, q)
                        /\ \A z \in signed :
                             Locking(z) /\ z.voter = r /\ z.view < q.view
                               => Above(signed, z.block, q.block)
               PROVE  Above(signed', x.block, q.block)
  <2>1. CASE CertifiedBy(signed, q)
    <3>1. PICK A \in SUBSET SignersIn(signed, q) :
            /\ IsQuorum(A)
            /\ \A r \in A : strict \/ Leader(q.view) # r =>
                 \A x \in signed :
                   Locking(x) /\ x.voter = r /\ x.view < q.view
                     => Above(signed, x.block, q.block)
      BY <2>1 DEF AllCertifiedInOrder, CertifiedInOrder
    <3>2. A \in SUBSET SignersIn(signed', q)
      BY <1>1, <3>1 DEF SignersIn
    <3>3. \A r \in A : strict \/ Leader(q.view) # r =>
            \A x \in signed' :
              Locking(x) /\ x.voter = r /\ x.view < q.view => Above(signed', x.block, q.block)
      BY <1>2, <3>1, <3>2
    <3> QED
      BY <3>1, <3>2, <3>3 DEF CertifiedInOrder, Locking, Follower
  <2>2. CASE ~CertifiedBy(signed, q)
    <3> DEFINE A == SignersIn(signed', q)
    <3>1. IsQuorum(A) /\ A \in SUBSET A
      BY CertifiedSigners
    <3>2. \A r \in A : strict \/ Leader(q.view) # r =>
            \A x \in signed' :
              Locking(x) /\ x.voter = r /\ x.view < q.view => Above(signed', x.block, q.block)
      BY <1>2, <2>2, <3>1
    <3> QED
      BY <3>1, <3>2 DEF CertifiedInOrder, Locking, Follower
  <2> QED
    BY <2>1, <2>2
<1> DEFINE y == [view |-> q.view, block |-> q.block, voter |-> r]
<1>3. y \in signed' /\ r \in Replicas
  BY <1>2 DEF SignersIn
<1>4. Careful(strict, y)
  BY <1>2 DEF Careful, Follower
<1>5. CertifiedBy(signed, y) \/ Above(signed', x.block, y.block)
  <2>1. y.voter = r /\ y.view = q.view
    OBVIOUS
  <2> HIDE DEF y
  <2> QED
    BY <1>2, <1>3, <1>4, <2>1, LaterVote
<1>6. CASE CertifiedBy(signed, q)
  <2>1. [view |-> q.view, block |-> q.block, voter |-> r] \in signed
    BY <1>2, <1>6 DEF SignersIn
  <2>2. x \in signed
    <3>1. Follower(x) /\ ViewsForward
      BY <1>2 DEF Locking, RestrictedStep
    <3> QED
      BY <1>2, <1>3, <3>1, NewVotesAreLast
  <2>3. Above(signed, x.block, q.block)
    BY <1>2, <1>6, <2>2
  <2> QED
    BY <1>1, <2>3, AboveMonotone
<1>7. CASE ~CertifiedBy(signed, q)
  BY <1>5, <1>7 DEF CertifiedBy
<1> QED
  BY <1>6, <1>7

LEMMA AInvStep ==
  ASSUME StrictVerify, N <= 4 * F, NEW strict, RestrictedStep(strict),
         VInv, [Next]_vars, AInv(strict)
  PROVE  AInv(strict)'
<1>1. VInv' /\ VotingStep
  BY VInvStep
<1>2. VotesBehind'
  BY <1>1, VotesBehindStep DEF AInv, RestrictedStep
<1>3. LaterVotesAbove(strict)'
  <2>1. signed \subseteq signed'
    BY <1>1 DEF VotingStep
  <2>2. \A x, y \in signed' :
          Locking(x) /\ Careful(strict, y) /\ x.voter = y.voter /\ x.view < y.view
            => CertifiedBy(signed', y) \/ Above(signed', x.block, y.block)
    BY <1>1, <2>1, LaterVote, CertifiedMonotone DEF AInv
  <2> QED
    BY <2>2 DEF LaterVotesAbove, Locking, Careful, Follower
<1>4. AllCertifiedInOrder(strict)'
  BY <1>1, CertifiedInOrderStep DEF AInv, AllCertifiedInOrder
<1> QED
  BY <1>2, <1>3, <1>4 DEF AInv

LEMMA AInvInit ==
  ASSUME NEW strict, Init
  PROVE  AInv(strict)
<1>1. signed = {} /\ \A r \in Replicas : \A t \in tasks[r] : t.kind # "create"
  BY DEF Init
<1>2. ASSUME NEW q, CertifiedBy(signed, q)
      PROVE  FALSE
  <2>1. \E r \in Replicas : [view |-> q.view, block |-> q.block, voter |-> r] \in signed
    BY <1>2, CertifiedVoted
  <2> QED
    BY <1>1, <2>1
<1> QED
  BY <1>1, <1>2 DEF AInv, VotesBehind, LaterVotesAbove, AllCertifiedInOrder

-----------------------------------------------------------------------------
(* No fork *)

\* How many validators two quorums share: enough for one that leads neither of
\* two views, or one of the two when leaders are careful.
EnoughShared(strict) == IF strict THEN N <= 4 * F ELSE N + 1 <= 4 * F

\* What holds of the votes while the steps are restricted.
SafeVotes(strict) ==
  VInv /\ OneVotePerView /\ BlocksOfOneView /\ AInv(strict)

\* One QC per view, as blocks.
LEMMA SameViewSameBlock ==
  ASSUME N <= 4 * F, OneVotePerView, NEW p \in QCs, NEW q \in QCs, p.view = q.view,
         CertifiedBy(signed, p), CertifiedBy(signed, q)
  PROVE  p.block = q.block
  BY OneBlockPerView

\* p's block has a child certified in the next view, as x says.
CommitRule(p, x) ==
  /\ CertifiedBy(signed, p)
  /\ CertifiedBy(signed, x)
  /\ x.view = p.view + 1
  /\ Parent(x.block) = p.block

\* A block certified later is above a block that was too, in no earlier view
\* than the committed one.
LEMMA LaterIsAbove ==
  ASSUME NEW strict \in BOOLEAN, EnoughShared(strict), SafeVotes(strict),
         NEW p \in QCs, NEW x \in QCs, CommitRule(p, x),
         NEW y \in QCs, CertifiedBy(signed, y), y.view > x.view
  PROVE  Above(signed, x.block, y.block)
<1>1. CertifiedInOrder(strict, y)
  BY DEF SafeVotes, AInv, AllCertifiedInOrder
<1>2. PICK A \in SUBSET SignersIn(signed, y) :
        /\ IsQuorum(A)
        /\ \A r \in A : strict \/ Leader(y.view) # r =>
             \A z \in signed :
               Locking(z) /\ z.voter = r /\ z.view < y.view => Above(signed, z.block, y.block)
  BY <1>1 DEF CertifiedInOrder
<1> DEFINE B == SignersIn(signed, x)
<1>3. /\ A \in SUBSET Replicas /\ B \in SUBSET Replicas /\ IsQuorum(B)
      /\ \A r \in B : [view |-> x.view, block |-> x.block, voter |-> r] \in signed
  BY CertifiedSigners DEF SignersIn, CommitRule
<1> HIDE DEF B
<1>4. IsFiniteSet(A \cap B) /\ Cardinality(A \cap B) >= 2 * Quorum - N
  BY <1>2, <1>3, Overlap
<1>5. Cardinality(A \cap B) \in Nat
  BY <1>4, FS_CardinalityType
<1>6. \E r \in A \cap B : r # Leader(x.view) /\ (strict \/ r # Leader(y.view))
  <2>1. CASE strict
    <3>1. Cardinality(A \cap B) >= 2
      BY <1>4, <1>5, <2>1, FType, NAssumption DEF Quorum, EnoughShared
    <3> QED
      BY <1>4, <2>1, <3>1, AnotherOne
  <2>2. CASE ~strict
    <3>1. Cardinality(A \cap B) >= 3
      BY <1>4, <1>5, <2>2, FType, NAssumption DEF Quorum, EnoughShared
    <3> QED
      BY <1>4, <3>1, YetAnotherOne
  <2> QED
    BY <2>1, <2>2
<1>7. PICK r \in A \cap B : r # Leader(x.view) /\ (strict \/ r # Leader(y.view))
  BY <1>6
<1> DEFINE z == [view |-> x.view, block |-> x.block, voter |-> r]
<1>8. z \in signed /\ z.voter = r /\ z.view = x.view /\ z.block = x.block
  BY <1>3, <1>7
<1> HIDE DEF z
<1>9. Parent(x.block) # NoBlock
  BY BlocksAssumption DEF CommitRule, QCs
<1>10. Locking(z)
  BY <1>7, <1>8, <1>9 DEF Locking, Follower
<1>11. z.view < y.view
  BY <1>8, BoundsAssumption DEF QCs, Views
<1> QED
  BY <1>2, <1>7, <1>8, <1>10, <1>11

\* No block as high as a committed one, or lower, is certified in its view or
\* later, but itself: the lowest would be above another that is lower still.
LEMMA NoFork ==
  ASSUME StrictVerify, NEW strict \in BOOLEAN, EnoughShared(strict), SafeVotes(strict),
         NEW p \in QCs, NEW x \in QCs, CommitRule(p, x),
         NEW y \in QCs, CertifiedBy(signed, y), y.view >= p.view,
         Height(y.block) <= Height(p.block)
  PROVE  y.block = p.block
<1> DEFINE Fork(z) == /\ z \in QCs /\ CertifiedBy(signed, z)
                      /\ z.view >= p.view
                      /\ Height(z.block) <= Height(p.block)
                      /\ z.block # p.block
           H == {n \in Nat : \E z \in QCs : Fork(z) /\ Height(z.block) = n}
<1>1. \A z \in QCs : z.view \in Nat /\ z.block \in Blocks /\ Height(z.block) \in Nat
  BY BoundsAssumption, BlocksAssumption DEF QCs, Views
<1>2. N <= 4 * F
  BY FType, NAssumption DEF EnoughShared
<1>3. SUFFICES ASSUME H # {} PROVE FALSE
  BY <1>1
<1>4. PICK n \in H : \A k \in H : n <= k
  BY <1>3, LeastNumber
<1>5. PICK z \in QCs : Fork(z) /\ Height(z.block) = n
  BY <1>4
<1>6. Sound(signed)
  BY SignedSound DEF SafeVotes
<1>7. z.view # p.view
  BY <1>2, <1>5, SameViewSameBlock DEF SafeVotes, CommitRule
<1>8. Verify(x.block) /\ Verify(z.block)
  BY <1>2, <1>5, <1>6, CertifiedVerified DEF CommitRule
<1>9. Height(x.block) = Height(p.block) + 1
  <2>1. Parent(x.block) # NoBlock
    BY <1>1, BlocksAssumption DEF CommitRule
  <2> QED
    BY <1>1, <1>8, <2>1, VerifiedHeight DEF CommitRule
<1>10. z.view # x.view
  <2>1. z.block # x.block
    BY <1>1, <1>5, <1>9
  <2> QED
    BY <1>2, <1>5, <2>1, SameViewSameBlock DEF SafeVotes, CommitRule
<1>11. z.view > x.view
  BY <1>1, <1>5, <1>7, <1>10 DEF CommitRule
<1>12. Above(signed, x.block, z.block)
  BY <1>5, <1>11, LaterIsAbove
<1>13. PICK q \in QCs, o \in QCs :
         /\ CertifiedBy(signed, q)
         /\ CertifiedBy(signed, o)
         /\ o.block = p.block
         /\ q.view >= o.view
         /\ Height(q.block) < Height(z.block)
  BY <1>8, <1>12 DEF Above, CommitRule
<1>14. o.view = p.view
  BY <1>13, SignedAgain DEF SafeVotes, CommitRule
<1>15. Fork(q)
  BY <1>1, <1>5, <1>13, <1>14
<1>16. Height(q.block) \in H
  BY <1>1, <1>13, <1>15
<1> QED
  BY <1>1, <1>4, <1>5, <1>13, <1>16

-----------------------------------------------------------------------------
(* Agreement *)

\* A ledger has one block of a height.
LedgersInOrder ==
  \A r \in Replicas : \A x, y \in ctx[r].committed : Height(x) = Height(y) => x = y

LEMMA LedgersInOrderStep ==
  ASSUME IInv, [Next]_vars, LedgersInOrder
  PROVE  LedgersInOrder'
<1>1. CASE UNCHANGED vars
  BY <1>1 DEF vars, LedgersInOrder
<1>2. CASE Next
  <2>1. PICK r \in Replicas : LedgerStep(r)
    BY <1>2, NextLedger DEF Next
  <2>2. PICK e : /\ LedgerEffect(r, signed, ctx[r], e)
                 /\ ctx' = [ctx EXCEPT ![r] = e.ctx]
    BY <2>1 DEF LedgerStep
  <2>3. ctx'[r] = e.ctx /\ \A q \in Replicas \ {r} : ctx'[q] = ctx[q]
    BY <2>2 DEF IInv, TypeOK
  <2>4. AddsOne(signed \cup e.cast, ctx[r], ctx'[r])
    BY <2>2, <2>3 DEF LedgerEffect
  <2>5. \A x, y \in ctx'[r].committed : Height(x) = Height(y) => x = y
    BY <2>4 DEF AddsOne, LedgersInOrder
  <2> QED
    BY <2>3, <2>5 DEF LedgersInOrder
<1> QED
  BY <1>1, <1>2

\* No replica ever has two blocks at a height (hotstuff2.go:519-525), whatever
\* arrives and however often it goes back to an earlier view.
THEOREM LedgersStayInOrder == Spec => []LedgersInOrder
<1>1. Init => LedgersInOrder
  BY DEF Init, NewContext, LedgersInOrder
<1>2. IInv /\ LedgersInOrder /\ [Next]_vars => LedgersInOrder'
  BY LedgersInOrderStep
<1> QED
  BY <1>1, <1>2, InductiveInvariant, PTL DEF Spec

\* The QCs that committed a block.
LEMMA CommittedByRule ==
  ASSUME IInv, OnTwoChains, NEW r \in Replicas, NEW b \in ctx[r].committed, b # Genesis
  PROVE  \E p, x \in QCs : CommitRule(p, x) /\ p.block = b
<1>1. TwoChain(signed, b) /\ b \in Blocks
  BY DEF IInv, TypeOK, Contexts, OnTwoChains
<1>2. PICK z \in signed : /\ Parent(z.block) = b
                          /\ CertifiedBy(signed, z)
                          /\ z.view > 0
                          /\ CertifiedBy(signed, [view |-> z.view - 1, block |-> b])
  BY <1>1 DEF TwoChain
<1> DEFINE p == [view |-> z.view - 1, block |-> b]
           x == [view |-> z.view, block |-> z.block]
<1>3. z \in Votes
  BY DEF IInv, TypeOK
<1>4. p \in QCs /\ x \in QCs
  BY <1>1, <1>2, <1>3, BoundsAssumption DEF QCs, Votes, Views
<1>5. CertifiedBy(signed, x)
  BY <1>2 DEF CertifiedBy
<1>6. x.view = p.view + 1
  BY <1>3, BoundsAssumption DEF Votes, Views
<1>7. CommitRule(p, x)
  BY <1>2, <1>5, <1>6 DEF CommitRule
<1> QED
  BY <1>4, <1>7

LEMMA SafeVotesAgree ==
  ASSUME StrictVerify, NEW strict \in BOOLEAN, EnoughShared(strict), SafeVotes(strict),
         LedgersInOrder, OnTwoChains
  PROVE  Agreement
<1> SUFFICES ASSUME NEW r \in Replicas, NEW s \in Replicas,
                    NEW a \in ctx[r].committed, NEW b \in ctx[s].committed,
                    Height(a) = Height(b)
             PROVE  a = b
  BY DEF Agreement
<1>1. IInv /\ Genesis \in ctx[r].committed /\ Genesis \in ctx[s].committed
  BY DEF SafeVotes, VInv, OnTwoChains
<1>2. CASE a = Genesis \/ b = Genesis
  BY <1>1, <1>2 DEF LedgersInOrder
<1>3. CASE a # Genesis /\ b # Genesis
  <2>1. PICK p \in QCs, x \in QCs : CommitRule(p, x) /\ p.block = a
    BY <1>1, <1>3, CommittedByRule
  <2>2. PICK q \in QCs, y \in QCs : CommitRule(q, y) /\ q.block = b
    BY <1>1, <1>3, CommittedByRule
  <2>3. p.view \in Nat /\ q.view \in Nat /\ Height(a) \in Nat /\ Height(b) \in Nat
    BY <2>1, <2>2, BoundsAssumption, BlocksAssumption DEF QCs, Views
  <2>4. CASE q.view >= p.view
    <3>1. CertifiedBy(signed, q) /\ Height(q.block) <= Height(p.block)
      BY <2>1, <2>2, <2>3 DEF CommitRule
    <3> QED
      BY <2>1, <2>2, <2>4, <3>1, NoFork
  <2>5. CASE p.view >= q.view
    <3>1. CertifiedBy(signed, p) /\ Height(p.block) <= Height(q.block)
      BY <2>1, <2>2, <2>3 DEF CommitRule
    <3> QED
      BY <2>1, <2>2, <2>5, <3>1, NoFork
  <2> QED
    BY <2>3, <2>4, <2>5
<1> QED
  BY <1>2, <1>3

\* A step that changes nothing keeps to every restriction.
LEMMA RestrictedOrIdle ==
  ASSUME VInv, BlocksOfOneView, NEW strict \in BOOLEAN,
         [Next /\ ViewsForward /\ BlocksOfOneView' /\ (strict => LeadersVoteSafely)]_vars
  PROVE  RestrictedStep(strict)
<1>1. CASE UNCHANGED vars
  <2>1. \A r \in Replicas : ctx[r].view \in Int
    BY BoundsAssumption DEF VInv, IInv, TypeOK, Contexts, Views
  <2>2. ViewsForward
    BY <1>1, <2>1 DEF vars, ViewsForward
  <2>3. BlocksOfOneView' /\ LeadersVoteSafely
    BY <1>1 DEF vars, BlocksOfOneView, LeadersVoteSafely
  <2> QED
    BY <2>2, <2>3 DEF RestrictedStep
<1> QED
  BY <1>1 DEF RestrictedStep

\* While no replica goes back and no block is proposed in two views, no two
\* replicas commit different blocks at a height, when any two quorums share
\* three validators: a leader may vote against its lock, and there are two
\* leaders to leave out (hotstuff2.go:325-329, 930-935, 1023-1028).
THEOREM QuorumsAgree == StrictVerify /\ N + 1 <= 4 * F /\ OrderlySpec => []Agreement
<1> SUFFICES ASSUME StrictVerify, N + 1 <= 4 * F
             PROVE  OrderlySpec => []Agreement
  OBVIOUS
<1> DEFINE A == BlocksOfOneView /\ AInv(FALSE)
           Step == Next /\ ViewsForward /\ BlocksOfOneView'
<1>1. Init => A
  BY AInvInit DEF Init, BlocksOfOneView
<1>2. VInv /\ A /\ [Step]_vars => A'
  <2> SUFFICES ASSUME VInv, A, [Step]_vars PROVE A'
    OBVIOUS
  <2>1. RestrictedStep(FALSE)
    BY RestrictedOrIdle
  <2>2. N <= 4 * F
    BY FType, NAssumption
  <2>3. AInv(FALSE)'
    BY <2>1, <2>2, AInvStep
  <2> QED
    BY <2>1, <2>3 DEF RestrictedStep
<1>3. VInv /\ OneVotePerView /\ A /\ LedgersInOrder /\ OnTwoChains => Agreement
  <2>1. EnoughShared(FALSE)
    BY DEF EnoughShared
  <2> QED
    BY <2>1, SafeVotesAgree DEF SafeVotes
<1>4. [Step]_vars => [Next]_vars /\ [Next /\ ViewsForward]_vars
  OBVIOUS
<1>5. OrderlySpec <=> Init /\ [][Step]_vars
  BY DEF OrderlySpec
<1> HIDE DEF A, Step
<1> QED
  BY <1>1, <1>2, <1>3, <1>4, <1>5, VotersVerifyAndLock, OneVoteForward, LedgersStayInOrder,
     CommitsOnTwoChains, PTL DEF Spec, ForwardSpec

\* When leaders vote by the SafeNode rule as followers do, two shared
\* validators are enough, so that four validators agree.
THEOREM CarefulLeadersAgree == StrictVerify /\ N <= 4 * F /\ SafeLeadersSpec => []Agreement
<1> SUFFICES ASSUME StrictVerify, N <= 4 * F
             PROVE  SafeLeadersSpec => []Agreement
  OBVIOUS
<1> DEFINE A == BlocksOfOneView /\ AInv(TRUE)
           Step == Next /\ ViewsForward /\ BlocksOfOneView' /\ LeadersVoteSafely
<1>1. Init => A
  BY AInvInit DEF Init, BlocksOfOneView
<1>2. VInv /\ A /\ [Step]_vars => A'
  <2> SUFFICES ASSUME VInv, A, [Step]_vars PROVE A'
    OBVIOUS
  <2>1. RestrictedStep(TRUE)
    BY RestrictedOrIdle
  <2>2. AInv(TRUE)'
    BY <2>1, AInvStep
  <2> QED
    BY <2>1, <2>2 DEF RestrictedStep
<1>3. VInv /\ OneVotePerView /\ A /\ LedgersInOrder /\ OnTwoChains => Agreement
  <2>1. EnoughShared(TRUE)
    BY DEF EnoughShared
  <2> QED
    BY <2>1, SafeVotesAgree DEF SafeVotes
<1>4. [Step]_vars => [Next]_vars /\ [Next /\ ViewsForward]_vars
  OBVIOUS
<1>5. SafeLeadersSpec <=> Init /\ [][Step]_vars
  BY DEF SafeLeadersSpec
<1> HIDE DEF A, Step
<1> QED
  BY <1>1, <1>2, <1>3, <1>4, <1>5, VotersVerifyAndLock, OneVoteForward, LedgersStayInOrder,
     CommitsOnTwoChains, PTL DEF Spec, ForwardSpec
==============================================================================
