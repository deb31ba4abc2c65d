---------------------------- MODULE Durable_proofs ----------------------------
(***************************************************************************)
(* What survives crashes, for every number of validators and of crashes:   *)
(* certificates stay certified, the locks of the followers of a two-chain  *)
(* are on their disks or were booted with, and one crash does not let a    *)
(* view certify two blocks unless its leader signed both.                  *)
(*                                                                         *)
(* The steps between crashes are those of HotStuff2, and what its proofs   *)
(* say of a step holds here too.  A handler cut short has an effect that   *)
(* is Good as well, and the replica is left with what Boot makes of its    *)
(* disk instead of the context of that effect.                             *)
(***************************************************************************)
EXTENDS DurableHotStuff2, Agreement_proofs

GoodDisk(S, d) ==
  /\ d \in Disks
  /\ \A q \in d.qcs : CertifiedBy(S, q)
  /\ d.lock # NoQC => CertifiedBy(S, d.lock)

\* What a handler of r cut short may have done: what it signs, it signs in
\* its own name, and as a follower with a lock on the parent.
CutEffect(r, S, c, e) ==
  /\ GoodEffect(S, c, e)
  /\ LockRises(c, e.ctx)
  /\ \A x \in e.cast : /\ x.voter = r
                       /\ Follower(x) => Verify(x.block) /\ LockedOnParent(S, e.ctx, x.block)

\* What holds across crashes whatever the disks hold back.
DInv ==
  /\ IInv
  /\ CreatesLead
  /\ FollowersVerify
  /\ disk \in [Replicas -> Disks]
  /\ \A r \in Replicas : GoodDisk(signed, disk[r])
  /\ booted \in [Replicas -> QCs \cup {NoQC}]
  /\ crashes \in Nat

-----------------------------------------------------------------------------
(* Writing and booting *)

LEMMA GoodDiskMonotone ==
  ASSUME NEW S, NEW T, S \subseteq T, NEW d, GoodDisk(S, d)
  PROVE  GoodDisk(T, d)
  BY CertifiedMonotone DEF GoodDisk

LEMMA WriteGood ==
  ASSUME NEW S, NEW d, GoodDisk(S, d), NEW c, NEW c2, Good(S, c2)
  PROVE  GoodDisk(S, Write(d, c, c2))
<1> DEFINE last == LastBlock(d, c2.blocks \ c.blocks)
           qcs  == {q \in d.qcs : \A p \in c2.qcs \ c.qcs : p.block # q.block}
                     \cup (c2.qcs \ c.qcs)
           lock == IF c2.lockedQC # c.lockedQC THEN c2.lockedQC ELSE d.lock
<1>1. Write(d, c, c2) = [last |-> last, qcs |-> qcs, lock |-> lock, view |-> c2.view]
  BY DEF Write
<1>2. last \in Blocks
  BY DEF LastBlock, GoodDisk, Disks, Good, Contexts
<1>3. qcs \subseteq QCs /\ \A q \in qcs : CertifiedBy(S, q)
  BY DEF GoodDisk, Disks, Good, Contexts, Backed
<1>4. lock \in QCs \cup {NoQC} /\ (lock # NoQC => CertifiedBy(S, lock))
  BY DEF GoodDisk, Disks, Good, Contexts, Backed
<1>5. c2.view \in Views
  BY DEF Good, Contexts
<1> HIDE DEF last, qcs, lock
<1> QED
  BY <1>1, <1>2, <1>3, <1>4, <1>5 DEF GoodDisk, Disks

LEMMA LastQCGood ==
  ASSUME NEW S, NEW d, GoodDisk(S, d)
  PROVE  LastQC(d) \in QCs \cup {NoQC} /\ (LastQC(d) # NoQC => CertifiedBy(S, LastQC(d)))
<1>1. LastQC(d) = NoQC \/ LastQC(d) \in d.qcs
  BY DEF LastQC
<1> QED
  BY <1>1 DEF GoodDisk, Disks

\* A replica boots with a lock no lower than the stored one.
LEMMA BootGood ==
  ASSUME NEW S, NEW d, GoodDisk(S, d)
  PROVE  /\ Good(S, Boot(d))
         /\ d.lock # NoQC => LocksOn(d.lock.view, Boot(d).lockedQC)
<1> DEFINE q == LastQC(d)
           c1 == NewContext(d.last, q)
           c2 == SetView(c1, d.view)
           c3 == UpdateLockedQC(c2, d.lock)
<1>1. /\ d.last \in Blocks /\ d.view \in Views /\ d.lock \in QCs \cup {NoQC}
      /\ d.lock # NoQC => CertifiedBy(S, d.lock)
  BY DEF GoodDisk, Disks
<1>2. q \in QCs \cup {NoQC} /\ (q # NoQC => CertifiedBy(S, q))
  BY LastQCGood
<1> HIDE DEF q
<1>3. Good(S, c1)
  <2>1. c1 \in Contexts
    BY <1>1, <1>2, BoundsAssumption DEF NewContext, Contexts, Views
  <2>2. Backed(S, c1)
    BY <1>2 DEF NewContext, Backed
  <2> QED
    BY <2>1, <2>2 DEF Good
<1> HIDE DEF c1
<1>4. Good(S, c2)
  BY <1>1, <1>3, SetViewGood
<1> HIDE DEF c2
<1>5. CASE d.lock = NoQC
  <2>1. c3 = c2
    BY <1>5 DEF UpdateLockedQC, Supersedes
  <2> QED
    BY <1>4, <1>5, <2>1 DEF Boot, c1, c2, q
<1>6. CASE d.lock # NoQC
  <2>1. Good(S, c3)
    BY <1>1, <1>4, <1>6, UpdateLockedQCGood
  <2>2. LocksOn(d.lock.view, c3.lockedQC)
    BY <1>1, <1>4, <1>6, UpdateLockedQCCalm DEF LocksOn, Good
  <2> QED
    BY <2>1, <2>2 DEF Boot, c1, c2, q
<1> QED
  BY <1>5, <1>6

-----------------------------------------------------------------------------
(* Handlers cut short *)

LEMMA OnlyCut ==
  ASSUME NEW r, NEW S, NEW c, NEW d, Good(S, d), Grows(c, d), LockRises(c, d)
  PROVE  CutEffect(r, S, c, Only(d))
<1>1. GoodEffect(S, c, Only(d))
  BY OnlyGood
<1>2. Only(d).ctx = d /\ Only(d).cast = {}
  BY DEF Only
<1> QED
  BY <1>1, <1>2 DEF CutEffect

LEMMA SilentCut ==
  ASSUME NEW r, NEW S, NEW c, NEW e, GoodEffect(S, c, e), LockRises(c, e.ctx), e.cast = {}
  PROVE  CutEffect(r, S, c, e)
  BY DEF CutEffect

\* r signs one vote and sends one message.
LEMMA CastCut ==
  ASSUME NEW S, NEW c, NEW r \in Replicas, NEW v \in Views, NEW b \in Blocks,
         NEW x, x = [view |-> v, block |-> b, voter |-> r],
         NEW d, Good(S \cup {x}, d), Grows(c, d), LockRises(c, d),
         NEW m \in Messages, GoodMessage(S \cup {x}, m),
         ParentCertified(S, b),
         Leader(v) # r => Verify(b) /\ LockedOnParent(S, d, b)
  PROVE  CutEffect(r, S, c, Signing(r, v, b, m, d))
<1> DEFINE e == [ctx |-> d, sent |-> {m}, cast |-> {x}, started |-> {}]
<1>1. x \in Votes /\ x.view = v /\ x.block = b /\ x.voter = r
  BY DEF Votes
<1>2. e \in Effects
  BY <1>1 DEF Effects, Good
<1>3. ParentCertified(S \cup {x}, x.block)
  BY <1>1, ParentCertifiedMonotone
<1>4. GoodEffect(S, c, e)
  BY <1>2, <1>3 DEF GoodEffect
<1>5. CutEffect(r, S, c, e)
  BY <1>1, <1>4 DEF CutEffect, Follower
<1> QED
  BY <1>5 DEF Signing

\* The QC that a vote completes is stored.
LEMMA HalfFormedGood ==
  ASSUME NEW S, NEW c, Good(S, c), NEW v \in Views, NEW b \in Blocks, NEW voter \in Replicas,
         [view |-> v, block |-> b, voter |-> voter] \in S,
         NEW d \in HalfFormed(c, v, b, voter)
  PROVE  Good(S, d) /\ Grows(c, d) /\ Calm(c, d)
<1> DEFINE x == [view |-> v, block |-> b, voter |-> voter]
           c1 == AddVote(c, x)
           q == [view |-> v, block |-> b]
<1>1. x \in S /\ x \in Votes /\ q \in QCs
  BY DEF Votes, QCs
<1>2. QuorumReached(c1, v, b) /\ d = AddQC(c1, q)
  BY DEF HalfFormed
<1> HIDE DEF x
<1>3. Good(S, c1) /\ Grows(c, c1) /\ Calm(c, c1)
  BY <1>1, AddVoteGood, CalmOperations DEF Good
<1> HIDE DEF c1
<1>4. CertifiedBy(S, q)
  BY <1>2, <1>3, QuorumCertifies
<1> HIDE DEF q
<1>5. Good(S, d) /\ Grows(c1, d) /\ Calm(c1, d)
  BY <1>1, <1>2, <1>3, <1>4, AddQCGood, CalmOperations DEF Good
<1> QED
  BY <1>3, <1>5, GrowsTransitive, CalmTransitive DEF Good

\* c is the context of a proposal's vote, c0 the one its handler began with.
LEMMA PartsOfVotingCut ==
  ASSUME NEW S, NEW c0 \in Contexts, NEW c, Good(S, c), Grows(c0, c), LockRises(c0, c),
         NEW r \in Replicas, NEW m \in Messages, GoodMessage(S, m), m.type = "PROPOSE",
         MayVote(r, c, m), NEW e \in PartsOfVoting(r, c, m)
  PROVE  CutEffect(r, S, c0, e)
<1> DEFINE stored == AddBlock(c, m.block)
           kept == StoreQC(stored, m.qc)
           locked == BeforeVote(c, m)
           x == [view |-> m.view, block |-> m.block, voter |-> r]
           msg == VoteMessage(r, m.view, m.block)
           Voted(d) == Signing(r, m.view, m.block, msg, d)
           formed == HalfFormed(locked, m.view, m.block, r)
<1>1. /\ m.view \in Views /\ m.block \in Blocks /\ Height(m.block) > 0
      /\ m.qc \in QCs \cup {NoQC} /\ (m.qc # NoQC => CertifiedBy(S, m.qc))
      /\ ParentCertified(S, m.block)
      /\ Parent(m.block) = ParentOf(m.qc)
  BY ProposalContents DEF GoodMessage
<1>2. \/ e \in {Only(stored), Only(kept), Only(locked)}
      \/ \E d \in {locked} \cup formed : e = Voted(d)
  BY DEF PartsOfVoting
<1>3. Good(S, stored) /\ Grows(c, stored) /\ Calm(c, stored)
  BY <1>1, AddBlockGood, CalmOperations DEF Good
<1>4. locked = Lock(stored, m.qc)
  BY DEF BeforeVote
<1> HIDE DEF stored
<1>5. Good(S, kept) /\ Grows(stored, kept) /\ Calm(stored, kept)
  BY <1>1, <1>3, AddQCGood, CalmOperations, CalmReflexive, GrowsReflexive DEF StoreQC, Good
<1>6. /\ Good(S, locked) /\ Grows(stored, locked) /\ Calm(stored, locked)
      /\ m.qc # NoQC => locked.lockedQC # NoQC /\ locked.lockedQC.view >= m.qc.view
  BY <1>1, <1>3, <1>4, LockGood, LockCalm
<1> HIDE DEF kept, locked
<1>7. ASSUME NEW d, Good(S, d), Grows(c, d), Calm(c, d)
      PROVE  Grows(c0, d) /\ LockRises(c0, d) /\ CutEffect(r, S, c0, Only(d))
  <2>1. Grows(c0, d) /\ LockRises(c0, d)
    BY <1>7, GrowsTransitive, LockRisesTransitive DEF Good, Calm
  <2> QED
    BY <1>7, <2>1, OnlyCut
<1>8. \A d : Good(S, d) /\ Grows(stored, d) /\ Calm(stored, d) => Grows(c, d) /\ Calm(c, d)
  BY <1>3, GrowsTransitive, CalmTransitive DEF Good
<1>9. CASE e \in {Only(stored), Only(kept), Only(locked)}
  BY <1>3, <1>5, <1>6, <1>7, <1>8, <1>9
<1>10. ASSUME NEW d \in {locked} \cup formed, e = Voted(d)
       PROVE  CutEffect(r, S, c0, e)
  <2>1. x \in S \cup {x} /\ msg \in Messages
    BY <1>1 DEF Messages, VoteMessage
  <2>2. GoodMessage(S \cup {x}, msg)
    BY <1>1 DEF GoodMessage, VoteMessage
  <2>3. Good(S \cup {x}, stored) /\ Good(S \cup {x}, locked)
    BY <1>3, <1>6, GoodMonotone
  <2>4. Grows(c0, locked) /\ LockRises(c0, locked)
    BY <1>6, <1>7, <1>8
  <2>5. Good(S \cup {x}, d) /\ Grows(locked, d) /\ Calm(locked, d)
    <3>1. CASE d = locked
      BY <1>6, <2>3, <3>1, CalmReflexive, GrowsReflexive DEF Good
    <3>2. CASE d \in formed
      BY <1>1, <2>1, <2>3, <3>2, HalfFormedGood
    <3> QED
      BY <1>10, <3>1, <3>2
  <2>6. Grows(c0, d) /\ LockRises(c0, d)
    BY <2>3, <2>4, <2>5, GrowsTransitive, LockRisesTransitive DEF Good, Calm
  <2>7. Verify(m.block)
    BY DEF MayVote
  <2>8. LockedOnParent(S, d, m.block)
    <3>1. LockRises(locked, d) /\ locked \in Contexts /\ d \in Contexts
      BY <2>3, <2>5 DEF Calm, Good
    <3>2. m.qc # NoQC => d.lockedQC # NoQC /\ d.lockedQC.view >= m.qc.view
      <4> SUFFICES ASSUME m.qc # NoQC
                   PROVE  d.lockedQC # NoQC /\ d.lockedQC.view >= m.qc.view
        OBVIOUS
      <4>1. /\ locked.lockedQC # NoQC /\ locked.lockedQC.view >= m.qc.view
            /\ d.lockedQC # NoQC /\ locked.lockedQC.view <= d.lockedQC.view
        BY <1>6, <3>1 DEF LockRises
      <4>2. m.qc.view \in Nat /\ locked.lockedQC.view \in Nat /\ d.lockedQC.view \in Nat
        BY <1>1, <3>1, <4>1, LockType, BoundsAssumption DEF QCs, Views
      <4> QED
        BY <4>1, <4>2
    <3> QED
      BY <1>1, <3>2 DEF LockedOnParent, ParentOf
  <2> HIDE DEF msg
  <2> QED
    BY <1>1, <1>10, <2>1, <2>2, <2>5, <2>6, <2>7, <2>8, CastCut
<1> QED
  BY <1>2, <1>9, <1>10

LEMMA PartsOfProposalCut ==
  ASSUME IInv, NEW r \in Replicas, NEW m \in Received(r, "PROPOSE"),
         NEW e \in PartsOfProposal(r, m)
  PROVE  CutEffect(r, signed, ctx[r], e)
<1> DEFINE c == SyncByProposal(ctx[r], m)
           half == HalfSynced(ctx[r], m)
<1>1. m \in inbox[r] /\ m.type = "PROPOSE"
  BY DEF Received
<1>2. Good(signed, ctx[r]) /\ m \in Messages /\ GoodMessage(signed, m)
  BY <1>1, Delivered
<1>3. Good(signed, c) /\ Grows(ctx[r], c) /\ LockRises(ctx[r], c)
  BY <1>2, SyncByProposalGood, SyncByProposalSame, LockRisesReflexive DEF Good
<1>4. Good(signed, half) /\ Grows(ctx[r], half) /\ LockRises(ctx[r], half)
  <2>1. c.view \in Views
    BY <1>3 DEF Good, Contexts
  <2> HIDE DEF c
  <2> QED
    BY <1>2, <2>1, SetViewGood, SetViewMoves DEF HalfSynced, Good, Moves, c
<1>5. \/ e = Only(half)
      \/ e = Only(c)
      \/ MayVote(r, c, m) /\ e \in PartsOfVoting(r, c, m)
  BY DEF PartsOfProposal
<1> HIDE DEF c, half
<1> QED
  BY <1>1, <1>2, <1>3, <1>4, <1>5, OnlyCut, PartsOfVotingCut DEF Good

LEMMA PartsOfVoteCut ==
  ASSUME IInv, NEW r \in Replicas, NEW m \in Received(r, "VOTE"), NEW e \in PartsOfVote(r, m)
  PROVE  CutEffect(r, signed, ctx[r], e)
<1>1. m \in inbox[r] /\ m.type = "VOTE"
  BY DEF Received
<1>2. Good(signed, ctx[r]) /\ m \in Messages /\ GoodMessage(signed, m)
  BY <1>1, Delivered
<1>3. /\ [view |-> m.view, block |-> m.block, voter |-> m.from] \in signed
      /\ m.view \in Views /\ m.from \in Replicas /\ m.block \in Blocks
  BY <1>1, <1>2 DEF GoodMessage, Messages, IInv, TypeOK, Votes
<1>4. PICK d \in HalfFormed(ctx[r], m.view, m.block, m.from) : e = Only(d)
  BY DEF PartsOfVote
<1>5. Good(signed, d) /\ Grows(ctx[r], d) /\ Calm(ctx[r], d)
  BY <1>2, <1>3, HalfFormedGood
<1> QED
  BY <1>4, <1>5, OnlyCut DEF Calm

LEMMA PartsOfProposeCut ==
  ASSUME NEW S, NEW c, Good(S, c), NEW r \in Replicas, NEW v \in Views, Leader(v) = r,
         NEW justify \in QCs \cup {NoQC}, justify # NoQC => CertifiedBy(S, justify),
         NEW e \in PartsOfPropose(r, c, v, justify)
  PROVE  CutEffect(r, S, c, e)
<1>1. PICK b \in NewBlocks(r, c, justify) :
        \/ e = Only(AddBlock(c, b))
        \/ e = ProposeOnly(r, c, v, justify, b)
        \/ \E d \in HalfFormed(AddBlock(c, b), v, b, r) :
             e = Signing(r, v, b, ProposeMessage(r, v, b, justify), d)
  BY DEF PartsOfPropose
<1> DEFINE c1 == AddBlock(c, b)
           m == ProposeMessage(r, v, b, justify)
           x == [view |-> v, block |-> b, voter |-> r]
           f == [ctx |-> c1, sent |-> {m}, cast |-> {}, started |-> {}]
<1>2. ParentOf(justify) \in Blocks \cup {NoBlock}
  BY DEF ParentOf, QCs
<1>3. NextHeight(c, justify) \in {1} \cup {Height(a) + 1 : a \in Blocks}
  BY DEF NextHeight, Good, Contexts
<1>4. b \in Blocks /\ Height(b) = NextHeight(c, justify) /\ Parent(b) = ParentOf(justify)
  BY <1>2, <1>3, CreateBlockAssumption DEF NewBlocks
<1>5. Height(b) > 0
  BY <1>3, <1>4, BlocksAssumption
<1>6. Good(S, c1) /\ Grows(c, c1) /\ Calm(c, c1)
  BY <1>4, <1>5, AddBlockGood, CalmOperations DEF Good
<1>7. m \in Messages /\ GoodMessage(S, m)
  <2>1. m \in Messages
    BY <1>4 DEF Messages, ProposeMessage
  <2>2. GoodMessage(S, m)
    BY <1>4, <1>5 DEF GoodMessage, ProposeMessage
  <2> QED
    BY <2>1, <2>2
<1>8. ProposeOnly(r, c, v, justify, b) = f
  BY DEF ProposeOnly, Only
<1>9. ParentCertified(S, b)
  BY <1>4, ParentCertifiedByQC
<1>10. f.cast = {} /\ f.ctx = c1 /\ f.sent = {m} /\ f.started = {}
  OBVIOUS
<1> HIDE DEF c1, m, x
<1>11. CASE e = Only(c1)
  BY <1>6, <1>11, OnlyCut DEF Calm
<1>12. CASE e = f
  <2>1. GoodMessage(S \cup {}, m) /\ Good(S \cup {}, c1)
    BY <1>6, <1>7, GoodMessageMonotone, GoodMonotone
  <2>2. GoodEffect(S, c, f)
    BY <1>6, <1>7, <2>1 DEF GoodEffect, Effects, Good
  <2> QED
    BY <1>6, <1>10, <1>12, <2>2, SilentCut DEF Calm
<1>13. ASSUME NEW d \in HalfFormed(c1, v, b, r), e = Signing(r, v, b, m, d)
       PROVE  CutEffect(r, S, c, e)
  <2>1. Good(S \cup {x}, c1) /\ GoodMessage(S \cup {x}, m)
    BY <1>6, <1>7, GoodMonotone, GoodMessageMonotone
  <2>2. Good(S \cup {x}, d) /\ Grows(c1, d) /\ Calm(c1, d)
    <3>1. [view |-> v, block |-> b, voter |-> r] \in S \cup {x}
      BY DEF x
    <3> QED
      BY <1>4, <2>1, <3>1, HalfFormedGood
  <2>3. Grows(c, d) /\ LockRises(c, d)
    BY <1>6, <2>2, GrowsTransitive, LockRisesTransitive DEF Good, Calm
  <2> QED
    BY <1>4, <1>7, <1>9, <1>13, <2>1, <2>2, <2>3, CastCut DEF x
<1> QED
  BY <1>1, <1>8, <1>11, <1>12, <1>13 DEF c1, m

\* The view is entered and nothing else follows.
LEMMA EnteredCut ==
  ASSUME NEW S, NEW c, NEW r, NEW e, GoodEffect(S, c, e), e.cast = {},
         NEW d, Good(S, d), Grows(c, d), LockRises(c, d)
  PROVE  CutEffect(r, S, c, [e EXCEPT !.ctx = d])
<1> DEFINE f == [ctx |-> d, sent |-> e.sent, cast |-> {}, started |-> e.started]
<1>1. e \in Effects
  BY DEF GoodEffect
<1>2. [e EXCEPT !.ctx = d] = f
  BY <1>1 DEF Effects
<1>3. /\ f.cast = {} /\ f.ctx = d /\ f.sent = e.sent
      /\ f \in Effects
  BY <1>1 DEF Effects, Good
<1> HIDE DEF f
<1>4. Good(S \cup {}, d) /\ \A m \in e.sent : GoodMessage(S \cup {}, m)
  BY GoodMonotone DEF GoodEffect
<1>5. GoodEffect(S, c, f)
  BY <1>3, <1>4 DEF GoodEffect
<1> QED
  BY <1>2, <1>3, <1>5, SilentCut

\* e is the effect of entering v; nothing or part of a proposal follows it.
LEMMA PartsOfEnteringCut ==
  ASSUME NEW S, NEW c \in Contexts, NEW r \in Replicas, NEW v \in Views,
         NEW e, GoodEffect(S, c, e), e.cast = {}, LockRises(c, e.ctx),
         NEW f \in PartsOfEntering(r, e, v)
  PROVE  CutEffect(r, S, c, f)
<1> DEFINE d == SetView(e.ctx, v)
<1>1. Good(S, e.ctx) /\ Grows(c, e.ctx)
  <2>1. Good(S \cup {}, e.ctx) /\ Grows(c, e.ctx)
    BY DEF GoodEffect
  <2> QED
    BY <2>1, GoodMonotone
<1>2. CASE f = Only(e.ctx)
  BY <1>1, <1>2, OnlyCut
<1>3. CASE f = e
  BY <1>3, SilentCut
<1>4. Good(S, d) /\ Grows(e.ctx, d) /\ Moves(e.ctx, d)
  BY <1>1, SetViewGood, SetViewMoves DEF Good
<1> HIDE DEF d
<1>5. Grows(c, d) /\ LockRises(c, d)
  BY <1>1, <1>4, GrowsTransitive, LockRisesTransitive DEF Good, Moves
<1>6. CASE f = [e EXCEPT !.ctx = d]
  BY <1>4, <1>5, <1>6, EnteredCut
<1>7. ASSUME NEW q \in Justifications(d, v), NEW p \in PartsOfPropose(r, d, v, q),
             f = Then(e, p), Leader(v) = r
      PROVE  CutEffect(r, S, c, f)
  <2>1. q \in QCs \cup {NoQC} /\ (q # NoQC => CertifiedBy(S, q))
    <3>1. q = d.highQC \/ q \in HighestQCFromNewViews(d, v)
      BY <1>7 DEF Justifications
    <3>2. d.highQC \in QCs \cup {NoQC} /\ (d.highQC # NoQC => CertifiedBy(S, d.highQC))
      BY <1>4 DEF Good, Contexts, Backed
    <3> QED
      BY <1>4, <3>1, <3>2, HighestQCGood
  <2>2. CutEffect(r, S, d, p)
    BY <1>4, <1>7, <2>1, PartsOfProposeCut
  <2>3. GoodEffect(S, d, p) /\ LockRises(d, p.ctx) /\ p \in Effects
    BY <2>2 DEF CutEffect, GoodEffect
  <2>4. GoodEffect(S, c, f)
    BY <1>4, <1>5, <1>7, <2>3, ThenGood DEF Good
  <2>5. f.cast = p.cast /\ f.ctx = p.ctx
    BY <1>7, <2>3 DEF Then, Effects
  <2>6. LockRises(c, f.ctx)
    BY <1>4, <1>5, <2>3, <2>5, LockRisesTransitive DEF Good, Effects
  <2> QED
    BY <2>2, <2>4, <2>5, <2>6 DEF CutEffect
<1> QED
  BY <1>2, <1>3, <1>6, <1>7 DEF PartsOfEntering, MayPropose, d

LEMMA PartsOfNewViewCut ==
  ASSUME IInv, NEW r \in Replicas, NEW m \in Received(r, "NEWVIEW"),
         NEW e \in PartsOfNewView(r, m)
  PROVE  CutEffect(r, signed, ctx[r], e)
<1> DEFINE c == RecordNewView(ctx[r], m)
           f == SyncByNewView(r, c, m)
<1>1. m \in inbox[r]
  BY DEF Received
<1>2. Good(signed, ctx[r]) /\ m \in Messages /\ GoodMessage(signed, m) /\ m.view \in Views
  BY <1>1, Delivered DEF Messages
<1>3. Good(signed, c) /\ Grows(ctx[r], c)
  BY <1>2, RecordNewViewGood
<1>4. GoodEffect(signed, ctx[r], f) /\ f.cast = {}
  BY <1>2, SyncByNewViewGood
<1>5. Moves(ctx[r], f.ctx)
  BY <1>2, SyncByNewViewMoves
<1>6. LockRises(ctx[r], c)
  <2>1. c.lockedQC = ctx[r].lockedQC
    BY <1>2 DEF Good, Contexts, RecordNewView, AddNewView, UpdateHighQC, AddQC
  <2> QED
    BY <1>2, <2>1, LockRisesReflexive DEF Good
<1>7. e = Only(c) \/ e \in PartsOfEntering(r, f, m.view)
  BY DEF PartsOfNewView
<1> HIDE DEF c, f
<1>8. CASE e = Only(c)
  BY <1>3, <1>6, <1>8, OnlyCut
<1>9. CASE e \in PartsOfEntering(r, f, m.view)
  BY <1>2, <1>4, <1>5, <1>9, PartsOfEnteringCut DEF Good, Moves
<1> QED
  BY <1>7, <1>8, <1>9

LEMMA PartsOfTimeoutCut ==
  ASSUME IInv, NEW r \in Replicas, ctx[r].view < MaxView, NEW e \in PartsOfTimeout(r)
  PROVE  CutEffect(r, signed, ctx[r], e)
<1> DEFINE v == ctx[r].view + 1
           c == PruneVotes(ctx[r], v)
           f == EnterWithNewView(r, c, v)
<1>1. Good(signed, ctx[r]) /\ ctx[r].view \in Views
  BY DEF IInv, TypeOK, Contexts
<1>2. v \in Views
  BY <1>1, BoundsAssumption DEF Views
<1>3. e \in PartsOfEntering(r, f, v)
  BY DEF PartsOfTimeout
<1> HIDE DEF v
<1>4. Good(signed, c) /\ Grows(ctx[r], c)
  BY <1>1, <1>2, PruneVotesGood
<1>5. c.lockedQC = ctx[r].lockedQC
  BY <1>1 DEF Good, Contexts, PruneVotes
<1> HIDE DEF c
<1>6. GoodEffect(signed, c, f) /\ f.cast = {} /\ Moves(c, f.ctx)
  BY <1>2, <1>4, EnterWithNewViewGood, EnterWithNewViewMoves
<1> HIDE DEF f
<1>7. GoodEffect(signed, ctx[r], f) /\ LockRises(ctx[r], f.ctx)
  BY <1>1, <1>4, <1>5, <1>6, GrowsThenGood DEF Good, Moves, LockRises
<1> QED
  BY <1>1, <1>2, <1>3, <1>6, <1>7, PartsOfEnteringCut DEF Good

\* What a crash does, wherever it comes.
CrashesIn(r) ==
  \E e, msgs : CutEffect(r, signed, ctx[r], e) /\ CrashAfter(r, e, msgs)

LEMMA CrashesCut ==
  ASSUME IInv, CreatesLead, NEW r \in Replicas,
         \/ Crash(r) \/ CrashInProposal(r) \/ CrashInVote(r) \/ CrashInNewView(r)
         \/ CrashInTimeout(r) \/ CrashInPropose(r)
  PROVE  CrashesIn(r)
<1>1. Good(signed, ctx[r]) /\ ctx[r] \in Contexts
  BY DEF IInv, Good
<1>2. CASE Crash(r)
  <2>1. CutEffect(r, signed, ctx[r], Only(ctx[r]))
    BY <1>1, OnlyCut, GrowsReflexive, LockRisesReflexive
  <2> QED
    BY <1>2, <2>1 DEF Crash, CrashesIn
<1>3. CASE CrashInProposal(r)
  BY <1>3, PartsOfProposalCut DEF CrashInProposal, CrashesIn
<1>4. CASE CrashInVote(r)
  BY <1>4, PartsOfVoteCut DEF CrashInVote, CrashesIn
<1>5. CASE CrashInNewView(r)
  BY <1>5, PartsOfNewViewCut DEF CrashInNewView, CrashesIn
<1>6. CASE CrashInTimeout(r)
  BY <1>6, PartsOfTimeoutCut DEF CrashInTimeout, CrashesIn
<1>7. CASE CrashInPropose(r)
  <2>1. PICK t \in tasks[r] :
          /\ t.kind = "create"
          /\ \E e \in PartsOfPropose(r, ctx[r], t.view, ctx[r].highQC) : CrashAfter(r, e, {})
    BY <1>7 DEF CrashInPropose
  <2> DEFINE parts == PartsOfPropose(r, ctx[r], t.view, ctx[r].highQC)
  <2>2. /\ t.view \in Views /\ Leader(t.view) = r
        /\ ctx[r].highQC \in QCs \cup {NoQC}
        /\ ctx[r].highQC # NoQC => CertifiedBy(signed, ctx[r].highQC)
    BY <1>1, <2>1 DEF IInv, TypeOK, Tasks, CreatesLead, Good, Contexts, Backed
  <2>3. PICK e \in parts : CrashAfter(r, e, {})
    BY <2>1
  <2>4. CutEffect(r, signed, ctx[r], e)
    BY <1>1, <2>2, PartsOfProposeCut
  <2> QED
    BY <2>3, <2>4 DEF CrashesIn
<1> QED
  BY <1>2, <1>3, <1>4, <1>5, <1>6, <1>7

-----------------------------------------------------------------------------
(* Crashes *)

\* r boots from its disk as the effect e leaves it.
LEMMA CrashLeaves ==
  ASSUME DInv, NEW r \in Replicas, NEW e, CutEffect(r, signed, ctx[r], e),
         NEW msgs, CrashAfter(r, e, msgs)
  PROVE  LET d == Write(disk[r], ctx[r], e.ctx)
         IN  /\ IInv'
             /\ GoodDisk(signed', d)
             /\ \A q \in Replicas : ctx'[q] = IF q = r THEN Boot(d) ELSE ctx[q]
             /\ \A q \in Replicas : disk'[q] = IF q = r THEN d ELSE disk[q]
             /\ \A q \in Replicas : \A t \in tasks'[q] : t.kind = "propose" \/ t \in tasks[q]
<1> DEFINE d == Write(disk[r], ctx[r], e.ctx)
           c == Boot(d)
           box == [inbox EXCEPT ![r] = @ \ msgs]
           goroutines == IF Leader(c.view) = r THEN {[kind |-> "propose", view |-> 0]} ELSE {}
<1>1. /\ ctx' = [ctx EXCEPT ![r] = c]
      /\ disk' = [disk EXCEPT ![r] = d]
      /\ inbox' = Broadcast(box, r, e.sent)
      /\ tasks' = [tasks EXCEPT ![r] = goroutines]
      /\ signed' = signed \cup e.cast
  BY DEF CrashAfter
<1>2. GoodEffect(signed, ctx[r], e) /\ Good(signed', e.ctx)
  BY <1>1 DEF CutEffect, GoodEffect
<1>3. GoodDisk(signed', d)
  <2>1. GoodDisk(signed', disk[r])
    BY <1>1, GoodDiskMonotone DEF DInv
  <2> QED
    BY <1>2, <2>1, WriteGood
<1> HIDE DEF d
<1>4. Good(signed \cup e.cast, c)
  BY <1>1, <1>3, BootGood
<1> HIDE DEF c
<1>5. box \in [Replicas -> SUBSET Messages] /\ \A q \in Replicas : box[q] \subseteq inbox[q]
  BY DEF DInv, IInv, TypeOK
<1>6. goroutines \in SUBSET Tasks /\ \A t \in goroutines : t.kind = "propose"
  BY BoundsAssumption DEF Tasks, Views
<1> HIDE DEF box, goroutines
<1>7. IInv
  BY DEF DInv
<1>8. IInv'
  BY <1>1, <1>2, <1>4, <1>5, <1>6, <1>7, EffectKeeps
<1>9. /\ \A q \in Replicas : ctx'[q] = IF q = r THEN c ELSE ctx[q]
      /\ \A q \in Replicas : disk'[q] = IF q = r THEN d ELSE disk[q]
      /\ \A q \in Replicas : tasks'[q] = IF q = r THEN goroutines ELSE tasks[q]
  BY <1>1 DEF DInv, IInv, TypeOK
<1> QED
  BY <1>3, <1>6, <1>8, <1>9 DEF c, d

LEMMA CrashKeeps ==
  ASSUME DInv, NEW r \in Replicas, NEW e, CutEffect(r, signed, ctx[r], e),
         NEW msgs, CrashAfter(r, e, msgs)
  PROVE  DInv'
<1> DEFINE d == Write(disk[r], ctx[r], e.ctx)
           c == Boot(d)
           lock == IF Supersedes(c.lockedQC, booted[r]) THEN c.lockedQC ELSE booted[r]
<1>1. /\ IInv'
      /\ GoodDisk(signed', d)
      /\ \A q \in Replicas : disk'[q] = IF q = r THEN d ELSE disk[q]
      /\ \A q \in Replicas : \A t \in tasks'[q] : t.kind = "propose" \/ t \in tasks[q]
  BY CrashLeaves
<1>2. /\ disk' = [disk EXCEPT ![r] = d]
      /\ signed' = signed \cup e.cast
      /\ crashes' = crashes + 1
      /\ booted' = [booted EXCEPT ![r] = lock]
  BY DEF CrashAfter
<1> HIDE DEF d
<1>3. c.lockedQC \in QCs \cup {NoQC}
  BY <1>1, BootGood DEF Good, Contexts
<1>4. CreatesLead'
  BY <1>1 DEF DInv, CreatesLead
<1>5. FollowersVerify'
  BY <1>2 DEF DInv, FollowersVerify, CutEffect, Follower
<1>6. disk' \in [Replicas -> Disks]
  BY <1>1, <1>2 DEF DInv, GoodDisk
<1>7. \A q \in Replicas : GoodDisk(signed', disk'[q])
  <2>1. \A q \in Replicas : GoodDisk(signed', disk[q])
    BY <1>2, GoodDiskMonotone DEF DInv
  <2> QED
    BY <1>1, <2>1
<1>8. booted' \in [Replicas -> QCs \cup {NoQC}]
  BY <1>2, <1>3 DEF DInv
<1>9. crashes' \in Nat
  BY <1>2 DEF DInv
<1> QED
  BY <1>1, <1>4, <1>5, <1>6, <1>7, <1>8, <1>9 DEF DInv

\* The steps between crashes.
LEMMA WrittenKeeps ==
  ASSUME DInv, [Next]_vars, Written
  PROVE  DInv' /\ VotingStep
<1>1. IInv /\ IInv' /\ VotingStep
  BY NextGood, StepVotes DEF DInv, GoodStep
<1>2. CreatesLead'
  BY <1>1 DEF DInv, CreatesLead, VotingStep
<1>3. FollowersVerify'
  BY <1>1 DEF DInv, FollowersVerify, VotingStep, NewVote, LeaderVote, Follower, FollowerVote
<1>4. \A q \in Replicas : GoodDisk(signed', disk'[q])
  <2> SUFFICES ASSUME NEW q \in Replicas PROVE GoodDisk(signed', disk'[q])
    OBVIOUS
  <2>1. GoodDisk(signed', disk[q])
    BY <1>1, GoodDiskMonotone DEF DInv, VotingStep
  <2>2. Good(signed', ctx'[q])
    BY <1>1 DEF IInv
  <2>3. disk'[q] = Write(disk[q], ctx[q], ctx'[q])
    BY DEF Written
  <2> QED
    BY <2>1, <2>2, <2>3, WriteGood
<1>5. disk' \in [Replicas -> Disks]
  BY <1>4 DEF Written, GoodDisk
<1>6. booted' \in [Replicas -> QCs \cup {NoQC}] /\ crashes' \in Nat
  BY DEF DInv, Written
<1> QED
  BY <1>1, <1>2, <1>3, <1>4, <1>5, <1>6 DEF DInv

\* Every step is one between crashes, or a crash.
LEMMA DurableCases ==
  ASSUME DInv, [DurableNext]_durableVars
  PROVE  \/ Next /\ Written
         \/ \E r \in Replicas : CrashesIn(r)
         \/ UNCHANGED durableVars
<1>1. CASE DurableNext
  BY <1>1, CrashesCut DEF DurableNext, DInv
<1> QED
  BY <1>1

LEMMA DInvStutter ==
  ASSUME DInv, UNCHANGED durableVars
  PROVE  DInv'
<1>1. IInv'
  BY DEF DInv, IInv, TypeOK, durableVars, vars
<1> QED
  BY <1>1 DEF DInv, CreatesLead, FollowersVerify, Follower, durableVars, vars

LEMMA DInvStep ==
  ASSUME DInv, [DurableNext]_durableVars
  PROVE  DInv'
  BY DurableCases, WrittenKeeps, CrashKeeps, DInvStutter DEF CrashesIn

LEMMA DInvInit == DurableInit => DInv
<1> SUFFICES ASSUME DurableInit PROVE DInv
  OBVIOUS
<1>1. IInv /\ CreatesLead /\ FollowersVerify
  BY VInvInit DEF DurableInit, VInv
<1>2. GoodDisk(signed, NewDisk)
  BY BlocksAssumption, BoundsAssumption DEF GoodDisk, NewDisk, Disks, Views
<1>3. NewDisk \in Disks
  BY <1>2 DEF GoodDisk
<1> QED
  BY <1>1, <1>2, <1>3 DEF DurableInit, DInv

\* However replicas crash, between two steps or two writes, what they hold,
\* send and store rests on votes that were signed; so does the context that
\* New rebuilds from storage (hotstuff2.go:52-80).
THEOREM DurableInvariant == DurableSpec => []DInv
<1>1. DInv /\ [DurableNext]_durableVars => DInv'
  BY DInvStep
<1> QED
  BY <1>1, DInvInit, PTL DEF DurableSpec

\* A QC rests on votes a quorum signed also when it comes from a replica's
\* storage, or from votes signed before and after a crash of their voter.
THEOREM DurableQCsAreCertified == DurableSpec => []QCIntegrity
<1>1. DInv => QCIntegrity
  BY IInvCertified DEF DInv
<1> QED
  BY <1>1, DurableInvariant, PTL

-----------------------------------------------------------------------------
(* Locks on disks *)

\* A lock of view v or later is on a disk, as lock, or was booted with, as old.
SavedAs(v, lock, old) == LocksOn(v, lock) \/ LocksOn(v, old)

Saved(v, r) == SavedAs(v, disk[r].lock, booted[r])

\* A lock as high as a certificate of what b is on is saved.
ParentSaved(S, b, lock, old) ==
  Parent(b) # NoBlock =>
    \E q \in QCs : CertifiedBy(S, q) /\ q.block = Parent(b) /\ SavedAs(q.view, lock, old)

\* A lock is saved, and the stored one is not ahead of it.
LocksSaved ==
  \A r \in Replicas :
    /\ ctx[r].lockedQC # NoQC => Saved(ctx[r].lockedQC.view, r)
    /\ disk[r].lock # NoQC => LocksOn(disk[r].lock.view, ctx[r].lockedQC)

\* A follower has saved a lock as high as a certificate of what its block is on.
SavedOnParent(x) == ParentSaved(signed, x.block, disk[x.voter].lock, booted[x.voter])

FollowersSave == \A x \in signed : Follower(x) => SavedOnParent(x)

LInv == DInv /\ LocksSaved /\ FollowersSave

LEMMA LocksOnLower ==
  ASSUME NEW v \in Int, NEW w \in Int, v <= w, NEW q \in QCs \cup {NoQC}, LocksOn(w, q)
  PROVE  LocksOn(v, q)
  BY BoundsAssumption DEF LocksOn, QCs, Views

\* What a write does to the stored lock.
LEMMA WriteSaves ==
  ASSUME NEW d \in Disks, NEW c \in Contexts, NEW c2 \in Contexts, LockRises(c, c2),
         NEW old,
         d.lock # NoQC => LocksOn(d.lock.view, c.lockedQC),
         c.lockedQC # NoQC => SavedAs(c.lockedQC.view, d.lock, old)
  PROVE  LET w == Write(d, c, c2)
         IN  /\ w.lock \in QCs \cup {NoQC}
             /\ \A v \in Int : LocksOn(v, d.lock) => LocksOn(v, w.lock)
             /\ w.lock # NoQC => LocksOn(w.lock.view, c2.lockedQC)
             /\ c2.lockedQC # NoQC => SavedAs(c2.lockedQC.view, w.lock, old)
<1> DEFINE w == Write(d, c, c2)
<1>1. w.lock = IF c2.lockedQC # c.lockedQC THEN c2.lockedQC ELSE d.lock
  BY DEF Write
<1>2. d.lock \in QCs \cup {NoQC} /\ c.lockedQC \in QCs \cup {NoQC} /\ c2.lockedQC \in QCs \cup {NoQC}
  BY DEF Disks, Contexts
<1>3. \A q \in QCs : q.view \in Nat /\ q # NoQC
  BY BoundsAssumption, NoQCAssumption DEF QCs, Views
<1>4. d.lock # NoQC => c.lockedQC # NoQC /\ d.lock.view <= c.lockedQC.view
  BY <1>2, <1>3 DEF LocksOn
<1>5. c.lockedQC # NoQC => c2.lockedQC # NoQC /\ c.lockedQC.view <= c2.lockedQC.view
  BY DEF LockRises
<1> HIDE DEF w
<1>6. CASE c2.lockedQC # c.lockedQC
  <2>1. w.lock = c2.lockedQC
    BY <1>1, <1>6
  <2>2. \A v \in Int : LocksOn(v, d.lock) => LocksOn(v, w.lock)
    BY <1>2, <1>3, <1>4, <1>5, <2>1 DEF LocksOn
  <2>3. w.lock # NoQC => LocksOn(w.lock.view, w.lock)
    BY <1>2, <1>3, <2>1 DEF LocksOn
  <2> QED
    BY <1>2, <2>1, <2>2, <2>3 DEF w, SavedAs
<1>7. CASE c2.lockedQC = c.lockedQC
  BY <1>1, <1>2, <1>7 DEF w
<1> QED
  BY <1>6, <1>7

LEMMA ParentSavedMonotone ==
  ASSUME NEW S, NEW T, S \subseteq T, NEW b, NEW lock, NEW old, NEW lock2, NEW old2,
         ParentSaved(S, b, lock, old),
         \A v \in Int : SavedAs(v, lock, old) => SavedAs(v, lock2, old2)
  PROVE  ParentSaved(T, b, lock2, old2)
<1>1. \A q \in QCs : q.view \in Int
  BY BoundsAssumption DEF QCs, Views
<1> QED
  BY <1>1, CertifiedMonotone DEF ParentSaved

\* A vote is saved when the lock it left is.
LEMMA LockedIsSaved ==
  ASSUME NEW S, NEW d \in Contexts, NEW b, LockedOnParent(S, d, b),
         NEW lock \in QCs \cup {NoQC}, NEW old \in QCs \cup {NoQC},
         d.lockedQC # NoQC => SavedAs(d.lockedQC.view, lock, old)
  PROVE  ParentSaved(S, b, lock, old)
<1> SUFFICES ASSUME Parent(b) # NoBlock
             PROVE  \E q \in QCs : /\ CertifiedBy(S, q)
                                   /\ q.block = Parent(b)
                                   /\ SavedAs(q.view, lock, old)
  BY DEF ParentSaved
<1>1. PICK q \in QCs : /\ CertifiedBy(S, q)
                       /\ q.block = Parent(b)
                       /\ d.lockedQC # NoQC
                       /\ d.lockedQC.view >= q.view
  BY DEF LockedOnParent
<1>2. q.view \in Int /\ d.lockedQC.view \in Int /\ q.view <= d.lockedQC.view
  BY <1>1, LockType, BoundsAssumption DEF QCs, Views
<1>3. SavedAs(q.view, lock, old)
  BY <1>1, <1>2, LocksOnLower DEF SavedAs
<1> QED
  BY <1>1, <1>3

\* What a step keeps of the followers' votes that are saved.
LEMMA FollowersSaveStep ==
  ASSUME LInv, signed \subseteq signed',
         \A r \in Replicas : \A v \in Int : Saved(v, r) => Saved(v, r)',
         \A x \in signed' \ signed : Follower(x) => SavedOnParent(x)'
  PROVE  FollowersSave'
<1> SUFFICES ASSUME NEW x \in signed, Follower(x)
             PROVE  SavedOnParent(x)'
  BY DEF FollowersSave, Follower
<1>1. SavedOnParent(x) /\ x.voter \in Replicas
  BY DEF LInv, FollowersSave, DInv, IInv, TypeOK, Votes
<1> QED
  BY <1>1, ParentSavedMonotone DEF SavedOnParent, Saved

LEMMA WrittenSaves ==
  ASSUME LInv, Next, Written
  PROVE  LInv'
<1>1. DInv /\ DInv' /\ VotingStep
  BY WrittenKeeps DEF LInv
<1>2. booted' = booted /\ booted \in [Replicas -> QCs \cup {NoQC}]
  BY <1>1 DEF Written, DInv
<1>3. ASSUME NEW r \in Replicas
      PROVE  /\ disk'[r].lock \in QCs \cup {NoQC}
             /\ \A v \in Int : LocksOn(v, disk[r].lock) => LocksOn(v, disk'[r].lock)
             /\ disk'[r].lock # NoQC => LocksOn(disk'[r].lock.view, ctx'[r].lockedQC)
             /\ ctx'[r].lockedQC # NoQC =>
                  SavedAs(ctx'[r].lockedQC.view, disk'[r].lock, booted[r])
  <2>1. disk[r] \in Disks /\ ctx[r] \in Contexts /\ ctx'[r] \in Contexts
    BY <1>1 DEF DInv, IInv, TypeOK
  <2>2. LockRises(ctx[r], ctx'[r])
    BY <1>1 DEF VotingStep
  <2>3. /\ disk[r].lock # NoQC => LocksOn(disk[r].lock.view, ctx[r].lockedQC)
        /\ ctx[r].lockedQC # NoQC =>
             SavedAs(ctx[r].lockedQC.view, disk[r].lock, booted[r])
    BY DEF LInv, LocksSaved, Saved
  <2>4. disk'[r] = Write(disk[r], ctx[r], ctx'[r])
    BY DEF Written
  <2> QED
    BY <2>1, <2>2, <2>3, <2>4, WriteSaves
<1>4. LocksSaved'
  BY <1>2, <1>3 DEF LocksSaved, Saved
<1>5. \A r \in Replicas : \A v \in Int : Saved(v, r) => Saved(v, r)'
  BY <1>2, <1>3 DEF Saved, SavedAs
<1>6. ASSUME NEW x \in signed' \ signed, Follower(x)
      PROVE  SavedOnParent(x)'
  <2>1. x.voter \in Replicas
    BY <1>1 DEF DInv, IInv, TypeOK, Votes
  <2>2. LockedOnParent(signed, ctx'[x.voter], x.block)
    BY <1>1, <1>6 DEF VotingStep, NewVote, LeaderVote, FollowerVote, Follower
  <2>3. ctx'[x.voter] \in Contexts /\ signed \subseteq signed' /\ booted[x.voter] \in QCs \cup {NoQC}
    BY <1>1, <1>2, <2>1 DEF DInv, IInv, TypeOK, VotingStep
  <2>4. ParentSaved(signed, x.block, disk'[x.voter].lock, booted[x.voter])
    BY <1>3, <2>1, <2>2, <2>3, LockedIsSaved
  <2> QED
    BY <1>2, <2>3, <2>4, ParentSavedMonotone DEF SavedOnParent
<1>7. FollowersSave'
  BY <1>1, <1>5, <1>6, FollowersSaveStep DEF VotingStep
<1> QED
  BY <1>1, <1>4, <1>7 DEF LInv

LEMMA CrashSaves ==
  ASSUME LInv, NEW r \in Replicas, CrashesIn(r)
  PROVE  LInv'
<1>1. PICK e, msgs : CutEffect(r, signed, ctx[r], e) /\ CrashAfter(r, e, msgs)
  BY DEF CrashesIn
<1>2. DInv
  BY DEF LInv
<1>3. DInv'
  BY <1>1, <1>2, CrashKeeps
<1> DEFINE d == Write(disk[r], ctx[r], e.ctx)
           lock == Boot(d).lockedQC
           old == booted[r]
           new == IF Supersedes(lock, old) THEN lock ELSE old
<1>4. /\ GoodDisk(signed', d)
      /\ \A q \in Replicas : ctx'[q] = IF q = r THEN Boot(d) ELSE ctx[q]
      /\ \A q \in Replicas : disk'[q] = IF q = r THEN d ELSE disk[q]
  BY <1>1, <1>2, CrashLeaves
<1>5. \A q \in Replicas : booted'[q] = IF q = r THEN new ELSE booted[q]
  BY <1>1, <1>2 DEF CrashAfter, DInv
<1>6. signed' = signed \cup e.cast
  BY <1>1 DEF CrashAfter
<1>7. /\ lock \in QCs \cup {NoQC}
      /\ d.lock # NoQC => LocksOn(d.lock.view, lock)
  BY <1>4, BootGood DEF Good, Contexts
<1>8. old \in QCs \cup {NoQC}
  BY <1>2 DEF DInv
<1>9. e.ctx \in Contexts /\ ctx[r] \in Contexts /\ disk[r] \in Disks
  BY <1>1, <1>2 DEF CutEffect, GoodEffect, Good, DInv, IInv, TypeOK
<1>10. /\ d.lock \in QCs \cup {NoQC}
       /\ \A v \in Int : LocksOn(v, disk[r].lock) => LocksOn(v, d.lock)
       /\ e.ctx.lockedQC # NoQC => SavedAs(e.ctx.lockedQC.view, d.lock, old)
  <2>1. LockRises(ctx[r], e.ctx)
    BY <1>1 DEF CutEffect
  <2>2. /\ disk[r].lock # NoQC => LocksOn(disk[r].lock.view, ctx[r].lockedQC)
        /\ ctx[r].lockedQC # NoQC => SavedAs(ctx[r].lockedQC.view, disk[r].lock, old)
    BY DEF LInv, LocksSaved, Saved
  <2> HIDE DEF old
  <2> QED
    BY <1>9, <2>1, <2>2, WriteSaves
<1>11. ctx'[r].lockedQC = lock
  BY <1>4
<1> HIDE DEF d, lock
<1>12. /\ new \in QCs \cup {NoQC}
       /\ lock # NoQC => LocksOn(lock.view, new)
       /\ \A v \in Int : LocksOn(v, old) => LocksOn(v, new)
  <2>1. \A q \in QCs : q.view \in Int /\ q # NoQC
    BY BoundsAssumption, NoQCAssumption DEF QCs, Views
  <2> QED
    BY <1>7, <1>8, <2>1 DEF Supersedes, LocksOn
<1> HIDE DEF new
<1>13. LocksSaved'
  BY <1>4, <1>5, <1>7, <1>11, <1>12 DEF LInv, LocksSaved, Saved, SavedAs
<1>14. \A q \in Replicas : \A v \in Int : Saved(v, q) => Saved(v, q)'
  BY <1>4, <1>5, <1>10, <1>12 DEF Saved, SavedAs
<1>15. ASSUME NEW x \in signed' \ signed, Follower(x)
       PROVE  SavedOnParent(x)'
  <2>1. LockedOnParent(signed, e.ctx, x.block) /\ x.voter = r
    BY <1>1, <1>6, <1>15 DEF CutEffect
  <2>2. ParentSaved(signed, x.block, d.lock, old)
    <3> HIDE DEF old
    <3> QED
      BY <1>8, <1>9, <1>10, <2>1, LockedIsSaved
  <2>3. \A v \in Int : SavedAs(v, d.lock, old) => SavedAs(v, d.lock, new)
    BY <1>12 DEF SavedAs
  <2>4. ParentSaved(signed', x.block, d.lock, new)
    <3> HIDE DEF old
    <3> QED
      BY <1>6, <2>2, <2>3, ParentSavedMonotone
  <2> QED
    BY <1>4, <1>5, <2>1, <2>4 DEF SavedOnParent
<1>16. FollowersSave'
  BY <1>6, <1>14, <1>15, FollowersSaveStep
<1> QED
  BY <1>3, <1>13, <1>16 DEF LInv

LEMMA LInvStep ==
  ASSUME LInv, [DurableNext]_durableVars
  PROVE  LInv'
<1>1. CASE UNCHANGED durableVars
  <2>1. DInv'
    BY <1>1, DInvStutter DEF LInv
  <2> QED
    BY <1>1, <2>1 DEF LInv, LocksSaved, FollowersSave, SavedOnParent, Saved, Follower,
                      durableVars, vars
<1>2. CASE Next /\ Written
  BY <1>2, WrittenSaves
<1>3. CASE \E r \in Replicas : CrashesIn(r)
  BY <1>3, CrashSaves
<1> QED
  BY <1>1, <1>2, <1>3, DurableCases DEF LInv

LEMMA LInvInit == DurableInit => LInv
<1> SUFFICES ASSUME DurableInit PROVE LInv
  OBVIOUS
<1>1. DInv
  BY DInvInit
<1>2. LocksSaved /\ FollowersSave
  BY DEF DurableInit, Init, NewContext, NewDisk, LocksSaved, FollowersSave
<1> QED
  BY <1>1, <1>2 DEF LInv

LEMMA TwoChainSurvives ==
  ASSUME LInv, BlocksOfOneView
  PROVE  TwoChainsSurvive
<1> SUFFICES ASSUME NEW x \in TwoChains,
                    NEW r \in Signers(x.view, x.block) \ {Leader(x.view)}
             PROVE  \/ LocksOn(x.view - 1, DurableLock(r))
                    \/ LocksOn(x.view - 1, booted[r])
  BY DEF TwoChainsSurvive
<1> DEFINE p == [view |-> x.view - 1, block |-> Parent(x.block)]
<1>1. CertifiedBy(signed, p) /\ Parent(x.block) # NoBlock
  BY CertifiedIsBy DEF TwoChains, Certified
<1>2. [view |-> x.view, block |-> x.block, voter |-> r] \in signed /\ r \in Replicas
  BY DEF Signers
<1>3. PICK q \in QCs : /\ CertifiedBy(signed, q)
                       /\ q.block = Parent(x.block)
                       /\ Saved(q.view, r)
  BY <1>1, <1>2 DEF LInv, FollowersSave, SavedOnParent, ParentSaved, Saved, Follower
<1>4. q.view = x.view - 1
  BY <1>1, <1>3, SignedAgain
<1>5. LocksOn(x.view - 1, disk[r].lock) => LocksOn(x.view - 1, DurableLock(r))
  <2>1. GoodDisk(signed, disk[r])
    BY <1>2 DEF LInv, DInv
  <2>2. /\ disk[r].lock # NoQC => LocksOn(disk[r].lock.view, DurableLock(r))
        /\ DurableLock(r) \in QCs \cup {NoQC}
        /\ disk[r].lock \in QCs \cup {NoQC}
    BY <2>1, BootGood DEF DurableLock, Good, Contexts, GoodDisk, Disks
  <2>3. x.view - 1 \in Int
    BY <1>3, <1>4, BoundsAssumption DEF QCs, Views
  <2>4. disk[r].lock # NoQC => disk[r].lock.view \in Int
    BY <2>2, BoundsAssumption DEF QCs, Views
  <2> QED
    BY <2>2, <2>3, <2>4, LocksOnLower DEF LocksOn
<1> QED
  BY <1>3, <1>4, <1>5 DEF Saved, SavedAs

\* However often replicas crash between their writes and sends, and whatever
\* they forget by it, every follower that voted for the second block of a
\* two-chain would boot with a lock on the first, or has booted with one
\* (hotstuff2.go:343-366, 58-80), as long as no block is proposed in two views.
THEOREM LocksSurviveCrashes == DurableOneViewSpec => []TwoChainsSurvive
<1>1. [DurableNext /\ BlocksOfOneView']_durableVars => [DurableNext]_durableVars
  OBVIOUS
<1>2. LInv /\ [DurableNext]_durableVars => LInv'
  BY LInvStep
<1>3. DurableInit => BlocksOfOneView
  BY DEF DurableInit, Init, BlocksOfOneView
<1>4. BlocksOfOneView /\ [DurableNext /\ BlocksOfOneView']_durableVars => BlocksOfOneView'
  BY DEF BlocksOfOneView, durableVars, vars
<1>5. LInv /\ BlocksOfOneView => TwoChainsSurvive
  BY TwoChainSurvives
<1> QED
  BY <1>1, <1>2, <1>3, <1>4, <1>5, LInvInit, PTL DEF DurableOneViewSpec

-----------------------------------------------------------------------------
(* Votes forgotten *)

\* A replica that crashes forgets its votes, and nothing that others need.
OneForgets == \E w \in Replicas : \A r \in Replicas \ {w} : Remembers(r)

MInv ==
  /\ DInv
  /\ crashes = 0 => AllRemember
  /\ crashes = 1 => OneForgets

LEMMA OthersRemember ==
  ASSUME DInv, NEW r \in Replicas, CrashesIn(r),
         NEW q \in Replicas, q # r, Remembers(q)
  PROVE  Remembers(q)'
<1>1. PICK e, msgs : CutEffect(r, signed, ctx[r], e) /\ CrashAfter(r, e, msgs)
  BY DEF CrashesIn
<1>2. ctx'[q] = ctx[q]
  BY <1>1, CrashLeaves
<1>3. \A x \in signed' : x.voter = q => x \in signed
  BY <1>1 DEF CrashAfter, CutEffect
<1> QED
  BY <1>2, <1>3 DEF Remembers, Follower

LEMMA CrashForgets ==
  ASSUME MInv, NEW r \in Replicas, CrashesIn(r)
  PROVE  MInv'
<1>1. DInv /\ DInv'
  BY CrashKeeps DEF MInv, CrashesIn
<1>2. crashes \in Nat /\ crashes' = crashes + 1
  BY <1>1 DEF DInv, CrashesIn, CrashAfter
<1>3. CASE crashes = 0
  <2>1. \A q \in Replicas \ {r} : Remembers(q)'
    BY <1>1, <1>3, OthersRemember DEF MInv, AllRemember
  <2>2. OneForgets'
    BY <2>1 DEF OneForgets
  <2> QED
    BY <1>1, <1>2, <2>2 DEF MInv
<1>4. CASE crashes # 0
  BY <1>1, <1>2, <1>4 DEF MInv
<1> QED
  BY <1>3, <1>4

LEMMA WrittenRemembers ==
  ASSUME MInv, [Next]_vars, Written, \A r \in Replicas : NoReturn(r)
  PROVE  MInv'
<1>1. DInv' /\ VotingStep
  BY WrittenKeeps DEF MInv
<1>2. \A r \in Replicas : Remembers(r) => Remembers(r)'
  BY <1>1, OneVoteStep DEF MInv, DInv
<1>3. crashes' = crashes
  BY DEF Written
<1> QED
  BY <1>1, <1>2, <1>3 DEF MInv, AllRemember, OneForgets

LEMMA MInvStep ==
  ASSUME MInv, [DurableNext]_durableVars,
         Next /\ Written => \A r \in Replicas : NoReturn(r)
  PROVE  MInv'
<1>1. CASE UNCHANGED durableVars
  <2>1. DInv'
    BY <1>1, DInvStutter DEF MInv
  <2> QED
    BY <1>1, <2>1 DEF MInv, AllRemember, OneForgets, Remembers, Follower, durableVars, vars
<1>2. CASE Next /\ Written
  BY <1>2, WrittenRemembers
<1>3. CASE \E r \in Replicas : CrashesIn(r)
  BY <1>3, CrashForgets
<1> QED
  BY <1>1, <1>2, <1>3, DurableCases DEF MInv

LEMMA MInvInit == DurableInit => MInv
  BY DInvInit, AllRememberInit DEF DurableInit, MInv

\* Two quorums share two validators; if one does not lead the view, has not
\* crashed and signed both blocks, they are one.
LEMMA OneCrash ==
  ASSUME N <= 4 * F, MInv
  PROVE  OneCrashIsSafe
<1> SUFFICES ASSUME crashes <= 1, NEW p \in HeldQCs, NEW q \in HeldQCs,
                    p.view = q.view, p # q
             PROVE  Leader(p.view) \in Signers(p.view, p.block) \cap Signers(q.view, q.block)
  BY DEF OneCrashIsSafe
<1> DEFINE A == Signers(p.view, p.block)
           B == Signers(q.view, q.block)
<1>1. IInv /\ QCIntegrity /\ crashes \in Nat
  BY IInvCertified DEF MInv, DInv
<1>2. p \in QCs /\ q \in QCs
  BY <1>1, HeldQCsType
<1>3. IsQuorum(A) /\ IsQuorum(B) /\ A \in SUBSET Replicas /\ B \in SUBSET Replicas
  BY <1>1 DEF QCIntegrity, Certified, Signers
<1>4. /\ \A r \in A : [view |-> p.view, block |-> p.block, voter |-> r] \in signed
      /\ \A r \in B : [view |-> q.view, block |-> q.block, voter |-> r] \in signed
  BY DEF Signers
<1>5. p.block # q.block
  BY <1>2 DEF QCs
<1> HIDE DEF A, B
<1>6. IsFiniteSet(A \cap B) /\ Cardinality(A \cap B) >= 2 * Quorum - N
  BY <1>3, Overlap
<1>7. Cardinality(A \cap B) \in Nat
  BY <1>6, FS_CardinalityType
<1>8. Cardinality(A \cap B) >= 2
  BY <1>6, <1>7, FType, NAssumption DEF Quorum
<1>9. AllRemember \/ OneForgets
  BY <1>1 DEF MInv
<1>10. PICK w : \A r \in Replicas \ {w} : Remembers(r)
  BY <1>9 DEF AllRemember, OneForgets
<1>11. PICK r \in A \cap B : r # w
  BY <1>6, <1>8, AnotherOne
<1>12. Remembers(r)
  BY <1>3, <1>10, <1>11
<1> DEFINE x == [view |-> p.view, block |-> p.block, voter |-> r]
           y == [view |-> q.view, block |-> q.block, voter |-> r]
<1>13. x \in signed /\ y \in signed
  BY <1>4, <1>11
<1>14. /\ x.view = p.view /\ x.block = p.block /\ x.voter = r
       /\ y.view = p.view /\ y.block = q.block /\ y.voter = r
  OBVIOUS
<1> HIDE DEF x, y
<1>15. x # y
  BY <1>5, <1>14
<1>16. ~Follower(x)
  BY <1>12, <1>13, <1>14, <1>15 DEF Remembers
<1>17. Leader(p.view) = r
  BY <1>14, <1>16 DEF Follower
<1> QED
  BY <1>11, <1>17 DEF A, B

\* A view with two QCs has a leader that signed both blocks, whatever one
\* replica forgot by a crash between its writes and sends (hotstuff2.go:76,
\* 306-309), for as long as no vote has been pruned.
THEOREM OneCrashAtHand ==
  N <= 4 * F /\ KeepViews >= MaxView /\ DurableSpec => []OneCrashIsSafe
<1> SUFFICES ASSUME N <= 4 * F, KeepViews >= MaxView
             PROVE  DurableSpec => []OneCrashIsSafe
  OBVIOUS
<1>1. MInv /\ [DurableNext]_durableVars => MInv'
  BY MInvStep DEF NoReturn
<1>2. MInv => OneCrashIsSafe
  BY OneCrash
<1> QED
  BY <1>1, <1>2, MInvInit, PTL DEF DurableSpec

\* The same of replicas that have pruned votes, while none goes back to a view
\* it has left: the view a replica boots with is one it has not left either.
THEOREM OneCrashForward == N <= 4 * F /\ DurableForwardSpec => []OneCrashIsSafe
<1> SUFFICES ASSUME N <= 4 * F
             PROVE  DurableForwardSpec => []OneCrashIsSafe
  OBVIOUS
<1>1. MInv /\ [DurableNext /\ ViewsForward]_durableVars => MInv'
  <2> SUFFICES ASSUME MInv, [DurableNext /\ ViewsForward]_durableVars PROVE MInv'
    OBVIOUS
  <2>1. CASE DurableNext /\ ViewsForward
    <3>1. \A r \in Replicas : NoReturn(r)
      BY <2>1 DEF NoReturn, ViewsForward
    <3> QED
      BY <2>1, <3>1, MInvStep
  <2>2. CASE UNCHANGED durableVars
    <3>1. \A r \in Replicas : ctx[r].view \in Int
      BY BoundsAssumption DEF MInv, DInv, IInv, TypeOK, Contexts, Views
    <3>2. \A r \in Replicas : NoReturn(r)
      BY <2>2, <3>1 DEF NoReturn, durableVars, vars
    <3> QED
      BY <2>2, <3>2, MInvStep
  <2> QED
    BY <2>1, <2>2
<1>2. MInv => OneCrashIsSafe
  BY OneCrash
<1> QED
  BY <1>1, <1>2, MInvInit, PTL DEF DurableForwardSpec
==============================================================================
