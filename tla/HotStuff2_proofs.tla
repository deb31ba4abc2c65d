-------------------------- MODULE HotStuff2_proofs --------------------------
(***************************************************************************)
(* Safety of HotStuff2 for every number of validators, every bound, every  *)
(* choice of lost and repeated messages and of timers.  The argument is by *)
(* one inductive invariant: whatever a replica holds or a message carries  *)
(* is Good for the set of votes really signed.                             *)
(*                                                                         *)
(* The first parts are about the operations of Context.  A context is Good *)
(* for a set S of signed votes when it is well typed and everything it     *)
(* holds rests on votes in S.  Each lemma says that an operation keeps a   *)
(* context Good and that its locks, highest QC and committed blocks only   *)
(* Grow.  The ancestor walk is a recursive function of the number of links *)
(* followed: that it exists and what it can reach is proved by induction   *)
(* on that number, through least elements of sets of numbers.              *)
(*                                                                         *)
(* The last parts say what one step does to the votes and the ledgers:     *)
(* HotStuff2 implements Ledger.  Added to the invariant is how much one    *)
(* handler may do: sign one vote, on a parent certified before, and add one*)
(* block to the committed ones, in an empty place and on a two-chain.      *)
(***************************************************************************)
EXTENDS HotStuff2, FiniteSetTheorems, WellFoundedInduction, TLAPS

CertifiedBy(S, q) ==
  IsQuorum({r \in Replicas : [view |-> q.view, block |-> q.block, voter |-> r] \in S})

\* Of the blocks held, one of height 0 is genesis or what the replica booted
\* with, and is committed from the start.
Backed(S, c) ==
  /\ c.votes \subseteq S
  /\ \A q \in c.qcs : CertifiedBy(S, q)
  /\ c.lockedQC # NoQC => CertifiedBy(S, c.lockedQC)
  /\ c.highQC # NoQC => CertifiedBy(S, c.highQC)
  /\ \A n \in c.newviews : n.qc # NoQC => CertifiedBy(S, n.qc)
  /\ \A b \in c.blocks : Height(b) = 0 => b \in c.committed

Good(S, c) == c \in Contexts /\ Backed(S, c)

Grows(c, d) ==
  /\ QCView(c.lockedQC) <= QCView(d.lockedQC)
  /\ QCView(c.highQC) <= QCView(d.highQC)
  /\ c.committed \subseteq d.committed

-----------------------------------------------------------------------------
(* Quorums *)

LEMMA QuorumType == Quorum \in Nat /\ Quorum > 0
  BY NAssumption DEF Quorum, F

LEMMA ReplicasFinite == IsFiniteSet(Replicas) /\ Cardinality(Replicas) = N
  BY NAssumption, FS_Interval DEF Replicas

\* More voters are still a quorum.
LEMMA QuorumMonotone ==
  ASSUME NEW A, NEW B \in SUBSET Replicas, A \subseteq B, IsQuorum(A)
  PROVE  IsQuorum(B)
<1>1. IsFiniteSet(B)
  BY ReplicasFinite, FS_Subset
<1>2. IsFiniteSet(A) /\ Cardinality(A) <= Cardinality(B)
  BY <1>1, FS_Subset
<1>3. Cardinality(A) \in Nat /\ Cardinality(B) \in Nat
  BY <1>1, <1>2, FS_CardinalityType
<1> QED
  BY <1>2, <1>3, QuorumType DEF IsQuorum

\* A quorum has a member.
LEMMA QuorumNonEmpty ==
  ASSUME NEW A \in SUBSET Replicas, IsQuorum(A)
  PROVE  \E r \in A : TRUE
<1>1. A # {}
  BY QuorumType, FS_EmptySet DEF IsQuorum
<1> QED
  BY <1>1

LEMMA CertifiedMonotone ==
  ASSUME NEW S, NEW T, S \subseteq T, NEW q, CertifiedBy(S, q)
  PROVE  CertifiedBy(T, q)
  BY QuorumMonotone DEF CertifiedBy

\* A certified block has been voted for.
LEMMA CertifiedVoted ==
  ASSUME NEW S, NEW q, CertifiedBy(S, q)
  PROVE  \E r \in Replicas : [view |-> q.view, block |-> q.block, voter |-> r] \in S
<1> DEFINE A == {r \in Replicas : [view |-> q.view, block |-> q.block, voter |-> r] \in S}
<1>1. \E r \in A : TRUE
  <2>1. A \in SUBSET Replicas /\ IsQuorum(A)
    BY DEF CertifiedBy
  <2> QED
    BY <2>1, QuorumNonEmpty
<1> QED
  BY <1>1

LEMMA GoodMonotone ==
  ASSUME NEW S, NEW T, S \subseteq T, NEW c, Good(S, c)
  PROVE  Good(T, c)
  BY CertifiedMonotone DEF Good, Backed

-----------------------------------------------------------------------------
(* The operations *)

LEMMA GrowsTransitive ==
  ASSUME NEW c \in Contexts, NEW d \in Contexts, NEW e \in Contexts,
         Grows(c, d), Grows(d, e)
  PROVE  Grows(c, e)
<1>1. \A x \in Contexts : QCView(x.lockedQC) \in Int /\ QCView(x.highQC) \in Int
  BY BoundsAssumption DEF Contexts, QCs, Views, QCView
<1> QED
  BY <1>1 DEF Grows

LEMMA QCViewType ==
  ASSUME NEW q \in QCs \cup {NoQC}
  PROVE  QCView(q) \in Views
  BY BoundsAssumption DEF QCView, QCs, Views

LEMMA GrowsReflexive ==
  ASSUME NEW c \in Contexts, NEW d \in Contexts,
         d.lockedQC = c.lockedQC, d.highQC = c.highQC, c.committed \subseteq d.committed
  PROVE  Grows(c, d)
<1>1. c.lockedQC \in QCs \cup {NoQC} /\ c.highQC \in QCs \cup {NoQC}
  BY DEF Contexts
<1>2. QCView(c.lockedQC) \in Int /\ QCView(c.highQC) \in Int
  BY <1>1, QCViewType, BoundsAssumption DEF Views
<1> QED
  BY <1>2 DEF Grows

LEMMA SetViewGood ==
  ASSUME NEW S, NEW c, Good(S, c), NEW v \in Views
  PROVE  Good(S, SetView(c, v)) /\ Grows(c, SetView(c, v))
<1>1. SetView(c, v) \in Contexts
  BY DEF Good, Contexts, SetView
<1>2. Backed(S, SetView(c, v))
  BY DEF Good, Contexts, SetView, Backed
<1>3. Grows(c, SetView(c, v))
  BY <1>1, GrowsReflexive DEF Good, Contexts, SetView
<1> QED
  BY <1>1, <1>2, <1>3 DEF Good

LEMMA SupersedesRaises ==
  ASSUME NEW q \in QCs \cup {NoQC}, NEW old \in QCs \cup {NoQC}, Supersedes(q, old)
  PROVE  QCView(old) <= QCView(q)
  BY BoundsAssumption DEF Supersedes, QCView, QCs, Views

LEMMA UpdateLockedQCGood ==
  ASSUME NEW S, NEW c, Good(S, c), NEW q \in QCs, CertifiedBy(S, q)
  PROVE  Good(S, UpdateLockedQC(c, q)) /\ Grows(c, UpdateLockedQC(c, q))
<1>1. CASE ~Supersedes(q, c.lockedQC)
  BY <1>1, GrowsReflexive DEF UpdateLockedQC, Good
<1>2. CASE Supersedes(q, c.lockedQC)
  <2> DEFINE d == [c EXCEPT !.lockedQC = q]
  <2>1. UpdateLockedQC(c, q) = d
    BY <1>2 DEF UpdateLockedQC
  <2>2. d \in Contexts /\ d.lockedQC = q /\ d.highQC = c.highQC /\ d.committed = c.committed
    BY DEF Good, Contexts
  <2>3. Backed(S, d)
    BY DEF Good, Contexts, Backed
  <2>4. c.lockedQC \in QCs \cup {NoQC} /\ c.highQC \in QCs \cup {NoQC}
    BY DEF Good, Contexts
  <2>5. Grows(c, d)
    BY <1>2, <2>2, <2>4, SupersedesRaises, QCViewType, BoundsAssumption DEF Grows, Views
  <2> QED
    BY <2>1, <2>2, <2>3, <2>5 DEF Good
<1> QED
  BY <1>1, <1>2

LEMMA UpdateHighQCGood ==
  ASSUME NEW S, NEW c, Good(S, c), NEW q \in QCs, CertifiedBy(S, q)
  PROVE  Good(S, UpdateHighQC(c, q)) /\ Grows(c, UpdateHighQC(c, q))
<1>1. CASE ~Supersedes(q, c.highQC)
  BY <1>1, GrowsReflexive DEF UpdateHighQC, Good
<1>2. CASE Supersedes(q, c.highQC)
  <2> DEFINE d == [c EXCEPT !.highQC = q]
  <2>1. UpdateHighQC(c, q) = d
    BY <1>2 DEF UpdateHighQC
  <2>2. d \in Contexts /\ d.lockedQC = c.lockedQC /\ d.highQC = q /\ d.committed = c.committed
    BY DEF Good, Contexts
  <2>3. Backed(S, d)
    BY DEF Good, Contexts, Backed
  <2>4. c.lockedQC \in QCs \cup {NoQC} /\ c.highQC \in QCs \cup {NoQC}
    BY DEF Good, Contexts
  <2>5. Grows(c, d)
    BY <1>2, <2>2, <2>4, SupersedesRaises, QCViewType, BoundsAssumption DEF Grows, Views
  <2> QED
    BY <2>1, <2>2, <2>3, <2>5 DEF Good
<1> QED
  BY <1>1, <1>2

LEMMA AddVoteGood ==
  ASSUME NEW S, NEW c, Good(S, c), NEW x \in Votes, x \in S
  PROVE  Good(S, AddVote(c, x)) /\ Grows(c, AddVote(c, x))
<1>1. AddVote(c, x) \in Contexts
  BY DEF Good, Contexts, AddVote
<1>2. Backed(S, AddVote(c, x))
  BY DEF Good, Contexts, AddVote, Backed
<1>3. Grows(c, AddVote(c, x))
  BY <1>1, GrowsReflexive DEF Good, Contexts, AddVote
<1> QED
  BY <1>1, <1>2, <1>3 DEF Good

LEMMA AddBlockGood ==
  ASSUME NEW S, NEW c, Good(S, c), NEW b \in Blocks, Height(b) > 0
  PROVE  Good(S, AddBlock(c, b)) /\ Grows(c, AddBlock(c, b))
<1>1. AddBlock(c, b) \in Contexts
  BY DEF Good, Contexts, AddBlock
<1>2. Backed(S, AddBlock(c, b))
  BY DEF Good, Contexts, AddBlock, Backed
<1>3. Grows(c, AddBlock(c, b))
  BY <1>1, GrowsReflexive DEF Good, Contexts, AddBlock
<1> QED
  BY <1>1, <1>2, <1>3 DEF Good

LEMMA AddQCGood ==
  ASSUME NEW S, NEW c, Good(S, c), NEW q \in QCs, CertifiedBy(S, q)
  PROVE  Good(S, AddQC(c, q)) /\ Grows(c, AddQC(c, q))
<1>1. AddQC(c, q) \in Contexts
  BY DEF Good, Contexts, AddQC
<1>2. Backed(S, AddQC(c, q))
  BY DEF Good, Contexts, AddQC, Backed
<1>3. Grows(c, AddQC(c, q))
  BY <1>1, GrowsReflexive DEF Good, Contexts, AddQC
<1> QED
  BY <1>1, <1>2, <1>3 DEF Good

\* Committing at a free height removes nothing.
LEMMA CommitGood ==
  ASSUME NEW S, NEW c, Good(S, c), NEW b \in Blocks,
         ~IsCommitted(c, Height(b))
  PROVE  Good(S, Commit(c, b)) /\ Grows(c, Commit(c, b))
<1>1. Commit(c, b) \in Contexts
  BY DEF Good, Contexts, Commit
<1>2. Commit(c, b).committed = c.committed \cup {b}
  BY DEF Good, Contexts, Commit, IsCommitted
<1>3. Backed(S, Commit(c, b))
  <2>1. /\ Commit(c, b).votes = c.votes
        /\ Commit(c, b).qcs = c.qcs
        /\ Commit(c, b).lockedQC = c.lockedQC
        /\ Commit(c, b).highQC = c.highQC
        /\ Commit(c, b).newviews = c.newviews
        /\ Commit(c, b).blocks = c.blocks
    BY DEF Good, Contexts, Commit
  <2> QED
    BY <1>2, <2>1 DEF Good, Backed
<1>4. Grows(c, Commit(c, b))
  BY <1>1, <1>2, GrowsReflexive DEF Good, Contexts, Commit
<1> QED
  BY <1>1, <1>3, <1>4 DEF Good

LEMMA AddNewViewGood ==
  ASSUME NEW S, NEW c, Good(S, c), NEW v \in Views, NEW r \in Replicas,
         NEW q \in QCs \cup {NoQC}, q # NoQC => CertifiedBy(S, q)
  PROVE  Good(S, AddNewView(c, v, r, q)) /\ Grows(c, AddNewView(c, v, r, q))
<1>1. AddNewView(c, v, r, q) \in Contexts
  BY DEF Good, Contexts, AddNewView, NewViews
<1>2. Backed(S, AddNewView(c, v, r, q))
  BY DEF Good, Contexts, AddNewView, Backed
<1>3. Grows(c, AddNewView(c, v, r, q))
  BY <1>1, GrowsReflexive DEF Good, Contexts, AddNewView
<1> QED
  BY <1>1, <1>2, <1>3 DEF Good

LEMMA PruneVotesGood ==
  ASSUME NEW S, NEW c, Good(S, c), NEW v \in Views
  PROVE  Good(S, PruneVotes(c, v)) /\ Grows(c, PruneVotes(c, v))
<1>1. PruneVotes(c, v) \in Contexts
  BY DEF Good, Contexts, PruneVotes
<1>2. Backed(S, PruneVotes(c, v))
  BY DEF Good, Contexts, PruneVotes, Backed
<1>3. Grows(c, PruneVotes(c, v))
  BY <1>1, GrowsReflexive DEF Good, Contexts, PruneVotes
<1> QED
  BY <1>1, <1>2, <1>3 DEF Good

\* Every choice of a highest QC was sent in a NEWVIEW.
LEMMA HighestQCGood ==
  ASSUME NEW S, NEW c, Good(S, c), NEW v, NEW q \in HighestQCFromNewViews(c, v)
  PROVE  q \in QCs \cup {NoQC} /\ (q # NoQC => CertifiedBy(S, q))
<1>1. q = NoQC \/ \E n \in c.newviews : q = n.qc /\ q # NoQC
  BY DEF HighestQCFromNewViews
<1>2. \A n \in c.newviews : n.qc \in QCs \cup {NoQC}
  BY DEF Good, Contexts, NewViews
<1> QED
  BY <1>1, <1>2 DEF Good, Backed

-----------------------------------------------------------------------------
(* Induction on natural numbers *)

LEMMA LeastNumber ==
  ASSUME NEW S \in SUBSET Nat, S # {}
  PROVE  \E n \in S : \A m \in S : n <= m
<1> DEFINE R == OpToRel(<, Nat)
<1>1. IsWellFoundedOn(R, Nat)
  BY NatLessThanWellFounded
<1>2. \A m, n \in Nat : m < n => <<m, n>> \in R
  BY DEF OpToRel
<1> HIDE DEF R
<1>3. PICK n \in S : \A m \in S : <<m, n>> \notin R
  BY <1>1, WFMin
<1>4. \A m \in S : n <= m
  <2> TAKE m \in S
  <2>1. m \in Nat /\ n \in Nat /\ ~(m < n)
    BY <1>2, <1>3
  <2> QED
    BY <2>1
<1> QED
  BY <1>4

LEMMA AllNumbers ==
  ASSUME NEW S, 0 \in S, \A n \in Nat : n \in S => n + 1 \in S
  PROVE  Nat \subseteq S
<1> SUFFICES ASSUME Nat \ S # {} PROVE FALSE
  OBVIOUS
<1>1. PICK n \in Nat \ S : \A m \in Nat \ S : n <= m
  BY LeastNumber, Nat \ S \in SUBSET Nat
<1>2. n # 0 /\ n - 1 \in Nat
  BY <1>1
<1>3. n - 1 \in S
  BY <1>1, <1>2
<1> QED
  BY <1>1, <1>2, <1>3

-----------------------------------------------------------------------------
(* The ancestor walk *)

\* One link further up.
Further(c, X) == X \cup {Parent(x) : x \in X \cap c.parents}

\* f tells what is met from b in at most k links, for every k up to n.
Walk(c, b, n, f) ==
  f = [k \in 0 .. n |-> IF k = 0 THEN {b} ELSE Further(c, f[k-1])]

LEMMA WalkExists ==
  ASSUME NEW c, NEW b, NEW n \in Nat
  PROVE  \E f : Walk(c, b, n, f)
<1> DEFINE S == {m \in Nat : \E f : Walk(c, b, m, f)}
<1>1. 0 \in S
  <2>1. Walk(c, b, 0, [k \in 0 .. 0 |-> {b}])
    BY DEF Walk
  <2> QED
    BY <2>1
<1>2. \A m \in Nat : m \in S => m + 1 \in S
  <2> SUFFICES ASSUME NEW m \in Nat, m \in S
               PROVE  \E f : Walk(c, b, m + 1, f)
    OBVIOUS
  <2>1. PICK f : Walk(c, b, m, f)
    OBVIOUS
  <2> DEFINE g == [k \in 0 .. (m + 1) |-> IF k = 0 THEN {b} ELSE Further(c, f[k-1])]
  <2>2. \A k \in 0 .. m : f[k] = IF k = 0 THEN {b} ELSE Further(c, f[k-1])
    BY <2>1 DEF Walk
  <2>3. \A k \in 0 .. m : k \in 0 .. (m + 1)
    OBVIOUS
  <2>4. \A k \in 0 .. m : g[k] = f[k]
    BY <2>2, <2>3
  <2>5. \A k \in 0 .. (m + 1) : k # 0 => k - 1 \in 0 .. m
    OBVIOUS
  <2>6. \A k \in 0 .. (m + 1) :
          (IF k = 0 THEN {b} ELSE Further(c, f[k-1])) = (IF k = 0 THEN {b} ELSE Further(c, g[k-1]))
    BY <2>4, <2>5
  <2>7. Walk(c, b, m + 1, g)
    BY <2>6 DEF Walk
  <2> QED
    BY <2>7
<1> HIDE DEF S
<1>3. n \in S
  BY <1>1, <1>2, AllNumbers
<1> QED
  BY <1>3 DEF S

LEMMA AncestryIsWalk ==
  ASSUME NEW c, NEW b
  PROVE  \E f : Walk(c, b, MaxDepth, f) /\ Ancestry(c, b) = f[MaxDepth]
<1> DEFINE up == CHOOSE f : Walk(c, b, MaxDepth, f)
<1>1. Walk(c, b, MaxDepth, up)
  BY WalkExists, BoundsAssumption
<1>2. Ancestry(c, b) = up[MaxDepth]
  BY DEF Ancestry, Walk, Further
<1> QED
  BY <1>1, <1>2

\* A set that holds the start of the walk and is closed under the recorded
\* links holds all the walk meets.
LEMMA AncestryClosed ==
  ASSUME NEW c, NEW b, NEW I, b \in I, \A x \in I \cap c.parents : Parent(x) \in I
  PROVE  Ancestry(c, b) \subseteq I
<1>1. PICK f : Walk(c, b, MaxDepth, f) /\ Ancestry(c, b) = f[MaxDepth]
  BY AncestryIsWalk
<1> DEFINE S == {k \in Nat : k <= MaxDepth => f[k] \subseteq I}
<1>2. \A k \in 0 .. MaxDepth : f[k] = IF k = 0 THEN {b} ELSE Further(c, f[k-1])
  BY <1>1 DEF Walk
<1>3. 0 \in S
  BY <1>2, BoundsAssumption
<1>4. \A k \in Nat : k \in S => k + 1 \in S
  <2> SUFFICES ASSUME NEW k \in Nat, k \in S, k + 1 <= MaxDepth
               PROVE  f[k + 1] \subseteq I
    OBVIOUS
  <2>1. k + 1 \in 0 .. MaxDepth /\ k + 1 # 0 /\ (k + 1) - 1 = k /\ k <= MaxDepth
    BY BoundsAssumption
  <2>2. f[k + 1] = Further(c, f[k])
    BY <1>2, <2>1
  <2>3. f[k] \subseteq I
    BY <2>1
  <2> QED
    BY <2>2, <2>3 DEF Further
<1> HIDE DEF S
<1>5. MaxDepth \in S
  BY <1>3, <1>4, AllNumbers, BoundsAssumption
<1> QED
  BY <1>1, <1>5, BoundsAssumption DEF S

-----------------------------------------------------------------------------
(* The invariant *)

\* The parent of a block that has one is certified in S.
ParentCertified(S, b) ==
  Parent(b) # NoBlock => \E y \in S : y.block = Parent(b) /\ CertifiedBy(S, y)

GoodMessage(S, m) ==
  /\ m.qc # NoQC => CertifiedBy(S, m.qc)
  /\ m.type # "NEWVIEW" => m.block \in Blocks
  /\ m.type = "VOTE" => [view |-> m.view, block |-> m.block, voter |-> m.from] \in S
  /\ m.type = "PROPOSE" => Height(m.block) > 0 /\ Parent(m.block) = ParentOf(m.qc)

\* What a handler may do to a replica with context c when S has been signed.
GoodEffect(S, c, e) ==
  /\ e \in Effects
  /\ Good(S \cup e.cast, e.ctx)
  /\ Grows(c, e.ctx)
  /\ \A m \in e.sent : GoodMessage(S \cup e.cast, m)
  /\ \A x \in e.cast : ParentCertified(S \cup e.cast, x.block)

IInv ==
  /\ TypeOK
  /\ \A r \in Replicas : Good(signed, ctx[r])
  /\ \A r \in Replicas : \A m \in inbox[r] : GoodMessage(signed, m)
  /\ \A x \in signed : ParentCertified(signed, x.block)

-----------------------------------------------------------------------------
(* Forming QCs and committing *)

LEMMA CheckCommitGood ==
  ASSUME NEW S, NEW c, Good(S, c), NEW qc
  PROVE  Good(S, CheckCommit(c, qc)) /\ Grows(c, CheckCommit(c, qc))
<1> DEFINE b == Parent(qc.block)
<1>1. CASE b \in c.blocks /\ ~IsCommitted(c, Height(b)) /\ CheckCommit(c, qc) = Commit(c, b)
  <2>1. b \in Blocks
    BY <1>1 DEF Good, Contexts
  <2> HIDE DEF b
  <2> QED
    BY <1>1, <2>1, CommitGood
<1>2. CASE CheckCommit(c, qc) = c
  BY <1>2, GrowsReflexive DEF Good
<1> QED
  BY <1>1, <1>2 DEF CheckCommit

LEMMA FormQCGood ==
  ASSUME NEW S, NEW c, Good(S, c), NEW qc \in QCs, CertifiedBy(S, qc)
  PROVE  Good(S, FormQC(c, qc)) /\ Grows(c, FormQC(c, qc))
<1> DEFINE c1 == AddQC(c, qc)
           c2 == UpdateHighQC(c1, qc)
           c3 == UpdateLockedQC(c2, qc)
           c4 == CheckCommit(c3, qc)
<1>1. Good(S, c1) /\ Grows(c, c1)
  BY AddQCGood
<1>2. Good(S, c2) /\ Grows(c1, c2)
  BY <1>1, UpdateHighQCGood
<1>3. Good(S, c3) /\ Grows(c2, c3)
  BY <1>2, UpdateLockedQCGood
<1>4. Good(S, c4) /\ Grows(c3, c4)
  BY <1>3, CheckCommitGood
<1>5. {c, c1, c2, c3, c4} \subseteq Contexts
  BY <1>1, <1>2, <1>3, <1>4 DEF Good
<1> HIDE DEF c1, c2, c3, c4
<1>6. Grows(c, c3)
  BY <1>1, <1>2, <1>3, <1>5, GrowsTransitive
<1>7. Grows(c, c4)
  BY <1>4, <1>5, <1>6, GrowsTransitive
<1> QED
  BY <1>4, <1>7 DEF FormQC, c1, c2, c3, c4

\* Stored votes were signed, so a quorum of them certifies.
LEMMA TryFormQCGood ==
  ASSUME NEW S, NEW c, Good(S, c), NEW v \in Views, NEW b \in Blocks
  PROVE  Good(S, TryFormQC(c, v, b)) /\ Grows(c, TryFormQC(c, v, b))
<1>1. CASE QuorumReached(c, v, b)
  <2> DEFINE qc == [view |-> v, block |-> b]
  <2>1. qc \in QCs
    BY DEF QCs
  <2>2. CertifiedBy(S, qc)
    <3> DEFINE A == Voters(c, v, b)
               B == {r \in Replicas : [view |-> qc.view, block |-> qc.block, voter |-> r] \in S}
    <3>1. A \subseteq B /\ B \in SUBSET Replicas
      BY DEF Voters, Good, Backed
    <3>2. IsQuorum(A)
      BY <1>1 DEF QuorumReached
    <3> HIDE DEF A, B
    <3>3. IsQuorum(B)
      BY <3>1, <3>2, QuorumMonotone
    <3> QED
      BY <3>3 DEF CertifiedBy, B
  <2>3. TryFormQC(c, v, b) = FormQC(c, qc)
    BY <1>1 DEF TryFormQC
  <2> QED
    BY <2>1, <2>2, <2>3, FormQCGood
<1>2. CASE ~QuorumReached(c, v, b)
  BY <1>2, GrowsReflexive DEF TryFormQC, Good
<1> QED
  BY <1>1, <1>2

LEMMA AdvanceTasksType ==
  ASSUME NEW r, NEW c, NEW v \in Views, NEW b
  PROVE  AdvanceTasks(r, c, v, b) \in SUBSET Tasks
  BY BoundsAssumption DEF AdvanceTasks, Tasks, Views

\* Counting a signed vote.
LEMMA CountVoteGood ==
  ASSUME NEW S, NEW c, Good(S, c), NEW r \in Replicas, NEW v \in Views, NEW b \in Blocks,
         NEW voter \in Replicas, [view |-> v, block |-> b, voter |-> voter] \in S
  PROVE  LET e == CountVote(r, c, v, b, voter)
         IN  /\ e \in Effects
             /\ e.sent = {} /\ e.cast = {}
             /\ Good(S, e.ctx)
             /\ Grows(c, e.ctx)
<1> DEFINE x == [view |-> v, block |-> b, voter |-> voter]
           c1 == AddVote(c, x)
           c2 == TryFormQC(c1, v, b)
           t == AdvanceTasks(r, c1, v, b)
<1>1. x \in Votes
  BY DEF Votes
<1>2. Good(S, c1) /\ Grows(c, c1)
  BY <1>1, AddVoteGood
<1>3. Good(S, c2) /\ Grows(c1, c2)
  BY <1>2, TryFormQCGood
<1>4. {c, c1, c2} \subseteq Contexts
  BY <1>2, <1>3 DEF Good
<1>5. t \in SUBSET Tasks
  BY AdvanceTasksType
<1>6. CountVote(r, c, v, b, voter) = [ctx |-> c2, sent |-> {}, cast |-> {}, started |-> t]
  BY DEF CountVote, Only
<1> HIDE DEF x, c1, c2, t
<1>7. Grows(c, c2)
  BY <1>2, <1>3, <1>4, GrowsTransitive
<1> QED
  BY <1>3, <1>4, <1>5, <1>6, <1>7 DEF Effects

-----------------------------------------------------------------------------
(* Effects *)

LEMMA ParentCertifiedMonotone ==
  ASSUME NEW S, NEW T, S \subseteq T, NEW b, ParentCertified(S, b)
  PROVE  ParentCertified(T, b)
  BY CertifiedMonotone DEF ParentCertified

LEMMA GoodMessageMonotone ==
  ASSUME NEW S, NEW T, S \subseteq T, NEW m, GoodMessage(S, m)
  PROVE  GoodMessage(T, m)
  BY CertifiedMonotone DEF GoodMessage

\* A block on top of a certified one, or without parent.
LEMMA ParentCertifiedByQC ==
  ASSUME NEW S, NEW b, NEW qc \in QCs \cup {NoQC}, qc # NoQC => CertifiedBy(S, qc),
         Parent(b) = ParentOf(qc)
  PROVE  ParentCertified(S, b)
<1> SUFFICES ASSUME Parent(b) # NoBlock
             PROVE  \E y \in S : y.block = Parent(b) /\ CertifiedBy(S, y)
  BY DEF ParentCertified
<1>1. qc # NoQC /\ Parent(b) = qc.block
  BY DEF ParentOf
<1>2. CertifiedBy(S, qc)
  BY <1>1
<1>3. PICK r \in Replicas : [view |-> qc.view, block |-> qc.block, voter |-> r] \in S
  BY <1>2, CertifiedVoted
<1>4. CertifiedBy(S, [view |-> qc.view, block |-> qc.block, voter |-> r])
  BY <1>2 DEF CertifiedBy
<1> QED
  BY <1>1, <1>3, <1>4

\* An effect is the record of its four fields.
LEMMA EffectFields ==
  ASSUME NEW e \in Effects
  PROVE  e = [ctx |-> e.ctx, sent |-> e.sent, cast |-> e.cast, started |-> e.started]
  BY DEF Effects

LEMMA ReplaceSent ==
  ASSUME NEW c, NEW sent, NEW cast, NEW started, NEW other
  PROVE  [[ctx |-> c, sent |-> sent, cast |-> cast, started |-> started] EXCEPT !.sent = other]
           = [ctx |-> c, sent |-> other, cast |-> cast, started |-> started]
  OBVIOUS

LEMMA OnlyGood ==
  ASSUME NEW S, NEW c, NEW d, Good(S, d), Grows(c, d)
  PROVE  GoodEffect(S, c, Only(d))
<1>1. Only(d) \in Effects
  BY DEF Only, Effects, Good
<1>2. Good(S \cup {}, d)
  BY GoodMonotone
<1> QED
  BY <1>1, <1>2 DEF GoodEffect, Only

LEMMA ProposeGood ==
  ASSUME NEW S, NEW c, Good(S, c), NEW r \in Replicas, NEW v \in Views,
         NEW justify \in QCs \cup {NoQC}, justify # NoQC => CertifiedBy(S, justify),
         NEW b \in NewBlocks(r, c, justify)
  PROVE  GoodEffect(S, c, Propose(r, c, v, justify, b))
<1> DEFINE x == [view |-> v, block |-> b, voter |-> r]
           T == S \cup {x}
           c1 == AddBlock(c, b)
           e == CountVote(r, c1, v, b, r)
           m == ProposeMessage(r, v, b, justify)
<1>1. ParentOf(justify) \in Blocks \cup {NoBlock}
  BY DEF ParentOf, QCs
<1>2. NextHeight(c, justify) \in {1} \cup {Height(a) + 1 : a \in Blocks}
  BY DEF NextHeight, Good, Contexts
<1>3. b \in Blocks /\ Height(b) = NextHeight(c, justify) /\ Parent(b) = ParentOf(justify)
  BY <1>1, <1>2, CreateBlockAssumption DEF NewBlocks
<1>4. Height(b) > 0
  BY <1>2, <1>3, BlocksAssumption
<1>5. Good(S, c1) /\ Grows(c, c1)
  BY <1>3, <1>4, AddBlockGood
<1>6. Good(T, c1)
  BY <1>5, GoodMonotone
<1>7. e \in Effects /\ e.sent = {} /\ e.cast = {} /\ Good(T, e.ctx) /\ Grows(c1, e.ctx)
  <2>1. [view |-> v, block |-> b, voter |-> r] \in T
    OBVIOUS
  <2> HIDE DEF T, c1
  <2> QED
    BY <1>3, <1>6, <2>1, CountVoteGood
<1>8. Grows(c, e.ctx)
  BY <1>5, <1>7, GrowsTransitive DEF Good
<1>9. x \in Votes /\ m \in Messages
  BY <1>3 DEF Votes, Messages, ProposeMessage
<1>10. GoodMessage(T, m)
  BY <1>3, <1>4, CertifiedMonotone DEF GoodMessage, ProposeMessage
<1>11. ParentCertified(T, x.block)
  <2>1. ParentCertified(S, b)
    BY <1>3, ParentCertifiedByQC
  <2> QED
    BY <2>1, ParentCertifiedMonotone
<1>12. Propose(r, c, v, justify, b) =
         [ctx |-> e.ctx, sent |-> {m}, cast |-> {x}, started |-> e.started]
  <2>1. Propose(r, c, v, justify, b) = [e EXCEPT !.sent = {m}, !.cast = {x}]
    BY DEF Propose
  <2> HIDE DEF e, m, x
  <2>2. e = [ctx |-> e.ctx, sent |-> e.sent, cast |-> e.cast, started |-> e.started]
    BY <1>7, EffectFields
  <2> QED
    BY <2>1, <2>2
<1> HIDE DEF x, c1, e, m
<1>13. [ctx |-> e.ctx, sent |-> {m}, cast |-> {x}, started |-> e.started] \in Effects
  BY <1>7, <1>9 DEF Effects
<1> QED
  BY <1>7, <1>8, <1>10, <1>11, <1>12, <1>13 DEF GoodEffect

LEMMA ProposalsOnNewViewsGood ==
  ASSUME NEW S, NEW c, Good(S, c), NEW r \in Replicas, NEW v \in Views,
         NEW p \in ProposalsOnNewViews(r, c, v)
  PROVE  GoodEffect(S, c, p)
<1>1. PICK q \in Justifications(c, v) : \E b \in NewBlocks(r, c, q) : p = Propose(r, c, v, q, b)
  BY DEF ProposalsOnNewViews
<1>2. PICK b \in NewBlocks(r, c, q) : p = Propose(r, c, v, q, b)
  BY <1>1
<1>3. q \in QCs \cup {NoQC} /\ (q # NoQC => CertifiedBy(S, q))
  <2>1. q = c.highQC \/ q \in HighestQCFromNewViews(c, v)
    BY <1>1 DEF Justifications
  <2>2. c.highQC \in QCs \cup {NoQC} /\ (c.highQC # NoQC => CertifiedBy(S, c.highQC))
    BY DEF Good, Contexts, Backed
  <2> QED
    BY <2>1, <2>2, HighestQCGood
<1> QED
  BY <1>2, <1>3, ProposeGood

\* The first effect signs nothing; the view may change in between.
LEMMA ThenGood ==
  ASSUME NEW S, NEW c \in Contexts, NEW d \in Contexts, Grows(c, d),
         NEW e, NEW p, GoodEffect(S, c, e), e.cast = {}, GoodEffect(S, d, p)
  PROVE  GoodEffect(S, c, Then(e, p))
<1> DEFINE both == [ctx |-> p.ctx, sent |-> p.sent \cup e.sent,
                    cast |-> p.cast, started |-> p.started]
<1>1. p \in Effects /\ e \in Effects
  BY DEF GoodEffect
<1>2. Then(e, p) = both
  <2>1. Then(e, p) = [p EXCEPT !.sent = p.sent \cup e.sent]
    BY DEF Then
  <2>2. p = [ctx |-> p.ctx, sent |-> p.sent, cast |-> p.cast, started |-> p.started]
    BY <1>1, EffectFields
  <2>3. \A other : [p EXCEPT !.sent = other] =
                    [ctx |-> p.ctx, sent |-> other, cast |-> p.cast, started |-> p.started]
    <3> DEFINE Fields == [ctx |-> p.ctx, sent |-> p.sent, cast |-> p.cast, started |-> p.started]
    <3>1. \A other : [Fields EXCEPT !.sent = other] =
                      [ctx |-> p.ctx, sent |-> other, cast |-> p.cast, started |-> p.started]
      BY ReplaceSent
    <3>2. Fields = p
      BY <2>2
    <3> HIDE DEF Fields
    <3> QED
      BY <3>1, <3>2, Zenon
  <2> QED
    BY <2>1, <2>3
<1>3. both \in Effects
  BY <1>1 DEF Effects
<1>4. Good(S \cup p.cast, p.ctx) /\ Grows(d, p.ctx)
  BY DEF GoodEffect
<1>5. Grows(c, p.ctx)
  BY <1>4, GrowsTransitive DEF Good
<1>6. \A m \in e.sent : GoodMessage(S \cup p.cast, m)
  <2>1. \A m \in e.sent : GoodMessage(S \cup {}, m)
    BY DEF GoodEffect
  <2> QED
    BY <2>1, GoodMessageMonotone
<1>7. \A m \in p.sent : GoodMessage(S \cup p.cast, m)
  BY DEF GoodEffect
<1>8. \A x \in p.cast : ParentCertified(S \cup p.cast, x.block)
  BY DEF GoodEffect
<1>9. /\ both.ctx = p.ctx
      /\ both.cast = p.cast
      /\ both.sent = p.sent \cup e.sent
  OBVIOUS
<1> HIDE DEF both
<1>10. GoodEffect(S, c, both)
  BY <1>3, <1>4, <1>5, <1>6, <1>7, <1>8, <1>9 DEF GoodEffect
<1> QED
  BY <1>2, <1>10

-----------------------------------------------------------------------------
(* Handlers *)

\* Storing a QC after raising the highest one, as three handlers do.
LEMMA RaiseHighQCGood ==
  ASSUME NEW S, NEW c, Good(S, c), NEW qc \in QCs, CertifiedBy(S, qc)
  PROVE  LET d == AddQC(UpdateHighQC(c, qc), qc)
         IN  Good(S, d) /\ Grows(c, d)
<1> DEFINE c1 == UpdateHighQC(c, qc)
           c2 == AddQC(c1, qc)
<1>1. Good(S, c1) /\ Grows(c, c1)
  BY UpdateHighQCGood
<1> HIDE DEF c1
<1>2. Good(S, c2) /\ Grows(c1, c2)
  BY <1>1, AddQCGood
<1> HIDE DEF c2
<1>3. Grows(c, c2)
  BY <1>1, <1>2, GrowsTransitive DEF Good
<1> QED
  BY <1>2, <1>3 DEF c1, c2

LEMMA SyncByProposalGood ==
  ASSUME NEW S, NEW c, Good(S, c), NEW m \in Messages, GoodMessage(S, m)
  PROVE  Good(S, SyncByProposal(c, m)) /\ Grows(c, SyncByProposal(c, m))
<1> DEFINE c1 == SetView(c, m.view)
           c2 == AddQC(UpdateHighQC(c1, m.qc), m.qc)
<1>1. Good(S, c1) /\ Grows(c, c1)
  BY SetViewGood DEF Messages
<1>2. CASE m.qc = NoQC
  BY <1>2, GrowsReflexive DEF SyncByProposal, Good
<1>3. CASE m.qc # NoQC
  <2>1. m.qc \in QCs /\ CertifiedBy(S, m.qc)
    BY <1>3 DEF Messages, GoodMessage
  <2> HIDE DEF c1
  <2>2. Good(S, c2) /\ Grows(c1, c2)
    BY <1>1, <2>1, RaiseHighQCGood
  <2> HIDE DEF c2
  <2>3. Grows(c, c2)
    BY <1>1, <2>2, GrowsTransitive DEF Good
  <2>4. Grows(c, c)
    BY GrowsReflexive DEF Good
  <2>5. SyncByProposal(c, m) \in {c, c1, c2}
    BY DEF SyncByProposal, c1, c2
  <2> QED
    BY <1>1, <2>2, <2>3, <2>4, <2>5
<1> QED
  BY <1>2, <1>3

LEMMA LockGood ==
  ASSUME NEW S, NEW c, Good(S, c), NEW qc \in QCs \cup {NoQC}, qc # NoQC => CertifiedBy(S, qc)
  PROVE  Good(S, Lock(c, qc)) /\ Grows(c, Lock(c, qc))
<1>1. CASE qc = NoQC
  BY <1>1, GrowsReflexive DEF Lock, Good
<1>2. CASE qc # NoQC
  <2> DEFINE c1 == AddQC(c, qc)
             c2 == UpdateLockedQC(c1, qc)
  <2>1. Good(S, c1) /\ Grows(c, c1)
    BY <1>2, AddQCGood
  <2> HIDE DEF c1
  <2>2. Good(S, c2) /\ Grows(c1, c2)
    BY <1>2, <2>1, UpdateLockedQCGood
  <2>3. Lock(c, qc) = c2
    BY <1>2 DEF Lock, c1
  <2> HIDE DEF c2
  <2>4. Grows(c, c2)
    BY <2>1, <2>2, GrowsTransitive DEF Good
  <2> QED
    BY <2>2, <2>3, <2>4
<1> QED
  BY <1>1, <1>2

\* What the handlers of a proposal may count on.
LEMMA ProposalContents ==
  ASSUME NEW S, NEW m \in Messages, GoodMessage(S, m), m.type = "PROPOSE"
  PROVE  /\ m.view \in Views /\ m.block \in Blocks /\ m.from \in Replicas
         /\ m.qc \in QCs \cup {NoQC}
         /\ m.qc # NoQC => CertifiedBy(S, m.qc)
         /\ Height(m.block) > 0
         /\ ParentCertified(S, m.block)
  BY ParentCertifiedByQC DEF Messages, GoodMessage

\* A handler of a proposal that only stores its block.
LEMMA StoreProposalGood ==
  ASSUME NEW S, NEW c, Good(S, c), NEW m \in Messages, GoodMessage(S, m), m.type = "PROPOSE"
  PROVE  LET d == AddBlock(SyncByProposal(c, m), m.block)
         IN  Good(S, d) /\ Grows(c, d)
<1> DEFINE c1 == SyncByProposal(c, m)
           c2 == AddBlock(c1, m.block)
<1>1. Good(S, c1) /\ Grows(c, c1)
  BY SyncByProposalGood
<1> HIDE DEF c1
<1>2. Good(S, c2) /\ Grows(c1, c2)
  BY <1>1, ProposalContents, AddBlockGood
<1> HIDE DEF c2
<1>3. Grows(c, c2)
  BY <1>1, <1>2, GrowsTransitive DEF Good
<1> QED
  BY <1>2, <1>3 DEF c1, c2

LEMMA VoteForGood ==
  ASSUME NEW S, NEW c, Good(S, c), NEW r \in Replicas,
         NEW m \in Messages, GoodMessage(S, m), m.type = "PROPOSE"
  PROVE  GoodEffect(S, c, VoteFor(r, c, m))
<1> DEFINE x == [view |-> m.view, block |-> m.block, voter |-> r]
           T == S \cup {x}
           c1 == Lock(c, m.qc)
           e == CountVote(r, c1, m.view, m.block, r)
           msg == VoteMessage(r, m.view, m.block)
<1>1. /\ m.view \in Views /\ m.block \in Blocks
      /\ m.qc \in QCs \cup {NoQC} /\ (m.qc # NoQC => CertifiedBy(S, m.qc))
      /\ ParentCertified(S, m.block)
  BY ProposalContents
<1>2. Good(S, c1) /\ Grows(c, c1)
  BY <1>1, LockGood
<1>3. Good(T, c1)
  BY <1>2, GoodMonotone
<1>4. e \in Effects /\ e.sent = {} /\ e.cast = {} /\ Good(T, e.ctx) /\ Grows(c1, e.ctx)
  <2>1. [view |-> m.view, block |-> m.block, voter |-> r] \in T
    OBVIOUS
  <2> HIDE DEF T, c1
  <2> QED
    BY <1>1, <1>3, <2>1, CountVoteGood
<1>5. Grows(c, e.ctx)
  BY <1>2, <1>4, GrowsTransitive DEF Good
<1>6. x \in Votes /\ msg \in Messages
  BY <1>1 DEF Votes, Messages, VoteMessage
<1>7. GoodMessage(T, msg)
  BY <1>1 DEF GoodMessage, VoteMessage
<1>8. ParentCertified(T, x.block)
  BY <1>1, ParentCertifiedMonotone
<1>9. VoteFor(r, c, m) = [ctx |-> e.ctx, sent |-> {msg}, cast |-> {x}, started |-> e.started]
  <2>1. VoteFor(r, c, m) = [e EXCEPT !.sent = {msg}, !.cast = {x}]
    BY DEF VoteFor
  <2> HIDE DEF e, msg, x
  <2>2. e = [ctx |-> e.ctx, sent |-> e.sent, cast |-> e.cast, started |-> e.started]
    BY <1>4, EffectFields
  <2> QED
    BY <2>1, <2>2
<1> HIDE DEF x, c1, e, msg
<1>10. [ctx |-> e.ctx, sent |-> {msg}, cast |-> {x}, started |-> e.started] \in Effects
  BY <1>4, <1>6 DEF Effects
<1> QED
  BY <1>4, <1>5, <1>7, <1>8, <1>9, <1>10 DEF GoodEffect

\* A recorded NEWVIEW raises the highest QC by the one it carries.
LEMMA RecordNewViewGood ==
  ASSUME NEW S, NEW c, Good(S, c), NEW m \in Messages, GoodMessage(S, m)
  PROVE  Good(S, RecordNewView(c, m)) /\ Grows(c, RecordNewView(c, m))
<1> DEFINE c1 == AddNewView(c, m.view, m.from, m.qc)
           c2 == AddQC(UpdateHighQC(c1, m.qc), m.qc)
<1>1. /\ m.view \in Views /\ m.from \in Replicas /\ m.qc \in QCs \cup {NoQC}
      /\ m.qc # NoQC => CertifiedBy(S, m.qc)
  BY DEF Messages, GoodMessage
<1>2. Good(S, c1) /\ Grows(c, c1)
  BY <1>1, AddNewViewGood
<1>3. CASE m.qc = NoQC
  BY <1>2, <1>3 DEF RecordNewView
<1>4. CASE m.qc # NoQC
  <2>1. RecordNewView(c, m) = c2
    BY <1>4 DEF RecordNewView
  <2> HIDE DEF c1
  <2>2. Good(S, c2) /\ Grows(c1, c2)
    BY <1>1, <1>2, <1>4, RaiseHighQCGood
  <2> HIDE DEF c2
  <2>3. Grows(c, c2)
    BY <1>2, <2>2, GrowsTransitive DEF Good
  <2> QED
    BY <2>1, <2>2, <2>3
<1> QED
  BY <1>3, <1>4

\* The NEWVIEW carries the highest QC of its sender.
LEMMA EnterWithNewViewGood ==
  ASSUME NEW S, NEW c, Good(S, c), NEW r \in Replicas, NEW v \in Views
  PROVE  /\ GoodEffect(S, c, EnterWithNewView(r, c, v))
         /\ EnterWithNewView(r, c, v).cast = {}
<1> DEFINE c1 == SetView(c, v)
           c2 == AddNewView(c1, v, r, c.highQC)
           msg == NewViewMessage(r, v, c.highQC)
<1>1. c.highQC \in QCs \cup {NoQC} /\ (c.highQC # NoQC => CertifiedBy(S, c.highQC))
  BY DEF Good, Contexts, Backed
<1>2. Good(S, c1) /\ Grows(c, c1)
  BY SetViewGood
<1>3. msg \in Messages /\ GoodMessage(S \cup {}, msg)
  <2>1. msg \in Messages
    BY <1>1 DEF Messages, NewViewMessage
  <2>2. GoodMessage(S, msg)
    BY <1>1 DEF GoodMessage, NewViewMessage
  <2> QED
    BY <2>1, <2>2, GoodMessageMonotone
<1>4. EnterWithNewView(r, c, v) = [ctx |-> c2, sent |-> {msg}, cast |-> {}, started |-> {}]
  BY DEF EnterWithNewView, Only
<1> HIDE DEF c1, msg
<1>5. Good(S, c2) /\ Grows(c1, c2)
  BY <1>1, <1>2, AddNewViewGood
<1> HIDE DEF c2
<1>6. Grows(c, c2)
  BY <1>2, <1>5, GrowsTransitive DEF Good
<1>7. Good(S \cup {}, c2)
  BY <1>5, GoodMonotone
<1>8. [ctx |-> c2, sent |-> {msg}, cast |-> {}, started |-> {}] \in Effects
  BY <1>3, <1>5 DEF Effects, Good
<1> QED
  BY <1>3, <1>4, <1>6, <1>7, <1>8 DEF GoodEffect

\* An effect on a grown context is one on the context it grew from.
LEMMA GrowsThenGood ==
  ASSUME NEW S, NEW c \in Contexts, NEW d \in Contexts, Grows(c, d),
         NEW e, GoodEffect(S, d, e)
  PROVE  GoodEffect(S, c, e)
<1>1. Grows(c, e.ctx)
  BY GrowsTransitive DEF GoodEffect, Good
<1> QED
  BY <1>1 DEF GoodEffect

\* The effect of a NEWVIEW up to the decision to propose.
LEMMA SyncByNewViewGood ==
  ASSUME NEW S, NEW c, Good(S, c), NEW r \in Replicas,
         NEW m \in Messages, GoodMessage(S, m)
  PROVE  LET e == SyncByNewView(r, RecordNewView(c, m), m)
         IN  GoodEffect(S, c, e) /\ e.cast = {}
<1> DEFINE c1 == RecordNewView(c, m)
           e == SyncByNewView(r, c1, m)
<1>1. Good(S, c1) /\ Grows(c, c1)
  BY RecordNewViewGood
<1>2. m.view \in Views
  BY DEF Messages
<1> HIDE DEF c1
<1>3. e = EnterWithNewView(r, c1, m.view) \/ e = Only(c1)
  BY DEF SyncByNewView
<1>4. GoodEffect(S, c1, e) /\ e.cast = {}
  <2>1. GoodEffect(S, c1, Only(c1)) /\ Only(c1).cast = {}
    BY <1>1, OnlyGood, GrowsReflexive DEF Only, Good
  <2>2. /\ GoodEffect(S, c1, EnterWithNewView(r, c1, m.view))
        /\ EnterWithNewView(r, c1, m.view).cast = {}
    BY <1>1, <1>2, EnterWithNewViewGood
  <2> QED
    BY <1>3, <2>1, <2>2
<1> HIDE DEF e
<1>5. GoodEffect(S, c, e)
  BY <1>1, <1>4, GrowsThenGood DEF Good
<1> QED
  BY <1>4, <1>5 DEF e, c1

-----------------------------------------------------------------------------
(* Steps *)

\* What every step preserves and what it may not undo.
GoodStep ==
  /\ IInv'
  /\ \A r \in Replicas : Grows(ctx[r], ctx'[r])

\* A replica takes a step with a good effect, and is left with context c; the
\* rest of its inbox and of its goroutines stays.
LEMMA EffectKeeps ==
  ASSUME IInv, NEW r \in Replicas, NEW e, GoodEffect(signed, ctx[r], e),
         NEW c, Good(signed \cup e.cast, c),
         NEW box \in [Replicas -> SUBSET Messages],
         \A q \in Replicas : box[q] \subseteq inbox[q],
         NEW goroutines \in SUBSET Tasks,
         ctx' = [ctx EXCEPT ![r] = c],
         inbox' = Broadcast(box, r, e.sent),
         tasks' = [tasks EXCEPT ![r] = goroutines],
         signed' = signed \cup e.cast
  PROVE  IInv'
<1>1. e \in Effects
  BY DEF GoodEffect
<1>2. ctx' \in [Replicas -> Contexts]
  BY DEF IInv, TypeOK, Good
<1>3. inbox' \in [Replicas -> SUBSET Messages]
  BY <1>1 DEF IInv, TypeOK, Effects, Broadcast
<1>4. tasks' \in [Replicas -> SUBSET Tasks]
  BY DEF IInv, TypeOK
<1>5. signed' \in SUBSET Votes
  BY <1>1 DEF IInv, TypeOK, Effects
<1>6. \A q \in Replicas : ctx'[q] = IF q = r THEN c ELSE ctx[q]
  BY DEF IInv, TypeOK
<1>7. \A q \in Replicas : Good(signed', ctx'[q])
  <2>1. \A q \in Replicas : Good(signed', ctx[q])
    BY GoodMonotone DEF IInv
  <2> QED
    BY <1>6, <2>1
<1>8. \A q \in Replicas : \A m \in inbox'[q] : GoodMessage(signed', m)
  <2>1. \A m \in e.sent : GoodMessage(signed', m)
    BY DEF GoodEffect
  <2>2. \A q \in Replicas : \A m \in inbox[q] : GoodMessage(signed', m)
    BY GoodMessageMonotone DEF IInv
  <2>3. \A q \in Replicas : inbox'[q] \subseteq inbox[q] \cup e.sent
    BY DEF Broadcast
  <2> QED
    BY <2>1, <2>2, <2>3
<1>9. \A x \in signed' : ParentCertified(signed', x.block)
  <2>1. \A x \in e.cast : ParentCertified(signed', x.block)
    BY DEF GoodEffect
  <2>2. \A x \in signed : ParentCertified(signed', x.block)
    BY ParentCertifiedMonotone DEF IInv
  <2> QED
    BY <2>1, <2>2
<1>10. TypeOK'
  BY <1>2, <1>3, <1>4, <1>5 DEF TypeOK
<1> QED
  BY <1>7, <1>8, <1>9, <1>10 DEF IInv

LEMMA EffectGood ==
  ASSUME IInv, NEW r \in Replicas, NEW e, GoodEffect(signed, ctx[r], e),
         NEW box \in [Replicas -> SUBSET Messages],
         \A q \in Replicas : box[q] \subseteq inbox[q],
         NEW rest \in SUBSET Tasks,
         ctx' = [ctx EXCEPT ![r] = e.ctx],
         inbox' = Broadcast(box, r, e.sent),
         tasks' = [tasks EXCEPT ![r] = rest \cup e.started],
         signed' = signed \cup e.cast
  PROVE  GoodStep
<1>1. Good(signed \cup e.cast, e.ctx) /\ rest \cup e.started \in SUBSET Tasks
  BY DEF GoodEffect, Effects
<1>2. IInv'
  BY <1>1, EffectKeeps
<1>3. \A q \in Replicas : ctx'[q] = IF q = r THEN e.ctx ELSE ctx[q]
  BY DEF IInv, TypeOK
<1>4. \A q \in Replicas : Grows(ctx[q], ctx'[q])
  <2>1. Grows(ctx[r], e.ctx)
    BY DEF GoodEffect
  <2>2. \A q \in Replicas : Grows(ctx[q], ctx[q])
    BY GrowsReflexive DEF IInv, TypeOK
  <2> QED
    BY <1>3, <2>1, <2>2
<1> QED
  BY <1>2, <1>4 DEF GoodStep

LEMMA ConsumeGood ==
  ASSUME IInv, NEW r \in Replicas, NEW m \in inbox[r],
         NEW e, GoodEffect(signed, ctx[r], e), Consume(r, m, e)
  PROVE  GoodStep
<1> DEFINE box == [inbox EXCEPT ![r] = IF m.type \in Redelivery THEN @ ELSE @ \ {m}]
<1>1. box \in [Replicas -> SUBSET Messages] /\ \A q \in Replicas : box[q] \subseteq inbox[q]
  BY DEF IInv, TypeOK
<1>2. tasks[r] \in SUBSET Tasks
  BY DEF IInv, TypeOK
<1>3. /\ ctx' = [ctx EXCEPT ![r] = e.ctx]
      /\ inbox' = Broadcast(box, r, e.sent)
      /\ tasks' = [tasks EXCEPT ![r] = tasks[r] \cup e.started]
      /\ signed' = signed \cup e.cast
  BY DEF Consume
<1> HIDE DEF box
<1> QED
  BY <1>1, <1>2, <1>3, EffectGood

LEMMA RunGood ==
  ASSUME IInv, NEW r \in Replicas, NEW t,
         NEW e, GoodEffect(signed, ctx[r], e), Run(r, t, e)
  PROVE  GoodStep
<1>1. tasks[r] \ t \in SUBSET Tasks /\ inbox \in [Replicas -> SUBSET Messages]
  BY DEF IInv, TypeOK
<1>2. /\ ctx' = [ctx EXCEPT ![r] = e.ctx]
      /\ inbox' = Broadcast(inbox, r, e.sent)
      /\ tasks' = [tasks EXCEPT ![r] = (tasks[r] \ t) \cup e.started]
      /\ signed' = signed \cup e.cast
  BY DEF Run
<1> QED
  BY <1>1, <1>2, EffectGood

\* What the invariant says of a message about to be handled.
LEMMA Delivered ==
  ASSUME IInv, NEW r \in Replicas, NEW m \in inbox[r]
  PROVE  Good(signed, ctx[r]) /\ m \in Messages /\ GoodMessage(signed, m)
  BY DEF IInv, TypeOK

LEMMA IgnoreProposalGood ==
  ASSUME IInv, NEW r \in Replicas, IgnoreProposal(r)
  PROVE  GoodStep
<1> DEFINE e(m) == Only(SyncByProposal(ctx[r], m))
<1>1. PICK m \in Received(r, "PROPOSE") : Consume(r, m, e(m))
  BY DEF IgnoreProposal
<1>2. m \in inbox[r]
  BY DEF Received
<1>3. GoodEffect(signed, ctx[r], e(m))
  BY <1>2, Delivered, SyncByProposalGood, OnlyGood
<1> HIDE DEF e
<1> QED
  BY <1>1, <1>2, <1>3, ConsumeGood

LEMMA DeferProposalGood ==
  ASSUME IInv, NEW r \in Replicas, DeferProposal(r)
  PROVE  GoodStep
<1> DEFINE e(m) == Only(SyncByProposal(ctx[r], m))
<1>1. PICK m \in Received(r, "PROPOSE") : Consume(r, m, e(m))
  BY DEF DeferProposal
<1>2. m \in inbox[r]
  BY DEF Received
<1>3. GoodEffect(signed, ctx[r], e(m))
  BY <1>2, Delivered, SyncByProposalGood, OnlyGood
<1> HIDE DEF e
<1> QED
  BY <1>1, <1>2, <1>3, ConsumeGood

LEMMA RejectProposalGood ==
  ASSUME IInv, NEW r \in Replicas, RejectProposal(r)
  PROVE  GoodStep
<1> DEFINE e(m) == Only(AddBlock(SyncByProposal(ctx[r], m), m.block))
<1>1. PICK m \in Received(r, "PROPOSE") : Consume(r, m, e(m))
  BY DEF RejectProposal
<1>2. m \in inbox[r] /\ m.type = "PROPOSE"
  BY DEF Received
<1>3. GoodEffect(signed, ctx[r], e(m))
  BY <1>2, Delivered, StoreProposalGood, OnlyGood
<1> HIDE DEF e
<1> QED
  BY <1>1, <1>2, <1>3, ConsumeGood

LEMMA VoteForProposalGood ==
  ASSUME IInv, NEW r \in Replicas, VoteForProposal(r)
  PROVE  GoodStep
<1> DEFINE stored(m) == AddBlock(SyncByProposal(ctx[r], m), m.block)
           e(m) == VoteFor(r, stored(m), m)
<1>1. PICK m \in Received(r, "PROPOSE") : Consume(r, m, e(m))
  BY DEF VoteForProposal
<1>2. m \in inbox[r] /\ m.type = "PROPOSE"
  BY DEF Received
<1>3. Good(signed, ctx[r]) /\ m \in Messages /\ GoodMessage(signed, m)
  BY <1>2, Delivered
<1>4. Good(signed, stored(m)) /\ Grows(ctx[r], stored(m))
  BY <1>2, <1>3, StoreProposalGood
<1> HIDE DEF stored
<1>5. GoodEffect(signed, stored(m), e(m))
  BY <1>2, <1>3, <1>4, VoteForGood
<1> HIDE DEF e
<1>6. GoodEffect(signed, ctx[r], e(m))
  BY <1>3, <1>4, <1>5, GrowsThenGood DEF Good
<1> QED
  BY <1>1, <1>2, <1>6, ConsumeGood

LEMMA ReceiveVoteGood ==
  ASSUME IInv, NEW r \in Replicas, ReceiveVote(r)
  PROVE  GoodStep
<1> DEFINE e(m) == CountVote(r, ctx[r], m.view, m.block, m.from)
<1>1. PICK m \in Received(r, "VOTE") : Consume(r, m, e(m))
  BY DEF ReceiveVote
<1>2. m \in inbox[r] /\ m.type = "VOTE"
  BY DEF Received
<1>3. Good(signed, ctx[r]) /\ m \in Messages /\ GoodMessage(signed, m)
  BY <1>2, Delivered
<1>4. /\ m.view \in Views /\ m.from \in Replicas /\ m.block \in Blocks
      /\ [view |-> m.view, block |-> m.block, voter |-> m.from] \in signed
  BY <1>2, <1>3 DEF Messages, GoodMessage
<1>5. /\ e(m) \in Effects /\ e(m).sent = {} /\ e(m).cast = {}
      /\ Good(signed, e(m).ctx) /\ Grows(ctx[r], e(m).ctx)
  BY <1>3, <1>4, CountVoteGood
<1> HIDE DEF e
<1>6. GoodEffect(signed, ctx[r], e(m))
  BY <1>5, GoodMonotone DEF GoodEffect
<1> QED
  BY <1>1, <1>2, <1>6, ConsumeGood

LEMMA ReceiveNewViewGood ==
  ASSUME IInv, NEW r \in Replicas, ReceiveNewView(r)
  PROVE  GoodStep
<1> DEFINE e(m) == SyncByNewView(r, RecordNewView(ctx[r], m), m)
           back(m) == SetView(e(m).ctx, m.view)
<1>1. PICK m \in Received(r, "NEWVIEW") :
        \/ \E p \in ProposalsOnNewViews(r, back(m), m.view) : Consume(r, m, Then(e(m), p))
        \/ Consume(r, m, e(m))
  BY DEF ReceiveNewView
<1>2. m \in inbox[r]
  BY DEF Received
<1>3. Good(signed, ctx[r]) /\ m \in Messages /\ GoodMessage(signed, m)
  BY <1>2, Delivered
<1>4. GoodEffect(signed, ctx[r], e(m)) /\ e(m).cast = {}
  BY <1>3, SyncByNewViewGood
<1> HIDE DEF e
<1>5. CASE Consume(r, m, e(m))
  BY <1>2, <1>4, <1>5, ConsumeGood
<1>6. ASSUME NEW p \in ProposalsOnNewViews(r, back(m), m.view), Consume(r, m, Then(e(m), p))
      PROVE  GoodStep
  <2>1. Good(signed, e(m).ctx) /\ Grows(ctx[r], e(m).ctx)
    <3>1. Good(signed \cup {}, e(m).ctx) /\ Grows(ctx[r], e(m).ctx)
      BY <1>4 DEF GoodEffect
    <3> QED
      BY <3>1, GoodMonotone
  <2>2. m.view \in Views
    BY <1>3 DEF Messages
  <2>3. Good(signed, back(m)) /\ Grows(e(m).ctx, back(m))
    BY <2>1, <2>2, SetViewGood
  <2> HIDE DEF back
  <2>4. GoodEffect(signed, back(m), p)
    BY <1>6, <2>2, <2>3, ProposalsOnNewViewsGood
  <2>5. Grows(ctx[r], back(m))
    BY <1>3, <2>1, <2>3, GrowsTransitive DEF Good
  <2>6. GoodEffect(signed, ctx[r], Then(e(m), p))
    BY <1>3, <1>4, <2>3, <2>4, <2>5, ThenGood DEF Good
  <2> QED
    BY <1>2, <1>6, <2>6, ConsumeGood
<1> QED
  BY <1>1, <1>5, <1>6

LEMMA TimeoutGood ==
  ASSUME IInv, NEW r \in Replicas, Timeout(r)
  PROVE  GoodStep
<1> DEFINE v == ctx[r].view + 1
           c1 == PruneVotes(ctx[r], v)
           e == EnterWithNewView(r, c1, v)
<1>1. \/ \E p \in ProposalsOnNewViews(r, e.ctx, v) : Run(r, {}, Then(e, p))
      \/ Run(r, {}, e)
  BY DEF Timeout
<1>2. Good(signed, ctx[r]) /\ ctx[r].view \in Views
  BY DEF IInv, TypeOK, Contexts
<1>3. v \in Views
  BY <1>2, BoundsAssumption DEF Timeout, Views
<1> HIDE DEF v
<1>4. Good(signed, c1) /\ Grows(ctx[r], c1)
  BY <1>2, <1>3, PruneVotesGood
<1> HIDE DEF c1
<1>5. GoodEffect(signed, c1, e) /\ e.cast = {}
  BY <1>3, <1>4, EnterWithNewViewGood
<1> HIDE DEF e
<1>6. GoodEffect(signed, ctx[r], e)
  BY <1>2, <1>4, <1>5, GrowsThenGood DEF Good
<1>7. CASE Run(r, {}, e)
  BY <1>6, <1>7, RunGood
<1>8. ASSUME NEW p \in ProposalsOnNewViews(r, e.ctx, v), Run(r, {}, Then(e, p))
      PROVE  GoodStep
  <2>1. Good(signed, e.ctx) /\ Grows(ctx[r], e.ctx)
    <3>1. Good(signed \cup {}, e.ctx) /\ Grows(ctx[r], e.ctx)
      BY <1>5, <1>6 DEF GoodEffect
    <3> QED
      BY <3>1, GoodMonotone
  <2>2. GoodEffect(signed, e.ctx, p)
    BY <1>3, <1>8, <2>1, ProposalsOnNewViewsGood
  <2>3. GoodEffect(signed, ctx[r], Then(e, p))
    BY <1>2, <1>5, <1>6, <2>1, <2>2, ThenGood DEF Good
  <2> QED
    BY <1>8, <2>3, RunGood
<1> QED
  BY <1>1, <1>7, <1>8

\* A step of a goroutine that starts others and changes the context only.
LEMMA StartsGood ==
  ASSUME NEW S, NEW c, NEW d, Good(S, d), Grows(c, d), NEW t \in SUBSET Tasks
  PROVE  GoodEffect(S, c, [Only(d) EXCEPT !.started = t])
<1> DEFINE e == [ctx |-> d, sent |-> {}, cast |-> {}, started |-> t]
<1>1. [Only(d) EXCEPT !.started = t] = e
  BY DEF Only
<1>2. e \in Effects
  BY DEF Effects, Good
<1>3. Good(S \cup {}, d)
  BY GoodMonotone
<1> QED
  BY <1>1, <1>2, <1>3 DEF GoodEffect

LEMMA AdvanceViewWithQCGood ==
  ASSUME IInv, NEW r \in Replicas, AdvanceViewWithQC(r)
  PROVE  GoodStep
<1> DEFINE c1(t) == SetView(ctx[r], t.view)
           c2(t) == PruneVotes(c1(t), t.view)
           next == {[kind |-> "propose", view |-> 0]}
           e(t) == [Only(c2(t)) EXCEPT !.started = next]
<1>1. PICK t \in tasks[r] : Run(r, {t}, e(t))
  BY DEF AdvanceViewWithQC
<1>2. Good(signed, ctx[r]) /\ t.view \in Views
  BY DEF IInv, TypeOK, Tasks
<1>3. Good(signed, c1(t)) /\ Grows(ctx[r], c1(t))
  BY <1>2, SetViewGood
<1> HIDE DEF c1
<1>4. Good(signed, c2(t)) /\ Grows(c1(t), c2(t))
  BY <1>2, <1>3, PruneVotesGood
<1> HIDE DEF c2
<1>5. Grows(ctx[r], c2(t))
  BY <1>2, <1>3, <1>4, GrowsTransitive DEF Good
<1>6. next \in SUBSET Tasks
  BY BoundsAssumption DEF Tasks, Views
<1> HIDE DEF next
<1>7. GoodEffect(signed, ctx[r], e(t))
  BY <1>4, <1>5, <1>6, StartsGood
<1> HIDE DEF e
<1> QED
  BY <1>1, <1>7, RunGood

LEMMA StartProposeGood ==
  ASSUME IInv, NEW r \in Replicas, StartPropose(r)
  PROVE  GoodStep
<1> DEFINE next == IF Leader(ctx[r].view) = r
                   THEN {[kind |-> "create", view |-> ctx[r].view]}
                   ELSE {}
           e == [Only(ctx[r]) EXCEPT !.started = next]
<1>1. PICK t \in tasks[r] : Run(r, {t}, e)
  BY DEF StartPropose
<1>2. Good(signed, ctx[r]) /\ ctx[r].view \in Views
  BY DEF IInv, TypeOK, Contexts
<1>3. Grows(ctx[r], ctx[r])
  BY <1>2, GrowsReflexive DEF Good
<1>4. next \in SUBSET Tasks
  BY <1>2 DEF Tasks
<1> HIDE DEF next
<1>5. GoodEffect(signed, ctx[r], e)
  BY <1>2, <1>3, <1>4, StartsGood
<1> HIDE DEF e
<1> QED
  BY <1>1, <1>5, RunGood

LEMMA FinishProposeGood ==
  ASSUME IInv, NEW r \in Replicas, FinishPropose(r)
  PROVE  GoodStep
<1> DEFINE justify == ctx[r].highQC
           e(t, b) == Propose(r, ctx[r], t.view, justify, b)
<1>1. PICK t \in tasks[r], b \in NewBlocks(r, ctx[r], justify) : Run(r, {t}, e(t, b))
  BY DEF FinishPropose
<1>2. Good(signed, ctx[r]) /\ t.view \in Views
  BY DEF IInv, TypeOK, Tasks
<1>3. justify \in QCs \cup {NoQC} /\ (justify # NoQC => CertifiedBy(signed, justify))
  BY <1>2 DEF Good, Contexts, Backed
<1> HIDE DEF justify
<1>4. GoodEffect(signed, ctx[r], e(t, b))
  BY <1>2, <1>3, ProposeGood
<1> HIDE DEF e
<1> QED
  BY <1>1, <1>4, RunGood

LEMMA InitGood == Init => IInv
<1> SUFFICES ASSUME Init PROVE IInv
  OBVIOUS
<1> DEFINE c == NewContext(Genesis, NoQC)
<1>1. c \in Contexts
  BY BoundsAssumption, BlocksAssumption DEF NewContext, Contexts, Views
<1>2. Backed({}, c)
  BY DEF NewContext, Backed
<1>3. TypeOK
  BY <1>1, BoundsAssumption DEF Init, TypeOK, Tasks, Views
<1> QED
  BY <1>1, <1>2, <1>3 DEF Init, IInv, Good

LEMMA StutterGood ==
  ASSUME IInv, UNCHANGED vars
  PROVE  GoodStep
<1>1. IInv'
  BY DEF IInv, TypeOK, vars
<1>2. \A r \in Replicas : Grows(ctx[r], ctx'[r])
  BY GrowsReflexive DEF IInv, TypeOK, vars
<1> QED
  BY <1>1, <1>2 DEF GoodStep

LEMMA NextGood ==
  ASSUME IInv, [Next]_vars
  PROVE  GoodStep
<1>1. ASSUME NEW r \in Replicas, IgnoreProposal(r) PROVE GoodStep
  BY <1>1, IgnoreProposalGood
<1>2. ASSUME NEW r \in Replicas, DeferProposal(r) PROVE GoodStep
  BY <1>2, DeferProposalGood
<1>3. ASSUME NEW r \in Replicas, RejectProposal(r) PROVE GoodStep
  BY <1>3, RejectProposalGood
<1>4. ASSUME NEW r \in Replicas, VoteForProposal(r) PROVE GoodStep
  BY <1>4, VoteForProposalGood
<1>5. ASSUME NEW r \in Replicas, ReceiveVote(r) PROVE GoodStep
  BY <1>5, ReceiveVoteGood
<1>6. ASSUME NEW r \in Replicas, ReceiveNewView(r) PROVE GoodStep
  BY <1>6, ReceiveNewViewGood
<1>7. ASSUME NEW r \in Replicas, Timeout(r) PROVE GoodStep
  BY <1>7, TimeoutGood
<1>8. ASSUME NEW r \in Replicas, AdvanceViewWithQC(r) PROVE GoodStep
  BY <1>8, AdvanceViewWithQCGood
<1>9. ASSUME NEW r \in Replicas, StartPropose(r) PROVE GoodStep
  BY <1>9, StartProposeGood
<1>10. ASSUME NEW r \in Replicas, FinishPropose(r) PROVE GoodStep
  BY <1>10, FinishProposeGood
<1>11. CASE UNCHANGED vars
  BY <1>11, StutterGood
<1> QED
  BY <1>1, <1>2, <1>3, <1>4, <1>5, <1>6, <1>7, <1>8, <1>9, <1>10, <1>11 DEF Next

\* The inductive invariant, from which the theorems below follow.
THEOREM InductiveInvariant == Spec => []IInv
<1>1. IInv /\ [Next]_vars => IInv'
  BY NextGood DEF GoodStep
<1> QED
  BY <1>1, InitGood, PTL DEF Spec

\* Contexts, messages, goroutines and signed votes keep their types: in
\* particular no handler of hotstuff2.go stores a nil QC or a zero block.
THEOREM TypeCorrect == Spec => []TypeOK
<1>1. IInv => TypeOK
  BY DEF IInv
<1> QED
  BY <1>1, InductiveInvariant, PTL

-----------------------------------------------------------------------------
(* Safety properties *)

LEMMA CertifiedIsBy ==
  ASSUME NEW v, NEW b
  PROVE  Certified(v, b) <=> CertifiedBy(signed, [view |-> v, block |-> b])
  BY DEF Certified, Signers, CertifiedBy

LEMMA CertifiedByFields ==
  ASSUME NEW q
  PROVE  CertifiedBy(signed, q) <=> Certified(q.view, q.block)
  BY DEF Certified, Signers, CertifiedBy

LEMMA IInvCertified ==
  ASSUME IInv
  PROVE  QCIntegrity
<1> SUFFICES ASSUME NEW q \in HeldQCs
             PROVE  Certified(q.view, q.block)
  BY DEF QCIntegrity
<1>1. PICK r \in Replicas : q \in QCsOf(ctx[r]) \cup {m.qc : m \in inbox[r]}
  BY DEF HeldQCs
<1>2. q # NoQC
  BY DEF HeldQCs
<1>3. CASE q \in QCsOf(ctx[r])
  <2>1. Backed(signed, ctx[r])
    BY DEF IInv, Good
  <2>2. CertifiedBy(signed, q)
    BY <1>2, <1>3, <2>1 DEF QCsOf, Backed
  <2> QED
    BY <2>2, CertifiedByFields
<1>4. CASE \E m \in inbox[r] : q = m.qc
  <2>1. CertifiedBy(signed, q)
    BY <1>2, <1>4 DEF IInv, GoodMessage
  <2> QED
    BY <2>1, CertifiedByFields
<1> QED
  BY <1>1, <1>3, <1>4

\* Every QC a replica holds or a message carries (locks, highest QCs, stored
\* ones, those of NEWVIEWs) rests on votes a quorum signed for its view and
\* block: tryFormQCIfQuorum counts nothing else, whatever arrives and when.
THEOREM QCsAreCertified == Spec => []QCIntegrity
<1>1. IInv => QCIntegrity
  BY IInvCertified
<1> QED
  BY <1>1, InductiveInvariant, PTL

\* Whoever votes, leader or not, votes on top of a certified block: the
\* chain of proposals never grows past a block without QC.
THEOREM VotesExtendCertifiedBlocks == Spec => []VotesOnCertifiedParents
<1>1. IInv => VotesOnCertifiedParents
  <2> SUFFICES ASSUME IInv, NEW x \in signed, Parent(x.block) # NoBlock
               PROVE  \E y \in signed : /\ y.block = Parent(x.block)
                                        /\ Certified(y.view, y.block)
    BY DEF VotesOnCertifiedParents
  <2>1. ParentCertified(signed, x.block)
    BY DEF IInv
  <2> QED
    BY <2>1, CertifiedByFields DEF ParentCertified
<1> QED
  BY <1>1, InductiveInvariant, PTL

\* Locks and highest QCs never get older and commits are never undone,
\* although QCs arrive in any order and the view itself may go back.
THEOREM NothingIsForgotten == Spec => NothingForgotten
<1>1. IInv /\ [Next]_vars =>
        [\A r \in Replicas :
            /\ QCView(ctx[r].lockedQC) <= QCView(ctx'[r].lockedQC)
            /\ QCView(ctx[r].highQC) <= QCView(ctx'[r].highQC)
            /\ ctx[r].committed \subseteq ctx'[r].committed]_vars
  BY NextGood DEF GoodStep, Grows
<1> QED
  BY <1>1, InductiveInvariant, PTL DEF Spec, NothingForgotten

-----------------------------------------------------------------------------
(* What one step does to the votes and the ledgers *)

\* A block certified in S, and a child of it certified in the next view.
TwoChain(S, b) ==
  \E x \in S : /\ Parent(x.block) = b
               /\ CertifiedBy(S, x)
               /\ x.view > 0
               /\ CertifiedBy(S, [view |-> x.view - 1, block |-> b])

\* At most one block is added, of a height that was still open.
AddsOne(S, c, d) ==
  \/ d.committed = c.committed
  \/ \E b : /\ \A y \in c.committed : Height(y) # Height(b)
            /\ d.committed = c.committed \cup {b}
            /\ TwoChain(S, b)

CastsOne(r, S, e) ==
  \/ e.cast = {}
  \/ \E v \in Views, b \in Blocks :
       /\ e.cast = {[view |-> v, block |-> b, voter |-> r]}
       /\ ParentCertified(S, b)

\* What a handler of r may do to the votes and to its ledger.
LedgerEffect(r, S, c, e) == CastsOne(r, S, e) /\ AddsOne(S \cup e.cast, c, e.ctx)

-----------------------------------------------------------------------------
(* The operations of a context; all but Commit leave the ledger alone *)

LEMMA OperationsKeepLedger ==
  ASSUME NEW c \in Contexts
  PROVE  /\ \A v : SetView(c, v).committed = c.committed
         /\ \A v : PruneVotes(c, v).committed = c.committed
         /\ \A x : AddVote(c, x).committed = c.committed
         /\ \A b : AddBlock(c, b).committed = c.committed
         /\ \A q : AddQC(c, q).committed = c.committed
         /\ \A q : UpdateHighQC(c, q).committed = c.committed
         /\ \A q : UpdateLockedQC(c, q).committed = c.committed
         /\ \A v, r, q : AddNewView(c, v, r, q).committed = c.committed
<1>1. /\ \A v : SetView(c, v).committed = c.committed
      /\ \A v : PruneVotes(c, v).committed = c.committed
  BY DEF Contexts, SetView, PruneVotes
<1>2. /\ \A x : AddVote(c, x).committed = c.committed
      /\ \A b : AddBlock(c, b).committed = c.committed
      /\ \A q : AddQC(c, q).committed = c.committed
  BY DEF Contexts, AddVote, AddBlock, AddQC
<1>3. /\ \A q : UpdateHighQC(c, q).committed = c.committed
      /\ \A q : UpdateLockedQC(c, q).committed = c.committed
  BY DEF Contexts, UpdateHighQC, UpdateLockedQC
<1>4. \A v, r, q : AddNewView(c, v, r, q).committed = c.committed
  BY DEF Contexts, AddNewView
<1> QED
  BY <1>1, <1>2, <1>3, <1>4

\* Two certified consecutive views make a two-chain; what has height 0 is
\* committed already.
LEMMA CheckCommitAddsOne ==
  ASSUME NEW S, NEW c, Good(S, c), NEW qc \in QCs, CertifiedBy(S, qc)
  PROVE  AddsOne(S, c, CheckCommit(c, qc))
<1> DEFINE b == Parent(qc.block)
<1>1. CASE /\ {qc.block, b} \subseteq c.blocks
           /\ ~IsCommitted(c, Height(b))
           /\ ConsecutiveViews(c, b, qc)
  <2>1. CheckCommit(c, qc) = Commit(c, b) /\ b \in c.blocks
    BY <1>1 DEF CheckCommit
  <2>2. \A y \in c.committed : Height(y) # Height(b)
    BY <1>1 DEF IsCommitted
  <2>3. Height(b) # 0
    BY <2>1, <2>2 DEF Good, Backed
  <2>4. PICK q \in c.qcs : q.block = b /\ qc.view = q.view + 1
    BY <1>1, <2>3 DEF ConsecutiveViews
  <2>5. q \in QCs /\ CertifiedBy(S, q)
    BY DEF Good, Contexts, Backed
  <2>6. qc.view \in Nat /\ q.view \in Nat
    BY <2>5, BoundsAssumption DEF QCs, Views
  <2>7. CertifiedBy(S, [view |-> qc.view - 1, block |-> b])
    <3>1. q.view = qc.view - 1 /\ q.block = b
      BY <2>4, <2>6
    <3> QED
      BY <2>5, <3>1 DEF CertifiedBy
  <2>8. PICK r \in Replicas : [view |-> qc.view, block |-> qc.block, voter |-> r] \in S
    BY CertifiedVoted
  <2>9. TwoChain(S, b)
    <3> DEFINE x == [view |-> qc.view, block |-> qc.block, voter |-> r]
    <3>1. x \in S /\ Parent(x.block) = b /\ x.view = qc.view
      BY <2>8
    <3>2. CertifiedBy(S, x)
      BY DEF CertifiedBy
    <3>3. x.view > 0 /\ CertifiedBy(S, [view |-> x.view - 1, block |-> b])
      BY <3>1, <2>4, <2>6, <2>7
    <3> QED
      BY <3>1, <3>2, <3>3 DEF TwoChain
  <2>10. Commit(c, b).committed = {x \in c.committed : Height(x) # Height(b)} \cup {b}
    BY DEF Commit, Good, Contexts
  <2> HIDE DEF b
  <2>11. Commit(c, b).committed = c.committed \cup {b}
    BY <2>2, <2>10
  <2> QED
    BY <2>1, <2>2, <2>9, <2>11 DEF AddsOne
<1>2. CASE CheckCommit(c, qc) = c
  BY <1>2 DEF AddsOne
<1> QED
  BY <1>1, <1>2 DEF CheckCommit

LEMMA FormQCAddsOne ==
  ASSUME NEW S, NEW c, Good(S, c), NEW qc \in QCs, CertifiedBy(S, qc)
  PROVE  AddsOne(S, c, FormQC(c, qc))
<1> DEFINE c1 == AddQC(c, qc)
           c2 == UpdateHighQC(c1, qc)
           c3 == UpdateLockedQC(c2, qc)
<1>1. Good(S, c1) /\ c1.committed = c.committed
  BY AddQCGood, OperationsKeepLedger DEF Good
<1> HIDE DEF c1
<1>2. Good(S, c2) /\ c2.committed = c1.committed
  BY <1>1, UpdateHighQCGood, OperationsKeepLedger DEF Good
<1> HIDE DEF c2
<1>3. Good(S, c3) /\ c3.committed = c2.committed
  BY <1>2, UpdateLockedQCGood, OperationsKeepLedger DEF Good
<1> HIDE DEF c3
<1>4. AddsOne(S, c3, CheckCommit(c3, qc))
  BY <1>3, CheckCommitAddsOne
<1>5. FormQC(c, qc) = CheckCommit(c3, qc)
  BY DEF FormQC, c1, c2, c3
<1> QED
  BY <1>1, <1>2, <1>3, <1>4, <1>5 DEF AddsOne

LEMMA CountVoteLedger ==
  ASSUME NEW S, NEW c, Good(S, c), NEW r \in Replicas, NEW v \in Views, NEW b \in Blocks,
         NEW voter \in Replicas, [view |-> v, block |-> b, voter |-> voter] \in S
  PROVE  AddsOne(S, c, CountVote(r, c, v, b, voter).ctx)
<1> DEFINE x == [view |-> v, block |-> b, voter |-> voter]
           c1 == AddVote(c, x)
           qc == [view |-> v, block |-> b]
<1>1. Good(S, c1) /\ c1.committed = c.committed
  <2>1. x \in Votes
    BY DEF Votes
  <2> QED
    BY <2>1, AddVoteGood, OperationsKeepLedger DEF Good
<1>2. CountVote(r, c, v, b, voter).ctx = TryFormQC(c1, v, b)
  BY DEF CountVote, Only
<1> HIDE DEF x, c1
<1>3. AddsOne(S, c1, TryFormQC(c1, v, b))
  <2>1. CASE QuorumReached(c1, v, b)
    <3>1. qc \in QCs
      BY DEF QCs
    <3>2. CertifiedBy(S, qc)
      <4> DEFINE A == Voters(c1, v, b)
                 B == {q \in Replicas : [view |-> qc.view, block |-> qc.block, voter |-> q] \in S}
      <4>1. A \subseteq B /\ B \in SUBSET Replicas
        BY <1>1 DEF Voters, Good, Backed
      <4>2. IsQuorum(A)
        BY <2>1 DEF QuorumReached
      <4> HIDE DEF A, B
      <4>3. IsQuorum(B)
        BY <4>1, <4>2, QuorumMonotone
      <4> QED
        BY <4>3 DEF CertifiedBy, B
    <3>3. TryFormQC(c1, v, b) = FormQC(c1, qc)
      BY <2>1 DEF TryFormQC
    <3> QED
      BY <1>1, <3>1, <3>2, <3>3, FormQCAddsOne
  <2>2. CASE ~QuorumReached(c1, v, b)
    BY <2>2 DEF TryFormQC, AddsOne
  <2> QED
    BY <2>1, <2>2
<1> QED
  BY <1>1, <1>2, <1>3 DEF AddsOne

-----------------------------------------------------------------------------
(* What effects do to them *)

\* An effect on a context with the same ledger.
LEMMA SameLedger ==
  ASSUME NEW r, NEW S, NEW c, NEW d, d.committed = c.committed, NEW e, LedgerEffect(r, S, d, e)
  PROVE  LedgerEffect(r, S, c, e)
  BY DEF LedgerEffect, AddsOne

LEMMA OnlyLedger ==
  ASSUME NEW r, NEW S, NEW c, NEW d, d.committed = c.committed, NEW t
  PROVE  /\ LedgerEffect(r, S, c, Only(d))
         /\ LedgerEffect(r, S, c, [Only(d) EXCEPT !.started = t])
  BY DEF LedgerEffect, CastsOne, AddsOne, Only

\* A vote is counted in where it is cast.
LEMMA CastLedger ==
  ASSUME NEW S, NEW c, Good(S, c), NEW r \in Replicas, NEW v \in Views, NEW b \in Blocks,
         ParentCertified(S, b), NEW sent
  PROVE  LedgerEffect(r, S, c, [CountVote(r, c, v, b, r) EXCEPT
                                  !.sent = sent, !.cast = {[view |-> v, block |-> b, voter |-> r]}])
<1> DEFINE x == [view |-> v, block |-> b, voter |-> r]
           T == S \cup {x}
           e == CountVote(r, c, v, b, r)
           f == [e EXCEPT !.sent = sent, !.cast = {x}]
<1>1. Good(T, c) /\ x \in T
  BY GoodMonotone
<1> HIDE DEF T
<1>2. e \in Effects
  BY <1>1, CountVoteGood
<1>3. AddsOne(T, c, e.ctx)
  BY <1>1, CountVoteLedger
<1> HIDE DEF e
<1>4. f.cast = {x} /\ f.ctx = e.ctx
  BY <1>2 DEF Effects
<1>5. LedgerEffect(r, S, c, f)
  BY <1>3, <1>4 DEF LedgerEffect, CastsOne, T
<1> QED
  BY <1>5 DEF f, e

LEMMA ProposeLedger ==
  ASSUME NEW S, NEW c, Good(S, c), NEW r \in Replicas, NEW v \in Views,
         NEW justify \in QCs \cup {NoQC}, justify # NoQC => CertifiedBy(S, justify),
         NEW b \in NewBlocks(r, c, justify)
  PROVE  LedgerEffect(r, S, c, Propose(r, c, v, justify, b))
<1> DEFINE c1 == AddBlock(c, b)
<1>1. ParentOf(justify) \in Blocks \cup {NoBlock}
  BY DEF ParentOf, QCs
<1>2. NextHeight(c, justify) \in {1} \cup {Height(a) + 1 : a \in Blocks}
  BY DEF NextHeight, Good, Contexts
<1>3. b \in Blocks /\ Height(b) = NextHeight(c, justify) /\ Parent(b) = ParentOf(justify)
  BY <1>1, <1>2, CreateBlockAssumption DEF NewBlocks
<1>4. Height(b) > 0
  BY <1>2, <1>3, BlocksAssumption
<1>5. ParentCertified(S, b)
  BY <1>3, ParentCertifiedByQC
<1>6. Good(S, c1) /\ c1.committed = c.committed
  BY <1>3, <1>4, AddBlockGood, OperationsKeepLedger DEF Good
<1> HIDE DEF c1
<1>7. LedgerEffect(r, S, c1, Propose(r, c, v, justify, b))
  BY <1>3, <1>5, <1>6, CastLedger DEF Propose, c1
<1> QED
  BY <1>6, <1>7, SameLedger

LEMMA ProposalsOnNewViewsLedger ==
  ASSUME NEW S, NEW c, Good(S, c), NEW r \in Replicas, NEW v \in Views,
         NEW p \in ProposalsOnNewViews(r, c, v)
  PROVE  LedgerEffect(r, S, c, p)
<1>1. PICK q \in Justifications(c, v) : \E b \in NewBlocks(r, c, q) : p = Propose(r, c, v, q, b)
  BY DEF ProposalsOnNewViews
<1>2. PICK b \in NewBlocks(r, c, q) : p = Propose(r, c, v, q, b)
  BY <1>1
<1>3. q \in QCs \cup {NoQC} /\ (q # NoQC => CertifiedBy(S, q))
  <2>1. q = c.highQC \/ q \in HighestQCFromNewViews(c, v)
    BY <1>1 DEF Justifications
  <2>2. c.highQC \in QCs \cup {NoQC} /\ (c.highQC # NoQC => CertifiedBy(S, c.highQC))
    BY DEF Good, Contexts, Backed
  <2> QED
    BY <2>1, <2>2, HighestQCGood
<1> QED
  BY <1>2, <1>3, ProposeLedger

\* The second effect decides.
LEMMA ThenLedger ==
  ASSUME NEW r, NEW S, NEW c, NEW e, NEW p \in Effects, LedgerEffect(r, S, c, p)
  PROVE  LedgerEffect(r, S, c, Then(e, p))
<1>1. Then(e, p).cast = p.cast /\ Then(e, p).ctx = p.ctx
  BY DEF Then, Effects
<1> QED
  BY <1>1 DEF LedgerEffect, CastsOne

LEMMA SyncByProposalLedger ==
  ASSUME NEW c \in Contexts, NEW m \in Messages
  PROVE  SyncByProposal(c, m).committed = c.committed
<1> DEFINE c1 == SetView(c, m.view)
           c2 == UpdateHighQC(c1, m.qc)
<1>1. CASE m.qc = NoQC
  BY <1>1 DEF SyncByProposal
<1>2. CASE m.qc # NoQC
  <2>1. m.qc \in QCs /\ m.view \in Views
    BY <1>2 DEF Messages
  <2>2. c1 \in Contexts /\ c1.committed = c.committed
    BY <2>1, OperationsKeepLedger DEF SetView, Contexts
  <2> HIDE DEF c1
  <2>3. c2 \in Contexts /\ c2.committed = c1.committed
    BY <2>1, <2>2, OperationsKeepLedger DEF UpdateHighQC, Contexts
  <2> HIDE DEF c2
  <2>4. AddQC(c2, m.qc).committed = c2.committed
    BY <2>3, OperationsKeepLedger
  <2>5. SyncByProposal(c, m) \in {c, c1, AddQC(c2, m.qc)}
    BY DEF SyncByProposal, c1, c2
  <2> QED
    BY <2>2, <2>3, <2>4, <2>5
<1> QED
  BY <1>1, <1>2

LEMMA LockLedger ==
  ASSUME NEW c \in Contexts, NEW qc \in QCs \cup {NoQC}
  PROVE  Lock(c, qc).committed = c.committed
<1> DEFINE c1 == AddQC(c, qc)
<1>1. CASE qc = NoQC
  BY <1>1 DEF Lock
<1>2. CASE qc # NoQC
  <2>1. c1 \in Contexts /\ c1.committed = c.committed
    BY <1>2, OperationsKeepLedger DEF AddQC, Contexts
  <2>2. Lock(c, qc) = UpdateLockedQC(c1, qc)
    BY <1>2 DEF Lock
  <2> HIDE DEF c1
  <2> QED
    BY <2>1, <2>2, OperationsKeepLedger
<1> QED
  BY <1>1, <1>2

LEMMA VoteForLedger ==
  ASSUME NEW S, NEW c, Good(S, c), NEW r \in Replicas,
         NEW m \in Messages, GoodMessage(S, m), m.type = "PROPOSE"
  PROVE  LedgerEffect(r, S, c, VoteFor(r, c, m))
<1> DEFINE c1 == Lock(c, m.qc)
<1>1. /\ m.view \in Views /\ m.block \in Blocks
      /\ m.qc \in QCs \cup {NoQC} /\ (m.qc # NoQC => CertifiedBy(S, m.qc))
      /\ ParentCertified(S, m.block)
  BY ProposalContents
<1>2. Good(S, c1) /\ c1.committed = c.committed
  BY <1>1, LockGood, LockLedger DEF Good
<1> HIDE DEF c1
<1>3. LedgerEffect(r, S, c1, VoteFor(r, c, m))
  BY <1>1, <1>2, CastLedger DEF VoteFor, c1
<1> QED
  BY <1>2, <1>3, SameLedger

LEMMA EnterWithNewViewLedger ==
  ASSUME NEW r, NEW c \in Contexts, NEW v \in Views
  PROVE  /\ EnterWithNewView(r, c, v).ctx.committed = c.committed
         /\ EnterWithNewView(r, c, v).cast = {}
<1> DEFINE c1 == SetView(c, v)
           c2 == AddNewView(c1, v, r, c.highQC)
<1>1. c1 \in Contexts /\ c1.committed = c.committed
  BY OperationsKeepLedger DEF SetView, Contexts
<1>2. EnterWithNewView(r, c, v).ctx = c2 /\ EnterWithNewView(r, c, v).cast = {}
  BY DEF EnterWithNewView, Only
<1> HIDE DEF c1
<1> QED
  BY <1>1, <1>2, OperationsKeepLedger

LEMMA SyncByNewViewLedger ==
  ASSUME NEW S, NEW c, Good(S, c), NEW r \in Replicas, NEW m \in Messages, GoodMessage(S, m)
  PROVE  LET e == SyncByNewView(r, RecordNewView(c, m), m)
         IN  e.ctx.committed = c.committed /\ e.cast = {}
<1> DEFINE c1 == AddNewView(c, m.view, m.from, m.qc)
           c2 == UpdateHighQC(c1, m.qc)
           d == RecordNewView(c, m)
<1>1. /\ m.view \in Views /\ m.from \in Replicas /\ m.qc \in QCs \cup {NoQC}
      /\ m.qc # NoQC => CertifiedBy(S, m.qc)
  BY DEF Messages, GoodMessage
<1>2. Good(S, c1) /\ c1.committed = c.committed
  BY <1>1, AddNewViewGood, OperationsKeepLedger DEF Good
<1>3. d \in {c1, AddQC(c2, m.qc)} /\ (m.qc = NoQC => d = c1)
  BY DEF RecordNewView
<1>4. Good(S, d)
  BY RecordNewViewGood
<1> HIDE DEF c1, d
<1>5. d.committed = c.committed
  <2>1. CASE m.qc = NoQC
    BY <1>2, <1>3, <2>1
  <2>2. CASE m.qc # NoQC
    <3>1. Good(S, c2) /\ c2.committed = c1.committed
      BY <1>1, <1>2, <2>2, UpdateHighQCGood, OperationsKeepLedger DEF Good
    <3> HIDE DEF c2
    <3>2. AddQC(c2, m.qc).committed = c2.committed
      BY <3>1, OperationsKeepLedger DEF Good
    <3> QED
      BY <1>2, <1>3, <3>1, <3>2
  <2> QED
    BY <2>1, <2>2
<1>6. SyncByNewView(r, d, m) \in {EnterWithNewView(r, d, m.view), Only(d)}
  BY DEF SyncByNewView
<1>7. /\ EnterWithNewView(r, d, m.view).ctx.committed = d.committed
      /\ EnterWithNewView(r, d, m.view).cast = {}
  BY <1>1, <1>4, EnterWithNewViewLedger DEF Good
<1>8. Only(d).ctx.committed = d.committed /\ Only(d).cast = {}
  BY DEF Only
<1>9. LET e == SyncByNewView(r, d, m) IN e.ctx.committed = c.committed /\ e.cast = {}
  BY <1>5, <1>6, <1>7, <1>8
<1> QED
  BY <1>9 DEF d

\* An effect that signs nothing and leaves the ledger alone.
LEMMA IdleLedger ==
  ASSUME NEW r, NEW S, NEW c, NEW e, e.ctx.committed = c.committed, e.cast = {}
  PROVE  LedgerEffect(r, S, c, e)
  BY DEF LedgerEffect, CastsOne, AddsOne

-----------------------------------------------------------------------------
(* What steps do to them *)

\* A replica takes a step with an effect that Ledger allows.
LedgerStep(r) ==
  \E e : /\ LedgerEffect(r, signed, ctx[r], e)
         /\ ctx' = [ctx EXCEPT ![r] = e.ctx]
         /\ signed' = signed \cup e.cast

LEMMA LedgerStepRefines ==
  ASSUME IInv, NEW r \in Replicas, LedgerStep(r)
  PROVE  Committed!Step(r)
<1> DEFINE ledger == [q \in Replicas |-> ctx[q].committed]
           Ledger2 == [q \in Replicas |-> ctx'[q].committed]
<1>1. PICK e : /\ LedgerEffect(r, signed, ctx[r], e)
               /\ ctx' = [ctx EXCEPT ![r] = e.ctx]
               /\ signed' = signed \cup e.cast
  BY DEF LedgerStep
<1>2. ctx'[r] = e.ctx /\ \A q \in Replicas \ {r} : ctx'[q] = ctx[q]
  BY <1>1 DEF IInv, TypeOK
<1>3. signed' = signed \/ Committed!Vote(r)
  <2>1. CASE e.cast = {}
    BY <1>1, <2>1
  <2>2. CASE e.cast # {}
    <3>1. PICK v \in Views, b \in Blocks :
            /\ e.cast = {[view |-> v, block |-> b, voter |-> r]}
            /\ ParentCertified(signed, b)
      BY <1>1, <2>2 DEF LedgerEffect, CastsOne
    <3>2. signed' = signed \cup {Committed!Voted(r, v, b)}
      BY <1>1, <3>1 DEF Committed!Voted
    <3>3. \/ Parent(b) = NoBlock
          \/ \E x \in signed : x.block = Parent(b) /\ Committed!CertifiedBy(signed, x)
      BY <3>1 DEF ParentCertified, CertifiedBy, Committed!CertifiedBy, Committed!Certified,
                  Committed!Voted
    <3> QED
      BY <3>2, <3>3 DEF Committed!Vote
  <2> QED
    BY <2>1, <2>2
<1>4. Ledger2 = ledger \/ Committed!Enter(r)
  <2>1. CASE e.ctx.committed = ctx[r].committed
    BY <1>2, <2>1
  <2>2. CASE e.ctx.committed # ctx[r].committed
    <3>1. PICK b : /\ \A y \in ctx[r].committed : Height(y) # Height(b)
                   /\ e.ctx.committed = ctx[r].committed \cup {b}
                   /\ TwoChain(signed', b)
      BY <1>1, <2>2 DEF LedgerEffect, AddsOne
    <3>2. PICK x \in signed' :
            /\ Parent(x.block) = b
            /\ CertifiedBy(signed', x)
            /\ x.view > 0
            /\ CertifiedBy(signed', [view |-> x.view - 1, block |-> b])
      BY <3>1 DEF TwoChain
    <3>3. /\ Committed!CertifiedBy(signed', x)
          /\ Committed!Certified(signed', x.view - 1, Parent(x.block))
      BY <3>2 DEF CertifiedBy, Committed!CertifiedBy, Committed!Certified, Committed!Voted
    <3>4. \A y \in ledger[r] : Height(y) # Height(Parent(x.block))
      BY <3>1, <3>2
    <3>5. Ledger2 = [ledger EXCEPT ![r] = ledger[r] \cup {Parent(x.block)}]
      BY <1>2, <3>1, <3>2
    <3> QED
      BY <3>2, <3>3, <3>4, <3>5 DEF Committed!Enter
  <2> QED
    BY <2>1, <2>2
<1> QED
  BY <1>3, <1>4 DEF Committed!Step

LEMMA ConsumeLedger ==
  ASSUME NEW r, NEW m, NEW e, LedgerEffect(r, signed, ctx[r], e), Consume(r, m, e)
  PROVE  LedgerStep(r)
  BY DEF Consume, LedgerStep

LEMMA RunLedger ==
  ASSUME NEW r, NEW t, NEW e, LedgerEffect(r, signed, ctx[r], e), Run(r, t, e)
  PROVE  LedgerStep(r)
  BY DEF Run, LedgerStep

\* The handlers of a proposal that do not vote.
LEMMA NoVoteLedger ==
  ASSUME IInv, NEW r \in Replicas,
         IgnoreProposal(r) \/ DeferProposal(r) \/ RejectProposal(r)
  PROVE  LedgerStep(r)
<1> DEFINE c(m) == SyncByProposal(ctx[r], m)
           d(m) == AddBlock(c(m), m.block)
<1>1. PICK m \in Received(r, "PROPOSE") : Consume(r, m, Only(c(m))) \/ Consume(r, m, Only(d(m)))
  BY DEF IgnoreProposal, DeferProposal, RejectProposal
<1>2. m \in inbox[r]
  BY DEF Received
<1>3. Good(signed, ctx[r]) /\ m \in Messages /\ GoodMessage(signed, m)
  BY <1>2, Delivered
<1>4. Good(signed, c(m)) /\ c(m).committed = ctx[r].committed
  BY <1>3, SyncByProposalGood, SyncByProposalLedger DEF Good
<1> HIDE DEF c
<1>5. d(m).committed = c(m).committed
  BY <1>4, OperationsKeepLedger DEF Good
<1> HIDE DEF d
<1>6. /\ LedgerEffect(r, signed, ctx[r], Only(c(m)))
      /\ LedgerEffect(r, signed, ctx[r], Only(d(m)))
  BY <1>4, <1>5, OnlyLedger
<1> QED
  BY <1>1, <1>6, ConsumeLedger

LEMMA VoteForProposalLedger ==
  ASSUME IInv, NEW r \in Replicas, VoteForProposal(r)
  PROVE  LedgerStep(r)
<1> DEFINE c(m) == SyncByProposal(ctx[r], m)
           d(m) == AddBlock(c(m), m.block)
<1>1. PICK m \in Received(r, "PROPOSE") : Consume(r, m, VoteFor(r, d(m), m))
  BY DEF VoteForProposal
<1>2. m \in inbox[r] /\ m.type = "PROPOSE"
  BY DEF Received
<1>3. Good(signed, ctx[r]) /\ m \in Messages /\ GoodMessage(signed, m)
  BY <1>2, Delivered
<1>4. Good(signed, c(m)) /\ c(m).committed = ctx[r].committed
  BY <1>3, SyncByProposalGood, SyncByProposalLedger DEF Good
<1>5. Good(signed, d(m))
  BY <1>2, <1>3, StoreProposalGood
<1> HIDE DEF c
<1>6. d(m).committed = c(m).committed
  BY <1>4, OperationsKeepLedger DEF Good
<1> HIDE DEF d
<1>7. LedgerEffect(r, signed, d(m), VoteFor(r, d(m), m))
  BY <1>2, <1>3, <1>5, VoteForLedger
<1>8. LedgerEffect(r, signed, ctx[r], VoteFor(r, d(m), m))
  BY <1>4, <1>6, <1>7, SameLedger
<1> QED
  BY <1>1, <1>8, ConsumeLedger

LEMMA ReceiveVoteLedger ==
  ASSUME IInv, NEW r \in Replicas, ReceiveVote(r)
  PROVE  LedgerStep(r)
<1> DEFINE e(m) == CountVote(r, ctx[r], m.view, m.block, m.from)
<1>1. PICK m \in Received(r, "VOTE") : Consume(r, m, e(m))
  BY DEF ReceiveVote
<1>2. m \in inbox[r] /\ m.type = "VOTE"
  BY DEF Received
<1>3. Good(signed, ctx[r]) /\ m \in Messages /\ GoodMessage(signed, m)
  BY <1>2, Delivered
<1>4. /\ m.view \in Views /\ m.from \in Replicas /\ m.block \in Blocks
      /\ [view |-> m.view, block |-> m.block, voter |-> m.from] \in signed
  BY <1>2, <1>3 DEF Messages, GoodMessage
<1>5. AddsOne(signed \cup {}, ctx[r], e(m).ctx) /\ e(m).cast = {}
  BY <1>3, <1>4, CountVoteGood, CountVoteLedger
<1> HIDE DEF e
<1>6. LedgerEffect(r, signed, ctx[r], e(m))
  BY <1>5 DEF LedgerEffect, CastsOne
<1> QED
  BY <1>1, <1>6, ConsumeLedger

LEMMA ReceiveNewViewLedger ==
  ASSUME IInv, NEW r \in Replicas, ReceiveNewView(r)
  PROVE  LedgerStep(r)
<1> DEFINE e(m) == SyncByNewView(r, RecordNewView(ctx[r], m), m)
           back(m) == SetView(e(m).ctx, m.view)
<1>1. PICK m \in Received(r, "NEWVIEW") :
        \/ \E p \in ProposalsOnNewViews(r, back(m), m.view) : Consume(r, m, Then(e(m), p))
        \/ Consume(r, m, e(m))
  BY DEF ReceiveNewView
<1>2. m \in inbox[r]
  BY DEF Received
<1>3. Good(signed, ctx[r]) /\ m \in Messages /\ GoodMessage(signed, m)
  BY <1>2, Delivered
<1>4. e(m).ctx.committed = ctx[r].committed /\ e(m).cast = {}
  BY <1>3, SyncByNewViewLedger
<1>5. GoodEffect(signed, ctx[r], e(m)) /\ m.view \in Views
  BY <1>3, SyncByNewViewGood DEF Messages
<1> HIDE DEF e
<1>6. CASE Consume(r, m, e(m))
  BY <1>4, <1>6, IdleLedger, ConsumeLedger
<1>7. ASSUME NEW p \in ProposalsOnNewViews(r, back(m), m.view), Consume(r, m, Then(e(m), p))
      PROVE  LedgerStep(r)
  <2>1. Good(signed, e(m).ctx)
    <3>1. Good(signed \cup {}, e(m).ctx)
      BY <1>4, <1>5 DEF GoodEffect
    <3> QED
      BY <3>1, GoodMonotone
  <2>2. Good(signed, back(m)) /\ back(m).committed = ctx[r].committed
    BY <1>4, <1>5, <2>1, SetViewGood, OperationsKeepLedger DEF Good
  <2> HIDE DEF back
  <2>3. LedgerEffect(r, signed, ctx[r], p) /\ p \in Effects
    BY <1>5, <1>7, <2>2, ProposalsOnNewViewsLedger, ProposalsOnNewViewsGood, SameLedger
       DEF GoodEffect
  <2>4. LedgerEffect(r, signed, ctx[r], Then(e(m), p))
    BY <2>3, ThenLedger
  <2> QED
    BY <1>7, <2>4, ConsumeLedger
<1> QED
  BY <1>1, <1>6, <1>7

LEMMA TimeoutLedger ==
  ASSUME IInv, NEW r \in Replicas, Timeout(r)
  PROVE  LedgerStep(r)
<1> DEFINE v == ctx[r].view + 1
           c1 == PruneVotes(ctx[r], v)
           e == EnterWithNewView(r, c1, v)
<1>1. \/ \E p \in ProposalsOnNewViews(r, e.ctx, v) : Run(r, {}, Then(e, p))
      \/ Run(r, {}, e)
  BY DEF Timeout
<1>2. Good(signed, ctx[r]) /\ ctx[r].view \in Views
  BY DEF IInv, TypeOK, Contexts
<1>3. v \in Views
  BY <1>2, BoundsAssumption DEF Timeout, Views
<1> HIDE DEF v
<1>4. Good(signed, c1) /\ c1.committed = ctx[r].committed
  BY <1>2, <1>3, PruneVotesGood, OperationsKeepLedger DEF Good
<1> HIDE DEF c1
<1>5. e.ctx.committed = ctx[r].committed /\ e.cast = {}
  BY <1>3, <1>4, EnterWithNewViewLedger DEF Good
<1>6. GoodEffect(signed, c1, e)
  BY <1>3, <1>4, EnterWithNewViewGood
<1> HIDE DEF e
<1>7. CASE Run(r, {}, e)
  BY <1>5, <1>7, IdleLedger, RunLedger
<1>8. ASSUME NEW p \in ProposalsOnNewViews(r, e.ctx, v), Run(r, {}, Then(e, p))
      PROVE  LedgerStep(r)
  <2>1. Good(signed, e.ctx)
    <3>1. Good(signed \cup {}, e.ctx)
      BY <1>5, <1>6 DEF GoodEffect
    <3> QED
      BY <3>1, GoodMonotone
  <2>2. LedgerEffect(r, signed, ctx[r], p) /\ p \in Effects
    BY <1>3, <1>5, <1>8, <2>1, ProposalsOnNewViewsLedger, ProposalsOnNewViewsGood, SameLedger
       DEF GoodEffect
  <2>3. LedgerEffect(r, signed, ctx[r], Then(e, p))
    BY <2>2, ThenLedger
  <2> QED
    BY <1>8, <2>3, RunLedger
<1> QED
  BY <1>1, <1>7, <1>8

\* The goroutines up to the proposal.
LEMMA GoroutineLedger ==
  ASSUME IInv, NEW r \in Replicas, AdvanceViewWithQC(r) \/ StartPropose(r)
  PROVE  LedgerStep(r)
<1>1. Good(signed, ctx[r])
  BY DEF IInv
<1>2. CASE AdvanceViewWithQC(r)
  <2> DEFINE c1(t) == SetView(ctx[r], t.view)
             c2(t) == PruneVotes(c1(t), t.view)
             e(t) == [Only(c2(t)) EXCEPT !.started = {[kind |-> "propose", view |-> 0]}]
  <2>1. PICK t \in tasks[r] : Run(r, {t}, e(t))
    BY <1>2 DEF AdvanceViewWithQC
  <2>2. t.view \in Views
    BY DEF IInv, TypeOK, Tasks
  <2>3. Good(signed, c1(t)) /\ c1(t).committed = ctx[r].committed
    BY <1>1, <2>2, SetViewGood, OperationsKeepLedger DEF Good
  <2> HIDE DEF c1
  <2>4. c2(t).committed = c1(t).committed
    BY <2>3, OperationsKeepLedger DEF Good
  <2> HIDE DEF c2
  <2>5. LedgerEffect(r, signed, ctx[r], e(t))
    BY <2>3, <2>4, OnlyLedger
  <2> HIDE DEF e
  <2> QED
    BY <2>1, <2>5, RunLedger
<1>3. CASE StartPropose(r)
  <2> DEFINE next == IF Leader(ctx[r].view) = r
                     THEN {[kind |-> "create", view |-> ctx[r].view]}
                     ELSE {}
             e == [Only(ctx[r]) EXCEPT !.started = next]
  <2>1. PICK t \in tasks[r] : Run(r, {t}, e)
    BY <1>3 DEF StartPropose
  <2> HIDE DEF next
  <2>2. LedgerEffect(r, signed, ctx[r], e)
    BY OnlyLedger
  <2> HIDE DEF e
  <2> QED
    BY <2>1, <2>2, RunLedger
<1> QED
  BY <1>2, <1>3

LEMMA FinishProposeLedger ==
  ASSUME IInv, NEW r \in Replicas, FinishPropose(r)
  PROVE  LedgerStep(r)
<1> DEFINE justify == ctx[r].highQC
           e(t, b) == Propose(r, ctx[r], t.view, justify, b)
<1>1. PICK t \in tasks[r], b \in NewBlocks(r, ctx[r], justify) : Run(r, {t}, e(t, b))
  BY DEF FinishPropose
<1>2. Good(signed, ctx[r]) /\ t.view \in Views
  BY DEF IInv, TypeOK, Tasks
<1>3. justify \in QCs \cup {NoQC} /\ (justify # NoQC => CertifiedBy(signed, justify))
  BY <1>2 DEF Good, Contexts, Backed
<1> HIDE DEF justify
<1>4. LedgerEffect(r, signed, ctx[r], e(t, b))
  BY <1>2, <1>3, ProposeLedger
<1> HIDE DEF e
<1> QED
  BY <1>1, <1>4, RunLedger

LEMMA NextLedger ==
  ASSUME IInv, NEW r \in Replicas,
         \/ IgnoreProposal(r) \/ DeferProposal(r) \/ RejectProposal(r)
         \/ VoteForProposal(r)
         \/ ReceiveVote(r)
         \/ ReceiveNewView(r)
         \/ Timeout(r)
         \/ AdvanceViewWithQC(r) \/ StartPropose(r)
         \/ FinishPropose(r)
  PROVE  LedgerStep(r)
  BY NoVoteLedger, VoteForProposalLedger, ReceiveVoteLedger, ReceiveNewViewLedger,
     TimeoutLedger, GoroutineLedger, FinishProposeLedger

-----------------------------------------------------------------------------
(* The refinement *)

LEMMA InitRefines == Init => Committed!Init
  BY DEF Init, NewContext, Committed!Init

\* For every number of validators, whatever is lost, late or repeated, each
\* step of the replicas is a vote on a certified parent, the entry of a block
\* with a two-chain in an open place of one ledger, both, or neither
\* (hotstuff2.go:317-384, 519-589).
THEOREM ImplementsTheLedger == Spec => ImplementsLedger
<1> DEFINE ledger == [r \in Replicas |-> ctx[r].committed]
<1>1. IInv /\ [Next]_vars => [Committed!Next]_<<signed, ledger>>
  <2> SUFFICES ASSUME IInv, [Next]_vars
               PROVE  [Committed!Next]_<<signed, ledger>>
    OBVIOUS
  <2>1. CASE Next
    <3>1. PICK r \in Replicas : LedgerStep(r)
      BY <2>1, NextLedger DEF Next
    <3>2. Committed!Step(r)
      BY <3>1, LedgerStepRefines
    <3> QED
      BY <3>2 DEF Committed!Next
  <2>2. CASE UNCHANGED vars
    BY <2>2 DEF vars
  <2> QED
    BY <2>1, <2>2
<1> QED
  BY <1>1, InitRefines, InductiveInvariant, PTL DEF Spec, ImplementsLedger, Committed!Spec

-----------------------------------------------------------------------------
(* Commits *)

OnTwoChains ==
  \A r \in Replicas : /\ Genesis \in ctx[r].committed
                      /\ \A b \in ctx[r].committed \ {Genesis} : TwoChain(signed, b)

LEMMA TwoChainMonotone ==
  ASSUME NEW S, NEW T, S \subseteq T, NEW b, TwoChain(S, b)
  PROVE  TwoChain(T, b)
  BY CertifiedMonotone DEF TwoChain

LEMMA CommitsOnTwoChains == Spec => []OnTwoChains
<1>1. Init => OnTwoChains
  BY DEF Init, NewContext, OnTwoChains
<1>2. IInv /\ OnTwoChains /\ [Next]_vars => OnTwoChains'
  <2> SUFFICES ASSUME IInv, OnTwoChains, [Next]_vars
               PROVE  OnTwoChains'
    OBVIOUS
  <2>1. CASE UNCHANGED vars
    BY <2>1 DEF vars, OnTwoChains
  <2>2. CASE Next
    <3>1. PICK r \in Replicas : LedgerStep(r)
      BY <2>2, NextLedger DEF Next
    <3>2. PICK e : /\ LedgerEffect(r, signed, ctx[r], e)
                   /\ ctx' = [ctx EXCEPT ![r] = e.ctx]
                   /\ signed' = signed \cup e.cast
      BY <3>1 DEF LedgerStep
    <3>3. ctx'[r] = e.ctx /\ \A q \in Replicas \ {r} : ctx'[q] = ctx[q]
      BY <3>2 DEF IInv, TypeOK
    <3>4. AddsOne(signed', ctx[r], ctx'[r])
      BY <3>2, <3>3 DEF LedgerEffect
    <3>5. \A b : TwoChain(signed, b) => TwoChain(signed', b)
      BY <3>2, TwoChainMonotone
    <3>6. /\ Genesis \in ctx'[r].committed
          /\ \A b \in ctx'[r].committed \ {Genesis} : TwoChain(signed', b)
      BY <3>4, <3>5 DEF AddsOne, OnTwoChains
    <3> QED
      BY <3>3, <3>5, <3>6 DEF OnTwoChains
  <2> QED
    BY <2>1, <2>2
<1> QED
  BY <1>1, <1>2, InductiveInvariant, PTL DEF Spec

\* A replica commits a block only when quorums signed it and a child of it in
\* consecutive views (CanCommit, context.go:397-432), however the QCs, votes
\* and proposals that tell it so were ordered.
THEOREM CommitsNeedTwoChains == Spec => []CommitNeedsTwoChain
<1>1. OnTwoChains => CommitNeedsTwoChain
  <2> SUFFICES ASSUME OnTwoChains, NEW r \in Replicas, NEW b \in ctx[r].committed \ {Genesis}
               PROVE  \E x \in signed : /\ Parent(x.block) = b
                                        /\ Certified(x.view, x.block)
                                        /\ x.view > 0 /\ Certified(x.view - 1, b)
    BY DEF CommitNeedsTwoChain
  <2>1. TwoChain(signed, b)
    BY DEF OnTwoChains
  <2>2. PICK x \in signed : /\ Parent(x.block) = b
                            /\ CertifiedBy(signed, x)
                            /\ x.view > 0
                            /\ CertifiedBy(signed, [view |-> x.view - 1, block |-> b])
    BY <2>1 DEF TwoChain
  <2>3. Certified(x.view, x.block)
    BY <2>2, CertifiedByFields
  <2>4. Certified(x.view - 1, b)
    BY <2>2, CertifiedIsBy
  <2> QED
    BY <2>2, <2>3, <2>4
<1> QED
  BY <1>1, CommitsOnTwoChains, PTL
=============================================================================
