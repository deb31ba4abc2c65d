------------------------------ MODULE HotStuff2 ------------------------------
(***************************************************************************)
(* The replicas of HotStuff-2 and the network between them (hotstuff2.go). *)
(* A replica is one message loop, whose handlers run to completion one at  *)
(* a time, and the goroutines the handlers start: advanceViewWithQC and    *)
(* propose.  A handler is a function from the replica's context to an      *)
(* effect: the new context, the messages it broadcasts, the votes it signs *)
(* and the goroutines it starts.  propose takes two steps, since between   *)
(* reading the view and reading the highest QC it may sleep for the        *)
(* minimum block time while the message loop goes on.                      *)
(*                                                                         *)
(* All replicas are honest: they send what these handlers send.  A vote is *)
(* verified where it is received (399), but a QC in a proposal or a NEWVIEW*)
(* is used as it comes (257-271, 331-346, 635-639): Validate is only called*)
(* on a QC the replica has formed itself (459).                            *)
(*                                                                         *)
(* Not represented here: durable storage (none of the repository's storages*)
(* ever fails a write), the pacemaker's durations (a timer may fire at any *)
(* time), hooks and logging.                                               *)
(***************************************************************************)
EXTENDS Context

CONSTANTS
  CreateBlock(_, _, _), \* blocks Executor.CreateBlock may return for a
                        \* height, a parent and a proposer
  Redelivery,   \* types of messages the network may deliver again
  MinBlockTime, \* whether the pacemaker enforces a minimum block time
  StrictVerify, \* whether Executor.Verify checks the height of a block
  Lost,         \* bound: <<type, view, to>> of messages never delivered
  Timers        \* bound: <<replica, view>> whose view timer may fire

ASSUME CreateBlockAssumption ==
  \A h \in {1} \cup {Height(b) + 1 : b \in Blocks} :
    \A p \in Blocks \cup {NoBlock}, r \in Replicas :
      \A b \in CreateBlock(h, p, r) : b \in Blocks /\ Height(b) = h /\ Parent(b) = p

ASSUME OptionsAssumption ==
  {MinBlockTime, StrictVerify} \subseteq BOOLEAN

VARIABLES
  ctx,      \* ctx[r]: the context of replica r
  inbox,    \* inbox[r]: messages sent to r and not consumed
  tasks,    \* tasks[r]: goroutines of r that have not run yet
  signed    \* history: every vote ever signed

vars == <<ctx, inbox, tasks, signed>>

Messages ==
  [ type  : {"PROPOSE", "VOTE", "NEWVIEW"},
    from  : Replicas,
    view  : Views,
    block : Blocks \cup {NoBlock},
    qc    : QCs \cup {NoQC} ]

ProposeMessage(r, v, b, justify) ==
  [type |-> "PROPOSE", from |-> r, view |-> v, block |-> b, qc |-> justify]

VoteMessage(r, v, b) ==
  [type |-> "VOTE", from |-> r, view |-> v, block |-> b, qc |-> NoQC]

NewViewMessage(r, v, qc) ==
  [type |-> "NEWVIEW", from |-> r, view |-> v, block |-> NoBlock, qc |-> qc]

\* Goroutines: advanceViewWithQC(view); propose, before it reads the view
\* (the view of the record is then 0); propose, once it has read view.
Tasks == [kind : {"advance", "propose", "create"}, view : Views]

Effects ==
  [ ctx : Contexts, sent : SUBSET Messages, cast : SUBSET Votes,
    started : SUBSET Tasks ]

\* An effect that only changes the context.
Only(c) == [ctx |-> c, sent |-> {}, cast |-> {}, started |-> {}]

-----------------------------------------------------------------------------
(* Forming QCs and committing *)

\* Mutation: any earlier view will do.
AnyEarlierView(c, b, qc) == \E q \in c.qcs : q.block = b /\ qc.view > q.view

\* The block is certified in the view before qc's; genesis, which no QC
\* certifies, counts as certified in view 0.
ConsecutiveViews(c, b, qc) ==
  \/ \E q \in c.qcs : q.block = b /\ qc.view = q.view + 1
  \/ /\ \A q \in c.qcs : q.block # b
     /\ Height(b) = 0
     /\ qc.view = 1

\* Mutation: a QC commits the block it certifies.
CommitCertified(c, qc) ==
  IF qc.block \in c.blocks /\ ~IsCommitted(c, Height(qc.block)) THEN Commit(c, qc.block) ELSE c

\* The two-chain rule: a QC for a block commits the block's parent.
CheckCommit(c, qc) ==
  LET b == Parent(qc.block)
  IN  IF /\ {qc.block, b} \subseteq c.blocks
         /\ ~IsCommitted(c, Height(b))
         /\ ConsecutiveViews(c, b, qc)
      THEN Commit(c, b)
      ELSE c

FormQC(c, qc) ==
  CheckCommit(UpdateLockedQC(UpdateHighQC(AddQC(c, qc), qc), qc), qc)

\* Mutation: the vote being counted is counted twice.
QuorumReachedEarly(c, v, b) == Cardinality(Voters(c, v, b)) + 1 >= Quorum

QuorumReached(c, v, b) == IsQuorum(Voters(c, v, b))

\* The context after tryFormQCIfQuorum.
TryFormQC(c, v, b) ==
  IF QuorumReached(c, v, b) THEN FormQC(c, [view |-> v, block |-> b]) ELSE c

\* The goroutine tryFormQCIfQuorum starts, every time it finds a quorum, at
\* the leader of the next view.
AdvanceTasks(r, c, v, b) ==
  IF QuorumReached(c, v, b) /\ Leader(v + 1) = r /\ v < MaxView
  THEN {[kind |-> "advance", view |-> v + 1]}
  ELSE {}

\* Counting a vote in and forming a QC if that makes a quorum.
CountVote(r, c, v, b, voter) ==
  LET c1 == AddVote(c, [view |-> v, block |-> b, voter |-> voter])
  IN  [Only(TryFormQC(c1, v, b)) EXCEPT !.started = AdvanceTasks(r, c1, v, b)]

\* Both effects in turn, the second one started from the first one's context.
Then(e, e2) == [e2 EXCEPT !.sent = @ \cup e.sent]

-----------------------------------------------------------------------------
(* Proposing *)

ParentOf(justify) == IF justify = NoQC THEN NoBlock ELSE justify.block

\* One above the parent, or 1 when the parent is not known locally.
NextHeight(c, justify) ==
  IF ParentOf(justify) \in c.blocks THEN Height(ParentOf(justify)) + 1 ELSE 1

NewBlocks(r, c, justify) == CreateBlock(NextHeight(c, justify), ParentOf(justify), r)

\* Mutation: the leader does not vote.
ProposeOnly(r, c, v, justify, b) ==
  [Only(AddBlock(c, b)) EXCEPT !.sent = {ProposeMessage(r, v, b, justify)}]

\* Store the block, broadcast it and count the leader's own vote, which is
\* not broadcast.
Propose(r, c, v, justify, b) ==
  [CountVote(r, AddBlock(c, b), v, b, r) EXCEPT
     !.sent = {ProposeMessage(r, v, b, justify)},
     !.cast = {[view |-> v, block |-> b, voter |-> r]}]

\* The QC justifying a proposal made on a quorum of NEWVIEWs.
Justifications(c, v) ==
  LET highest == HighestQCFromNewViews(c, v)
  IN  IF highest = {NoQC} THEN {c.highQC} ELSE highest

\* proposeWithNewViewQuorum, with every choice it leaves open.
ProposalsOnNewViews(r, c, v) ==
  UNION {{Propose(r, c, v, q, b) : b \in NewBlocks(r, c, q)} : q \in Justifications(c, v)}

-----------------------------------------------------------------------------
(* Handling a proposal *)

\* A proposal of a later view whose QC is no older than ours moves us to its
\* view.  A nil highQC counts as view 0, so that a QC of view 0 is not taken.
SyncByProposal(c, m) ==
  IF m.qc # NoQC /\ m.view > c.view /\ m.qc.view >= QCView(c.highQC)
  THEN IF m.qc.view > QCView(c.highQC)
       THEN AddQC(UpdateHighQC(SetView(c, m.view), m.qc), m.qc)
       ELSE SetView(c, m.view)
  ELSE c

Verify(b) ==
  StrictVerify => Height(b) = IF Parent(b) = NoBlock THEN 1 ELSE Height(Parent(b)) + 1

\* Mutation: a second vote in a view is allowed.
MayVoteAgain(r, c, m) == m.view = c.view /\ Leader(m.view) # r /\ Verify(m.block)

MayVote(r, c, m) ==
  /\ m.view = c.view
  /\ Leader(m.view) # r
  /\ ~HasVoted(c, m.view, r)
  /\ Verify(m.block)

\* The justifying QC is stored.  As a mutation of Lock, the lock is left alone.
StoreQC(c, qc) == IF qc = NoQC THEN c ELSE AddQC(c, qc)

\* The justifying QC becomes the lock if it is of a higher view.
Lock(c, qc) == IF qc = NoQC THEN c ELSE UpdateLockedQC(AddQC(c, qc), qc)

VoteFor(r, c, m) ==
  [CountVote(r, Lock(c, m.qc), m.view, m.block, r) EXCEPT
     !.sent = {VoteMessage(r, m.view, m.block)},
     !.cast = {[view |-> m.view, block |-> m.block, voter |-> r]}]

-----------------------------------------------------------------------------
(* Handling a NEWVIEW *)

\* Mutation: a nil QC is stored like any other.
RecordNilQC(c, m) == AddQC(UpdateHighQC(AddNewView(c, m.view, m.from, m.qc), m.qc), m.qc)

RecordNewView(c, m) ==
  LET c1 == AddNewView(c, m.view, m.from, m.qc)
  IN  IF m.qc = NoQC THEN c1 ELSE AddQC(UpdateHighQC(c1, m.qc), m.qc)

\* Enter a view with a NEWVIEW for it, which also counts at the sender.
EnterWithNewView(r, c, v) ==
  [Only(AddNewView(SetView(c, v), v, r, c.highQC)) EXCEPT
     !.sent = {NewViewMessage(r, v, c.highQC)}]

SyncByNewView(r, c, m) ==
  IF m.qc # NoQC /\ m.view > c.view /\ m.qc.view >= QCView(c.highQC)
  THEN EnterWithNewView(r, c, m.view)
  ELSE Only(c)

\* The leader of v proposes in v when a quorum sent NEWVIEWs for v and it is
\* in v, or past v without having voted in v: it then goes back.
MayPropose(r, c, v) ==
  /\ Leader(v) = r
  /\ HasNewViewQuorum(c, v)
  /\ \/ v = c.view
     \/ v < c.view /\ ~HasVoted(c, v, r)

-----------------------------------------------------------------------------
(* Steps *)

\* r broadcasts msgs: everyone but the sender receives them.
Broadcast(box, r, msgs) ==
  [q \in Replicas |->
     IF q = r THEN box[q]
     ELSE box[q] \cup {m \in msgs : <<m.type, m.view, q>> \notin Lost}]

\* r has message m delivered and its handler has effect e.
Consume(r, m, e) ==
  /\ ctx' = [ctx EXCEPT ![r] = e.ctx]
  /\ inbox' = Broadcast([inbox EXCEPT ![r] = IF m.type \in Redelivery THEN @ ELSE @ \ {m}],
                        r, e.sent)
  /\ tasks' = [tasks EXCEPT ![r] = @ \cup e.started]
  /\ signed' = signed \cup e.cast

\* r runs the goroutine t, or its timer fires, with effect e.
Run(r, t, e) ==
  /\ ctx' = [ctx EXCEPT ![r] = e.ctx]
  /\ inbox' = Broadcast(inbox, r, e.sent)
  /\ tasks' = [tasks EXCEPT ![r] = (@ \ t) \cup e.started]
  /\ signed' = signed \cup e.cast

Received(r, type) == {m \in inbox[r] : m.type = type}

\* Not for the current view even after synchronising, ours as the leader,
\* a second one in the view, or not verified.
IgnoreProposal(r) ==
  \E m \in Received(r, "PROPOSE") :
    LET c == SyncByProposal(ctx[r], m)
    IN  ~MayVote(r, c, m) /\ Consume(r, m, Only(c))

\* Too soon after the last commit, of which there must have been one.
DeferProposal(r) ==
  \E m \in Received(r, "PROPOSE") :
    LET c == SyncByProposal(ctx[r], m)
    IN  /\ MinBlockTime
        /\ m.view = c.view
        /\ Cardinality(c.committed) > 1
        /\ Consume(r, m, Only(c))

\* The block is kept although the SafeNode rule forbids to vote for it.
RejectProposal(r) ==
  \E m \in Received(r, "PROPOSE") :
    LET c == SyncByProposal(ctx[r], m)
        stored == AddBlock(c, m.block)
    IN  /\ MayVote(r, c, m)
        /\ ~SafeToVote(stored, m.block, m.qc)
        /\ Consume(r, m, Only(stored))

VoteForProposal(r) ==
  \E m \in Received(r, "PROPOSE") :
    LET c == SyncByProposal(ctx[r], m)
        stored == AddBlock(c, m.block)
    IN  /\ MayVote(r, c, m)
        /\ SafeToVote(stored, m.block, m.qc)
        /\ Consume(r, m, VoteFor(r, stored, m))

ReceiveVote(r) ==
  \E m \in Received(r, "VOTE") :
    Consume(r, m, CountVote(r, ctx[r], m.view, m.block, m.from))

ReceiveNewView(r) ==
  \E m \in Received(r, "NEWVIEW") :
    LET e == SyncByNewView(r, RecordNewView(ctx[r], m), m)
    IN  IF MayPropose(r, e.ctx, m.view)
        THEN \E p \in ProposalsOnNewViews(r, SetView(e.ctx, m.view), m.view) :
               Consume(r, m, Then(e, p))
        ELSE Consume(r, m, e)

Timeout(r) ==
  /\ <<r, ctx[r].view>> \in Timers
  /\ ctx[r].view < MaxView
  /\ LET v == ctx[r].view + 1
         e == EnterWithNewView(r, PruneVotes(ctx[r], v), v)
     IN  IF MayPropose(r, e.ctx, v)
         THEN \E p \in ProposalsOnNewViews(r, e.ctx, v) : Run(r, {}, Then(e, p))
         ELSE Run(r, {}, e)

\* advanceViewWithQC: the view is set whatever it was, also backwards.
AdvanceViewWithQC(r) ==
  \E t \in tasks[r] :
    /\ t.kind = "advance"
    /\ Run(r, {t}, [Only(PruneVotes(SetView(ctx[r], t.view), t.view)) EXCEPT
                      !.started = {[kind |-> "propose", view |-> 0]}])

\* propose, up to reading the view.
StartPropose(r) ==
  \E t \in tasks[r] :
    /\ t.kind = "propose"
    /\ Run(r, {t}, [Only(ctx[r]) EXCEPT
                      !.started = IF Leader(ctx[r].view) = r
                                  THEN {[kind |-> "create", view |-> ctx[r].view]}
                                  ELSE {}])

\* propose, from reading the highest QC on.
FinishPropose(r) ==
  \E t \in tasks[r] :
    /\ t.kind = "create"
    /\ \E b \in NewBlocks(r, ctx[r], ctx[r].highQC) :
         Run(r, {t}, Propose(r, ctx[r], t.view, ctx[r].highQC, b))

Init ==
  /\ ctx = [r \in Replicas |-> NewContext(Genesis, NoQC)]
  /\ inbox = [r \in Replicas |-> {}]
  /\ tasks = [r \in Replicas |->
                IF Leader(0) = r THEN {[kind |-> "propose", view |-> 0]} ELSE {}]
  /\ signed = {}

Next ==
  \E r \in Replicas :
    \/ IgnoreProposal(r)
    \/ DeferProposal(r)
    \/ RejectProposal(r)
    \/ VoteForProposal(r)
    \/ ReceiveVote(r)
    \/ ReceiveNewView(r)
    \/ Timeout(r)
    \/ AdvanceViewWithQC(r)
    \/ StartPropose(r)
    \/ FinishPropose(r)

Spec == Init /\ [][Next]_vars

-----------------------------------------------------------------------------
(* Properties *)

\* Every variable keeps its type; in particular no handler stores a nil QC or
\* a nil block in the maps of a context.
TypeOK ==
  /\ ctx \in [Replicas -> Contexts]
  /\ inbox \in [Replicas -> SUBSET Messages]
  /\ tasks \in [Replicas -> SUBSET Tasks]
  /\ signed \in SUBSET Votes

\* The QCs held in a context; those held or carried by a message anywhere.
QCsOf(c) == c.qcs \cup {c.lockedQC, c.highQC} \cup {n.qc : n \in c.newviews}

HeldQCs ==
  (UNION {QCsOf(ctx[r]) \cup {m.qc : m \in inbox[r]} : r \in Replicas}) \ {NoQC}

Signers(v, b) == {r \in Replicas : [view |-> v, block |-> b, voter |-> r] \in signed}

Certified(v, b) == IsQuorum(Signers(v, b))

\* Every QC, wherever it is held, rests on votes a quorum really signed, all
\* for its view and its block.  It relies on every sender being honest, since
\* who receives a QC does not validate it.
QCIntegrity == \A q \in HeldQCs : Certified(q.view, q.block)

\* A replica that is not the leader of a view signs one vote in it.
OneVotePerView ==
  \A x, y \in signed :
    x.view = y.view /\ x.voter = y.voter /\ Leader(x.view) # x.voter => x = y

\* Two QCs of a view certify one block, although a leader may sign two votes.
UniqueQCPerView ==
  \A p, q \in HeldQCs : p.view = q.view => p = q

\* A committed block was certified in some view and a child of it in the next
\* one, wherever and in whatever order the votes and QCs arrived.
CommitNeedsTwoChain ==
  \A r \in Replicas : \A b \in ctx[r].committed \ {Genesis} :
    \E x \in signed :
      /\ Parent(x.block) = b
      /\ Certified(x.view, x.block)
      /\ x.view > 0 /\ Certified(x.view - 1, b)

\* A block is voted for only on top of a block that a quorum had certified, so
\* that every chain of proposals is certified down to its first block.
VotesOnCertifiedParents ==
  \A x \in signed :
    Parent(x.block) # NoBlock =>
      \E y \in signed : y.block = Parent(x.block) /\ Certified(y.view, y.block)

\* Once a block and a child of it are certified in consecutive views, all but
\* one of a quorum hold locks at least as high as the block's view: the leader
\* counts its own vote without locking (hotstuff2.go:930-935).
TwoChainsAreLocked ==
  \A x \in signed :
    /\ Certified(x.view, x.block)
    /\ x.view > 0
    /\ Parent(x.block) # NoBlock
    /\ Certified(x.view - 1, Parent(x.block))
    => Cardinality({r \in Replicas : /\ ctx[r].lockedQC # NoQC
                                     /\ ctx[r].lockedQC.view >= x.view - 1})
         >= Quorum - 1

\* Whatever the order in which QCs arrive, a replica never lowers its lock or
\* its highest QC, and keeps the blocks it has committed.
NothingForgotten ==
  [][\A r \in Replicas :
       /\ QCView(ctx[r].lockedQC) <= QCView(ctx'[r].lockedQC)
       /\ QCView(ctx[r].highQC) <= QCView(ctx'[r].highQC)
       /\ ctx[r].committed \subseteq ctx'[r].committed]_vars

\* No two replicas commit different blocks at a height.
Agreement ==
  \A r, s \in Replicas : \A x \in ctx[r].committed, y \in ctx[s].committed :
     Height(x) = Height(y) => x = y

\* Whatever arrives and in whatever order, the replicas do nothing to the votes
\* and the committed blocks that Ledger does not allow.
Committed == INSTANCE Ledger WITH
  votes <- signed, ledger <- [r \in Replicas |-> ctx[r].committed]

ImplementsLedger == Committed!Spec

-----------------------------------------------------------------------------
(* Restrictions of the steps, for what the code guarantees only under them. *)

\* The view of a replica "never resets, monotonically increasing"
\* (demo/README.md:89).
ViewsForward == \A r \in Replicas : ctx[r].view <= ctx'[r].view

ForwardSpec == Init /\ [][Next /\ ViewsForward]_vars

\* No block is proposed in two views, as when the executor puts the time in
\* its blocks (docs/INTEGRATION_GUIDE.md:343).
BlocksOfOneView == \A x, y \in signed : x.block = y.block => x.view = y.view

OneViewSpec == Init /\ [][Next /\ BlocksOfOneView']_vars

OrderlySpec == Init /\ [][Next /\ ViewsForward /\ BlocksOfOneView']_vars

\* A leader does not vote for its own block against its lock: the code lets it
\* (hotstuff2.go:930, 1023).
LeadersVoteSafely ==
  \A x \in signed' \ signed :
    LET lock == ctx[x.voter].lockedQC
        after == ctx'[x.voter]
    IN  Leader(x.view) = x.voter /\ lock # NoQC =>
          \/ \E q \in QCsOf(after) \ {NoQC} : q.block = Parent(x.block) /\ q.view > lock.view
          \/ IsAncestor(after, lock.block, x.block)

SafeLeadersSpec ==
  Init /\ [][Next /\ ViewsForward /\ BlocksOfOneView' /\ LeadersVoteSafely]_vars
==============================================================================
