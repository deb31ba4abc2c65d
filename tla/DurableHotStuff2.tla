--------------------------- MODULE DurableHotStuff2 ---------------------------
(***************************************************************************)
(* The replicas of HotStuff2 with their storage, and crashes.  Every       *)
(* change of the view, the lock, the QCs and the blocks of a context is    *)
(* followed by a write of it, before anything is sent that depends on it;  *)
(* votes, NEWVIEWs, the highest QC and the commits are not written.  A     *)
(* replica may crash between two steps, or inside one between two of its   *)
(* writes and broadcasts, and then boots from its storage.  What others    *)
(* do while it is down may as well come before the crash or after the      *)
(* boot, so that crash and boot are one step.                              *)
(***************************************************************************)
EXTENDS HotStuff2

CONSTANTS
  MaxCrashes,  \* bound: crashes in a behaviour
  CrashViews   \* bound: <<replica, view>> where a replica may crash

ASSUME CrashAssumption == MaxCrashes \in Nat

VARIABLES
  disk,     \* disk[r]: the storage of replica r
  crashes,  \* crashes so far
  booted    \* history: booted[r], the highest lock r booted with

durableVars == <<vars, disk, crashes, booted>>

\* The storages of the repository keep as "last" block the first they were
\* given of the greatest height.
Disks == [last : Blocks, qcs : SUBSET QCs, lock : QCs \cup {NoQC}, view : Views]

NewDisk == [last |-> Genesis, qcs |-> {}, lock |-> NoQC, view |-> 0]

LastBlock(d, blocks) ==
  LET higher == {b \in blocks : Height(b) > Height(d.last)}
  IN  IF higher = {} THEN d.last ELSE CHOOSE b \in higher : TRUE

\* The storage after the writes that go with a change from context c to c2,
\* which adds one block at most.
Write(d, c, c2) ==
  LET new == c2.qcs \ c.qcs
  IN  [ last |-> LastBlock(d, c2.blocks \ c.blocks),
        qcs  |-> {q \in d.qcs : \A p \in new : p.block # q.block} \cup new,
        lock |-> IF c2.lockedQC # c.lockedQC THEN c2.lockedQC ELSE d.lock,
        view |-> c2.view ]

\* The QC stored for the last block, if any.
LastQC(d) ==
  LET stored == {q \in d.qcs : q.block = d.last}
  IN  IF stored = {} THEN NoQC ELSE CHOOSE q \in stored : TRUE

\* The context a replica boots with: the last block counts as committed, its
\* QC becomes the lock and the highest QC, and a higher lock is kept.
Boot(d) == UpdateLockedQC(SetView(NewContext(d.last, LastQC(d)), d.view), d.lock)

-----------------------------------------------------------------------------
(* What a handler has done when it is cut short between two writes or sends *)

\* Mutation: the vote is sent before the lock is written.
LockAfterVote(c, m) == AddBlock(c, m.block)

\* What is written when the vote is sent.
BeforeVote(c, m) == Lock(AddBlock(c, m.block), m.qc)

\* The QC that a vote completes is written, the lock is not.
HalfFormed(c, v, b, voter) ==
  LET c1 == AddVote(c, [view |-> v, block |-> b, voter |-> voter])
  IN  IF QuorumReached(c1, v, b) THEN {AddQC(c1, [view |-> v, block |-> b])} ELSE {}

\* The view of a proposal is written, the QC that justifies it is not.
HalfSynced(c, m) == SetView(c, SyncByProposal(c, m).view)

\* r has signed a vote for b in v and sent m, in context d.
Signing(r, v, b, m, d) ==
  [ctx |-> d, sent |-> {m}, cast |-> {[view |-> v, block |-> b, voter |-> r]}, started |-> {}]

\* Of a vote: the block is written, the QC it comes with, the lock; the vote is
\* sent; it completes a QC.
PartsOfVoting(r, c, m) ==
  LET stored == AddBlock(c, m.block)
      locked == BeforeVote(c, m)
      Voted(d) == Signing(r, m.view, m.block, VoteMessage(r, m.view, m.block), d)
  IN  IF ~SafeToVote(stored, m.block, m.qc) THEN {Only(stored)}
      ELSE {Only(d) : d \in {stored, StoreQC(stored, m.qc), locked}} \cup
           {Voted(d) : d \in {locked} \cup HalfFormed(locked, m.view, m.block, r)}

PartsOfProposal(r, m) ==
  LET c == SyncByProposal(ctx[r], m)
  IN  {Only(HalfSynced(ctx[r], m)), Only(c)} \cup
      IF MayVote(r, c, m) THEN PartsOfVoting(r, c, m) ELSE {}

PartsOfVote(r, m) == {Only(c) : c \in HalfFormed(ctx[r], m.view, m.block, m.from)}

\* Of a proposal: the block is written; it is sent; the leader's own vote
\* completes a QC.
PartsOfPropose(r, c, v, justify) ==
  UNION {{Only(AddBlock(c, b)), ProposeOnly(r, c, v, justify, b)} \cup
         {Signing(r, v, b, ProposeMessage(r, v, b, justify), d) :
            d \in HalfFormed(AddBlock(c, b), v, b, r)} :
           b \in NewBlocks(r, c, justify)}

\* The view is written and the NEWVIEW not sent; it is sent; a leader that
\* moved back has written the view it moved to; parts of its proposal.
PartsOfEntering(r, e, v) ==
  LET entered == SetView(e.ctx, v)
  IN  {Only(e.ctx), e} \cup
      IF ~MayPropose(r, e.ctx, v) THEN {}
      ELSE {[e EXCEPT !.ctx = entered]} \cup
           {Then(e, p) : p \in UNION {PartsOfPropose(r, entered, v, q) :
                                         q \in Justifications(entered, v)}}

PartsOfNewView(r, m) ==
  LET c == RecordNewView(ctx[r], m)
  IN  {Only(c)} \cup PartsOfEntering(r, SyncByNewView(r, c, m), m.view)

PartsOfTimeout(r) ==
  LET v == ctx[r].view + 1
  IN  PartsOfEntering(r, EnterWithNewView(r, PruneVotes(ctx[r], v), v), v)

-----------------------------------------------------------------------------
(* Steps *)

\* r crashes with effect e done, message m or goroutine lost, and boots.
CrashAfter(r, e, msgs) ==
  LET d == Write(disk[r], ctx[r], e.ctx)
      c == Boot(d)
  IN  /\ crashes < MaxCrashes
      /\ <<r, ctx[r].view>> \in CrashViews
      /\ ctx' = [ctx EXCEPT ![r] = c]
      /\ disk' = [disk EXCEPT ![r] = d]
      /\ inbox' = Broadcast([inbox EXCEPT ![r] = @ \ msgs], r, e.sent)
      /\ tasks' = [tasks EXCEPT ![r] = IF Leader(c.view) = r
                                       THEN {[kind |-> "propose", view |-> 0]} ELSE {}]
      /\ signed' = signed \cup e.cast
      /\ crashes' = crashes + 1
      /\ booted' = [booted EXCEPT ![r] = IF Supersedes(c.lockedQC, @) THEN c.lockedQC ELSE @]

Crash(r) == CrashAfter(r, Only(ctx[r]), {})

CrashInProposal(r) ==
  \E m \in Received(r, "PROPOSE") : \E e \in PartsOfProposal(r, m) : CrashAfter(r, e, {m})

CrashInVote(r) ==
  \E m \in Received(r, "VOTE") : \E e \in PartsOfVote(r, m) : CrashAfter(r, e, {m})

CrashInNewView(r) ==
  \E m \in Received(r, "NEWVIEW") : \E e \in PartsOfNewView(r, m) : CrashAfter(r, e, {m})

CrashInTimeout(r) ==
  /\ <<r, ctx[r].view>> \in Timers
  /\ ctx[r].view < MaxView
  /\ \E e \in PartsOfTimeout(r) : CrashAfter(r, e, {})

CrashInPropose(r) ==
  \E t \in tasks[r] :
    /\ t.kind = "create"
    /\ \E e \in PartsOfPropose(r, ctx[r], t.view, ctx[r].highQC) : CrashAfter(r, e, {})

\* A step of HotStuff2 with its writes, by the one replica that takes it.
Written ==
  /\ disk' = [r \in Replicas |-> Write(disk[r], ctx[r], ctx'[r])]
  /\ UNCHANGED <<crashes, booted>>

DurableInit ==
  /\ Init
  /\ disk = [r \in Replicas |-> NewDisk]
  /\ crashes = 0
  /\ booted = [r \in Replicas |-> NoQC]

DurableNext ==
  \/ Next /\ Written
  \/ \E r \in Replicas :
       \/ Crash(r)
       \/ CrashInProposal(r)
       \/ CrashInVote(r)
       \/ CrashInNewView(r)
       \/ CrashInTimeout(r)
       \/ CrashInPropose(r)

DurableSpec == DurableInit /\ [][DurableNext]_durableVars

-----------------------------------------------------------------------------
(* Properties *)

LocksOn(v, qc) == qc # NoQC /\ qc.view >= v

DurableLock(r) == Boot(disk[r]).lockedQC

\* The two-chains on which a block may be committed.
TwoChains ==
  {x \in signed : /\ Certified(x.view, x.block)
                  /\ x.view > 0
                  /\ Parent(x.block) # NoBlock
                  /\ Certified(x.view - 1, Parent(x.block))}

\* However replicas crash between their writes and sends, every follower that
\* voted for the second block of a two-chain would boot with a lock on the
\* first, or has booted with one (hotstuff2.go:343-366, 62-77); followers are
\* all but one of the quorum that certified it.
TwoChainsSurvive ==
  \A x \in TwoChains : \A r \in Signers(x.view, x.block) \ {Leader(x.view)} :
    \/ LocksOn(x.view - 1, DurableLock(r))
    \/ LocksOn(x.view - 1, booted[r])

\* A replica forgets its votes in a crash (hotstuff2.go:76): one that boots in
\* its view may vote in it again.  One crash does not let a view certify two
\* blocks unless its leader signed both, as one that proposed twice did.
OneCrashIsSafe ==
  crashes <= 1 =>
    \A p, q \in HeldQCs :
      p.view = q.view /\ p # q =>
        Leader(p.view) \in Signers(p.view, p.block) \cap Signers(q.view, q.block)

\* "Persist `lockedQC` before voting" (docs/PROTOCOL.md:297): all but one of a
\* quorum would boot with a lock on the first block of a two-chain.  The code
\* does not write a lock it adopted when it booted.
LocksArePersisted ==
  \A x \in TwoChains :
    Cardinality({r \in Replicas : LocksOn(x.view - 1, DurableLock(r))}) >= Quorum - 1

-----------------------------------------------------------------------------
(* Restrictions of the steps, as for HotStuff2. *)

DurableForwardSpec == DurableInit /\ [][DurableNext /\ ViewsForward]_durableVars

DurableOneViewSpec == DurableInit /\ [][DurableNext /\ BlocksOfOneView']_durableVars
==============================================================================
