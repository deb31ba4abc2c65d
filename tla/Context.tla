------------------------------- MODULE Context -------------------------------
(***************************************************************************)
(* The consensus state of one replica (context.go) as a record, and the    *)
(* operations on it as functions from record to record.                    *)
(*                                                                         *)
(* Abstractions.  A block stands for its hash: equal blocks are blocks     *)
(* with equal content.  A QC is the view and the block it certifies; a     *)
(* vote is its view, block and voter (signatures, signers and timestamps   *)
(* are left out).  Each Go map becomes a set: votes keyed by (view, hash,  *)
(* validator), NEWVIEWs holding at most one QC per (view, validator), QCs  *)
(* at most one per block, committed blocks at most one per height.         *)
(***************************************************************************)
EXTENDS Validators

CONSTANTS
  Blocks,     \* the blocks that can exist, genesis included
  Genesis,    \* the block of height 0 every replica boots with
  NoBlock,    \* the zero hash: the parent of a first block
  NoQC,       \* the nil QC
  Height(_),  \* Height(b) is the height written in block b
  Parent(_),  \* Parent(b) is the previous hash written in block b
  MaxView,    \* bound: the last view explored
  MaxDepth,   \* steps an ancestor walk takes at most (1000 in the code)
  KeepViews   \* views of votes kept behind the current one (10 in the code)

Views == 0 .. MaxView
QCs == [view : Views, block : Blocks]
Votes == [view : Views, block : Blocks, voter : Replicas]
NewViews == [view : Views, from : Replicas, qc : QCs \cup {NoQC}]

ASSUME BoundsAssumption ==
  MaxView \in Nat /\ MaxDepth \in Nat /\ KeepViews \in Nat

ASSUME BlocksAssumption ==
  /\ Genesis \in Blocks
  /\ NoBlock \notin Blocks
  /\ \A b \in Blocks : /\ Height(b) \in Nat
                       /\ Parent(b) \in Blocks \cup {NoBlock}

ASSUME NoQCAssumption == NoQC \notin QCs

Contexts ==
  [ view      : Views,
    lockedQC  : QCs \cup {NoQC},
    highQC    : QCs \cup {NoQC},
    committed : SUBSET Blocks,
    votes     : SUBSET Votes,
    newviews  : SUBSET NewViews,
    blocks    : SUBSET Blocks,    \* blocksByHash
    parents   : SUBSET Blocks,    \* blocks whose parent link is recorded
    qcs       : SUBSET QCs ]      \* qcsByNode

\* A context booted from a block and the QC stored for it, if any.
NewContext(block, qc) ==
  [ view      |-> 0,
    lockedQC  |-> qc,
    highQC    |-> qc,
    committed |-> {block},
    votes     |-> {},
    newviews  |-> {},
    blocks    |-> {block},
    parents   |-> {},
    qcs       |-> {qc} \ {NoQC} ]

SetView(c, v) == [c EXCEPT !.view = v]

\* The view of a QC, a nil one counting as 0.
QCView(qc) == IF qc = NoQC THEN 0 ELSE qc.view

\* Mutation: any QC replaces the old one.
SupersedesAny(qc, old) == qc # NoQC

\* qc replaces old: there is none yet, or it is of a higher view.
Supersedes(qc, old) == qc # NoQC /\ (old = NoQC \/ qc.view > old.view)

UpdateLockedQC(c, qc) ==
  IF Supersedes(qc, c.lockedQC) THEN [c EXCEPT !.lockedQC = qc] ELSE c

UpdateHighQC(c, qc) ==
  IF Supersedes(qc, c.highQC) THEN [c EXCEPT !.highQC = qc] ELSE c

AddVote(c, vote) == [c EXCEPT !.votes = @ \cup {vote}]

Voters(c, v, b) == {r \in Replicas : [view |-> v, block |-> b, voter |-> r] \in c.votes}

HasVoted(c, v, r) == \E x \in c.votes : x.view = v /\ x.voter = r

AddBlock(c, b) == [c EXCEPT !.blocks = @ \cup {b}, !.parents = @ \cup {b}]

\* One QC per block: a later one, of any view, replaces an earlier one.
AddQC(c, qc) ==
  [c EXCEPT !.qcs = {q \in @ : q.block # qc.block} \cup {qc}]

IsCommitted(c, h) == \E b \in c.committed : Height(b) = h

Commit(c, b) ==
  [c EXCEPT !.committed = {x \in @ : Height(x) # Height(b)} \cup {b}]

\* The blocks and hashes met from b in at most k recorded parent links.
Ancestry(c, b) ==
  LET up[k \in 0 .. MaxDepth] ==
        IF k = 0 THEN {b} ELSE up[k-1] \cup {Parent(x) : x \in up[k-1] \cap c.parents}
  IN  up[MaxDepth]

IsAncestor(c, ancestor, b) == ancestor \in Ancestry(c, b)

\* Mutation: a proposal without a QC is always safe.
SafeWithoutQC(c, b, justify) ==
  c.lockedQC # NoQC /\ justify # NoQC =>
    justify.view > c.lockedQC.view \/ IsAncestor(c, c.lockedQC.block, b)

\* The SafeNode rule.
SafeToVote(c, b, justify) ==
  c.lockedQC # NoQC =>
    \/ justify # NoQC /\ justify.view > c.lockedQC.view
    \/ IsAncestor(c, c.lockedQC.block, b)

\* A second NEWVIEW of a validator for a view overwrites the first.
AddNewView(c, v, r, qc) ==
  [c EXCEPT !.newviews = {n \in @ : ~(n.view = v /\ n.from = r)}
                           \cup {[view |-> v, from |-> r, qc |-> qc]}]

HasNewViewQuorum(c, v) == IsQuorum({n.from : n \in {m \in c.newviews : m.view = v}})

\* The QCs of highest view among the NEWVIEWs of a view (map order decides
\* between several), nil when none carries a QC.
HighestQCFromNewViews(c, v) ==
  LET sent == {n.qc : n \in {m \in c.newviews : m.view = v}} \ {NoQC}
  IN  IF sent = {} THEN {NoQC} ELSE {q \in sent : \A p \in sent : p.view <= q.view}

\* Votes and NEWVIEWs more than KeepViews behind the new view are dropped.
PruneVotes(c, v) ==
  [c EXCEPT !.votes    = {x \in @ : x.view + KeepViews >= v},
            !.newviews = {n \in @ : n.view + KeepViews >= v}]
==============================================================================
