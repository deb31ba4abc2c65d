# Verification of edgedlt/hotstuff2

TLA+ models of this repository's Go implementation of the HotStuff-2 consensus
protocol, TLC configurations that check them on small instances, and theorems
about them that TLAPS proves for every instance. Paths such as
`hotstuff2.go:437` are lines of the repository's sources under `src/`.

- [The system](#the-system): components, state, operations, what makes each correct
- [The models](#the-models): how modules, variables and actions correspond to code
- [The runs](#the-runs): what each checks, its bounds, what it shows
- [The proofs](#the-proofs)
- [Not modelled](#not-modelled)
- [Plan](#plan)

Commands, from this directory:

    tlc -workers 2 -config fork.cfg MCHotStuff2.tla
    tlc -workers 2 -config loop.cfg ReplicaLoop.tla
    tlc -workers 2 -config pacing.cfg MCTimed.tla
    tlapm Agreement_proofs.tla

## The system

### Consensus core (`hotstuff2.go`)

*State.* A pointer to the context (below), a bounded message channel, the view
timer, the private key, the validator set, a pacemaker, hooks.
*Operations.* `run` (165) is the message loop: it takes either one message or
the tick of the view timer and handles it to the end. Handlers: `onProposal`
(228), `onVote` (394), `onNewView` (611), `onViewTimeout` (748). They call
`tryFormQCIfQuorum` (437), `checkCommit` (519), `advanceView` (810) and
`proposeWithNewViewQuorum` (952). `advanceViewWithQC` (775) and `propose` (869)
run as goroutines of their own, beside the loop. `Start` and `Stop` (103-162).
*Interactions.* Sends messages through `Network`, asks `Executor` for blocks and
to verify and execute them, writes blocks, QCs and views to `Storage`, starts
and stops the timer through the pacemaker.
*What is hard.* Votes have no view guard, so that a quorum may be completed by a
vote long after its view; a quorum found again starts the view change again;
goroutines use a view read earlier, or read it later than the handler that
started them meant; the view may go back; a NEWVIEW beyond the quorum makes the
leader propose again; messages are lost, repeated and reordered.
*Correct when.* QCs rest on real quorums; commits rest on two certified
consecutive views; nobody votes twice in a view; locks, highest QCs and commits
are never undone; no two replicas commit different blocks at a height; and some
block is eventually committed once messages arrive in time.

### Consensus context (`context.go`)

*State.* View, locked QC, highest QC, committed blocks by height, votes by view,
block and validator, NEWVIEWs by view and validator, blocks by hash, parent
links, QCs by block; all behind one mutex.
*Operations.* One short critical section each: `UpdateLockedQC`, `UpdateHighQC`,
`AddVote`, `AddBlock`, `AddQC`, `Commit`, `SafeToVote`, `IsAncestor`,
`AddNewView`, `HasNewViewQuorum`, `HighestQCFromNewViews`, `PruneVotes`...
*What is hard.* Handlers are sequences of such sections, so that a goroutine can
slip in between two; one QC per block and one block per height overwrite earlier
ones; pruning forgets the replica's own votes; the ancestor walk ends silently
where a parent is missing.
*Correct when.* Each operation keeps what it does not own, the lock and the
highest QC only rise, and the SafeNode rule accepts exactly what it should.

### Validators and configuration (`config.go`, `types.go`, `test_helpers.go`)

*State.* N validators with the indices 0..N-1. *Operations.* F = (N-1)/3,
quorum 2F+1, leader `view % N`. *Correct when* two quorums share a correct
validator, which needs N = 3F+1; `Config.Validate` does not ask for it.

### Messages, votes, quorum certificates (`payload.go`, `vote.go`, `quorum_cert.go`)

Values without state: construction, digest, signing, verification and a binary
format. *What is hard.* lengths and counts of fixed width, optional parts, two
kinds of aggregate signature that share a format. *Correct when* decoding undoes
encoding, and a QC is accepted exactly when a quorum of distinct validators
signed its view and block.

### Pacemaker and timers (`pacemaker.go`, `timer/timer.go`)

*State.* Current timeout, the view timer, a commit delay timer with the channel
others wait on; `RealTimer` wraps `time.AfterFunc` and a channel of size 1,
`MockTimer` is driven by hand, `AdaptiveTimer` carries a backoff of its own and
is used by nothing. *Operations.* `Start`, `OnProgress`, `OnCommit`,
`IncreaseTimeout`, `CanAcceptProposal`, `WaitForMinBlockTime`. *What is hard.* a
tick that is already in the channel, or still being put there, when the timer is
stopped; a channel replaced while the callback that closes it waits for the
mutex; backoff applied after the timer was started; leaders that sleep for the
minimum block time while the timers of all run, in the message loop itself when
they propose on NEWVIEWs. *Correct when* a tick belongs to the view it was armed
for, the timeout stays between its bounds, no view ends while all replicas are
up, and blocks are committed when one is down.

### Storage and restart (`types.go:160-205`, `test_helpers.go`)

`PutBlock`, `PutQC`, `PutView`, `PutHighestLockedQC` and their getters;
`NewHotStuff2` rebuilds a context from the last block, its QC, the lock and the
view. *What is hard.* a crash between two writes, votes that are not written at
all, a lock held in memory only, a failed write that is only logged. *Correct
when* the locks that protect a two-chain survive, and forgotten votes do not by
themselves let a view certify two blocks.

### Twins (`twins/`)

Generators of scenarios; an executor that runs one with pairs of nodes that
share a key, behind a partitioned network whose interceptors drop, delay, double
and forge messages; a detector of double votes and forks. *What is hard.*
counting twins and partitions at the boundary, messages routed by an interceptor
rather than broadcast, votes that are recorded or not before they are lost,
nodes that commit while they are being stopped. *Correct when* every generated
scenario is valid, nothing crosses a partition, and a violation is reported
exactly when there is one.

### Demo simulator (`demo/simulator/`) and server (`demo/server/`)

Nodes in one process, a network with latency, loss and replay, and requests to
start, stop, crash, recover, partition and heal, which the server takes by HTTP.
*What is hard.* the same fact (a node is crashed, isolated) kept at the node and
in the network, requests in any order, messages that outlive their receiver.
*Correct when* both agree, every node that is not crashed has its loop, and the
statistics add up.

### Others

`internal/crypto` wraps Ed25519 and BLS libraries; `bench` and `cmd/benchgen`
measure and report; `formal-models/tla` is a model of the protocol written
before the code, used here as documentation of what the code should do and
never as a source of definitions.

## The models

| Module | Models | Extends |
|---|---|---|
| `Validators` | validator indices, F, quorum, leaders | |
| `Context` | `context.go`: a record, and its operations as functions on it | `Validators` |
| `HotStuff2` | all replicas, their goroutines and the network | `Context` |
| `Ledger` | abstract: replicas vote, and enter blocks into their ledgers | |
| `Pacemaker` | `pacemaker.go`: a record, and its operations as functions on it | |
| `TimedHotStuff2` | the replicas with their pacemakers, in time | `HotStuff2`, `Pacemaker` |
| `DurableHotStuff2` | the replicas with their storage, and crashes | `HotStuff2` |
| `RealTimer` | `RealTimer` of `timer/timer.go`: a record, and its operations | |
| `ReplicaLoop` | one replica's loop, goroutines, timer and lifecycle, at the granularity of the locks | `RealTimer` |
| `Certificates` | `vote.go`, `quorum_cert.go`: votes and certificates as data | `Validators` |
| `Codec` | `payload.go` and the encodings: a certificate's way from votes to another replica | `Certificates` |
| `Twins` | `twins.go`, `generator.go`: scenarios, their generators, their validation | |
| `TwinsNetwork` | `network.go`, `interceptors.go`, `detector.go` as records | `Twins` |
| `TwinsExecutor` | `executor.go`: the run of a scenario | `TwinsNetwork` |
| `Simulator` | `demo/simulator`, under the requests of `demo/server` | |
| `HotStuff2_proofs` | theorems about the protocol: certificates, commits, the refinement | |
| `Agreement_proofs` | theorems about votes, locks and agreement | `HotStuff2_proofs` |
| `Durable_proofs`, `Timed_proofs` | theorems about it with crashes, and in time | `Agreement_proofs` |
| `ReplicaLoop_proofs`, `Codec_proofs`, `Twins_proofs`, `Simulator_proofs` | theorems about these components | |
| `MCHotStuff2`, `MCSchedules`, `MCTimed`, `MCDurable`, `MCCodec`, `MCTwins`, `MCSimulator` | instances for TLC | |

`HotStuff2` instantiates `Ledger` with its refinement mapping (votes signed,
committed blocks). `TimedHotStuff2` and `DurableHotStuff2` reuse the actions of
`HotStuff2` and add to each the calls to the pacemaker, or the writes, its code
makes.

### The replicas: `HotStuff2`

`ctx[r]` is the context of replica r, field by field. `inbox[r]` holds the
messages sent to r that have not been handled: they arrive in any order, or
never, and types in `Redelivery` stay in the inbox, to arrive any number of
times. `tasks[r]` holds the goroutines started and not run yet. `signed` is a
history variable: every vote ever signed.

All replicas are honest: they send only what the handlers send. A vote is
verified where it is received (417), so a vote in a message is one of `signed`. A
QC is not: `onProposal` (257-271, 331-346) and `onNewView` (635-639) use the one
they were sent as it comes, and only a QC the replica has formed itself is
validated (459). That every QC is certified by `signed` is therefore a property
(`QCIntegrity`) that rests on the honesty of all senders and not on a check of the
receivers, and so does everything proved from it. A validator that sends a QC of
its own making is outside these models; see the disagreements below.

A block stands for its hash, so that blocks of equal content are one. `Height`
and `Parent` are constants on blocks. `CreateBlock(h, p, r)` is the set of
blocks the executor of r may return; the repository's executors are
deterministic and so is `MCCreateBlock`. As in the code, the first blocks have
the zero hash as parent (`NoBlock`), not genesis, and height 1.

| Action | Code |
|---|---|
| `IgnoreProposal` | `onProposal` up to an early return: 278, 304, 311; view synchronisation (242-276) still happens |
| `DeferProposal` | its early return at 286-298, minimum block time |
| `RejectProposal` | its early return at 322-329, SafeNode rule; the block stays stored |
| `VoteForProposal` | the rest of `onProposal`: lock, vote, form a QC |
| `ReceiveVote` | `onVote`, `tryFormQCIfQuorum`, `checkCommit` |
| `ReceiveNewView` | `onNewView`, synchronising forward or back, and `proposeWithNewViewQuorum` |
| `Timeout` | `onViewTimeout`, `advanceView` and the leader's proposal |
| `AdvanceViewWithQC` | the goroutine of that name |
| `StartPropose`, `FinishPropose` | the goroutine `propose`, before and after the wait for the minimum block time (870, 883) |

A handler is written as an *effect*, a function of the context that gives the
new context, the messages broadcast, the votes signed and the goroutines
started; `Consume` and `Run` apply it. A broadcast reaches every replica but the
sender (`demo/simulator/network.go:167-183`), and the leader's vote on its own
proposal is counted locally and not broadcast at all (930-935, 1023-1028).

Abstractions. A handler is atomic: in the code the context's mutex is released
between its operations, so that `advanceViewWithQC` and `propose` can act in the
middle of a handler. `propose` is split where it may wait. In this module a
timer may fire whenever the replica is in its view. `Executor.Verify` checks
heights when `StrictVerify` is set, as its documentation asks
(`types.go:234-240`); it is set in all runs. Goroutines that are equal and
waiting at the same time are one: handling the message that starts the second
one later gives the behaviours with two.

### What they promise: `Ledger`

Two variables: the votes, and the blocks each replica has entered into its
ledger. A vote goes to a block on top of a certified one; a block is entered
when it and a child of it were certified in consecutive views, in a place (its
height) that is still open; nothing is taken back; a step is one replica's and
does at most one of each. Agreement is not among what `Ledger` promises: the code
does not keep it (runs `backwards` and `late_start`). Neither is a ledger without gaps: only
the direct parent of a certified block is committed (570).

### In time: `Pacemaker`, `TimedHotStuff2`

Time is counted in ticks. A message takes one tick, or two where `Slow` says so;
a handler takes none, unless it sleeps. `pm[r]` is r's pacemaker, `since[r]` the
ticks since its last commit. `Paced` adds to each action of `HotStuff2` the calls
its code makes, in its order: `Start` where it sets a view, `OnCommit` after a
commit, `OnProgress` after a vote, `IncreaseTimeout` at the end of a timeout. The
wait of `propose` lasts as long as it computes (`wake`); meanwhile the loop goes
on. The wait of `proposeWithNewViewQuorum` is in the loop: `nap[r]` holds what it
is about to propose, and until `WakeInLoop` messages and the timer of r wait
(`NewViewTooSoon`, `TimeoutTooSoon`). `DelayExpires` and `DelayCallback` are the
two ends of the commit delay's callback, with the mutex in between.

### Restarts: `DurableHotStuff2`

`disk[r]` is r's storage. `Write` computes it from the change of a context, since
every change of the view, the lock, the QCs and the blocks is followed by a write
before anything is sent that depends on it. `Crash` happens between two steps;
`CrashInProposal` and its siblings inside one, between any two of its writes and
broadcasts, with the rest lost. The places are listed by the `PartsOf...`
operators, each as the effect of the handler so far: in `onProposal` between the
view (264) and the QC (271) that synchronise it, between block, QC and lock (319,
344, 348), before and after the vote, and between the QC that the vote completes
(466) and its lock (485); the last again where a leader's own vote completes a
quorum (939, 1032); and in `onNewView` after the view a leader moves back to (702).
Changes of the context that are not written (votes counted, a highest QC raised)
are lost with a crash, and make no place of their own. `Boot` is `NewHotStuff2WithHooks`: the
last block stored counts as committed, its QC becomes lock and highest QC, a
higher lock is read, and votes, NEWVIEWs and other blocks are gone.

### One replica's loop: `ReplicaLoop`, `RealTimer`

`ReplicaLoop` looks at the same code from the other side: votes, QCs and blocks
are left out, and every call that touches the view or the timer is a step of its
own, between the steps of the other goroutines. `todo[t]` is what thread t has
still to call: thread 0 runs the loop, the others one goroutine each. A handler
chooses any sequence of calls its code has a path for (`OnProposal`, `OnVote`,
`OnNewView`, `AdvanceView`); `CheckStop`, `DrainMessage`, `Drained` and the
`Wait` actions are the selects of `run` (165-203). `Start` and `Stop` are split
where the loop can act between their steps: `Start`, `Started`; `Stop` (close
stopChan), `StopPacemaker`, `Stopped` (wait for doneChan).

`RealTimer` keeps the Go timer that has not expired (`pending`), the callbacks
that have begun and cannot be stopped any more (`callbacks`), and the channel.
Each carries its origin, a history value: "fresh" while the replica is still in
the view in which the timer was started, "stale" after.

The caller is one that alternates Start and Stop: the code does not check it.
The demo simulator breaks it, and is modelled in `Simulator`. Stop is not called
from a hook.

### Certificates on the wire: `Certificates`, `Codec`

A signature is the term of who signed what; an Ed25519 aggregate lists the
signers and, in the same order, their signatures; a BLS aggregate is a set. An encoding is a sequence of cells, a hash several of them, and lengths and
counts keep their width (`Wide`). `Codec` follows one certificate: votes are
collected (`CollectVote`), a certificate formed, put in a message, encoded, maybe
cut short, and decoded. Decoding ends in a message, in "error", or in "panic" where
the code reads without looking at the length. The last step, `Validate`, is what a
receiver may do with the certificate; `MessageFromBytes` and the core do not do
it, the core only validates a QC it has formed (459).

### Twins: `Twins`, `TwinsNetwork`, `TwinsExecutor`

`Twins` computes scenarios as both generators do. `TwinsNetwork` gives a
broadcast as one critical section: interceptor of the sender, partitions,
interceptor of the receiver, a bounded channel, and the detector. An interceptor
may send several messages instead of one; each channel takes what reaches its node
in their order, as far as it has room (`Filled`). The random generator may draw
anything. `TwinsExecutor` creates the nodes, starts them,
installs the behaviour, waits for enough commits or two seconds, stops the nodes
one by one and closes the network. Of a node only what the framework sees is
kept: what it proposes, votes for and commits is left open, except that a node
broadcasts no vote in a view it leads (301) and commits one block at a height
(heights may have gaps and come in any order: only the parent of a certified block
is committed).

### The demo: `Simulator`

A request of the server is a list of calls (`Idle` between two requests), with
deliveries and broadcasts in between. A node has its status, the message loops it
runs (`loops`: a second Start makes a second one, `stopped` is what the newest was
told), and a channel. The network counts the messages under way on each link.

## The runs

Four validators (F = 1, the smallest N = 3F+1 that tolerates a fault), except in
`loop` (one replica) and `twins` (three replicas and a pair of twins). Validators
are indices with fixed leaders, hence no symmetry; the two blocks of `twins` are
symmetric. Deadlock is checked in `loop`, `pacing` and `presets`; elsewhere a
bounded execution ends, as the real one does when all messages are handled.

### Passing

| Run | Instance | Properties |
|---|---|---|
| `fork` | views 0-3, minimum block time enforced; every replica may time out in view 1, replica 2 also in view 0, and replica 1, which may have committed, does not hear of view 3 | `Agreement`, `TwoChainsAreLocked`, `QCIntegrity`, `VotesOnCertifiedParents`, `CommitNeedsTwoChain`, `ImplementsLedger` |
| `view_change` | all replicas time out twice, nobody hears of view 1 but its leader forms the QC of view 0, messages of every type are delivered again and again | `TypeOK`, `OneVotePerView`, `UniqueQCPerView`, `NothingForgotten` |
| `loop` | one replica, started and stopped over and over | `TypeOK`, `TimerNeverLost`, `FreshTimer`, `LoopFollowsPhase`, `ViewsEnd`, `StopReturns` |
| `pacing` | views 0-4 in time; none or any one replica down, or replica 3 starting a tick before the others time out | `PacemakersOK`, `CalmViews`, `DelayNeverShort`, `DelaysEnd`, `BlocksAreCommitted` |
| `restart` | views 0 and 1, followers may time out in view 0, whose QC is formed by the leader of view 1 before or after it proposes on NEWVIEWs; any one replica crashes once, anywhere | `OneCrashIsSafe`, `TwoChainsSurvive` |
| `codec` | up to four votes of either scheme, or certificates of any origin | `FormedCertificatesHold`, `CertificatesAreQuorums`, `RoundTrip`, `CutMessagesAreRefused` |
| `twins` | all generated scenarios validated; one pair of twins with three or four more replicas, which lead or follow, under each behaviour, and under two of them in two groups | `ScenariosAccepted`, `ForksReported`, `DoubleSignsCaught`, `DelaysBounded`, `PartitionsHold` |
| `simulator` | every order of four requests, with messages in flight | `CrashesAgree`, `LiveNodesRun`, `IsolationEnds`, `StatsAddUp`, `CrashedAreSilent` |

The protocol:

- `QCIntegrity`: a QC held or carried anywhere rests on votes a quorum signed, as
  long as everybody is honest (receivers do not check).
- `VotesOnCertifiedParents`: nobody votes on a block without certified parent.
- `NothingForgotten`: locks and highest QCs never get older, also when views go
  back; commits stay. No block but genesis is committed in `view_change`, so of
  commits this says something as a theorem only (`NothingIsForgotten`).
- `Agreement`: no two replicas commit different blocks at a height.
- `TwoChainsAreLocked`: once a block and its child are certified in consecutive
  views, at least a quorum less one hold a lock on that view or a later one. The
  one missing is the leader, which votes without locking (930-935); in
  HotStuff-2 as published it would be the whole quorum.
- `ImplementsLedger`: every step is one of `Ledger`, or none.
- `OneVotePerView`: outside its own views a replica votes once per view. This
  depends on the bound: past ten views of regression its own votes are pruned
  (`KeepViews`) and it can vote again. No run has that many views.
- `UniqueQCPerView`: although a leader may vote twice (below), there is one
  certified block per view.
- `CommitNeedsTwoChain`: a committed block and a child of it were certified in
  consecutive views, whatever the order of arrival. A context holds one QC per
  block, and a QC of another view may replace it (`context.go:244`); that takes one
  block certified in two views, hence a second turn of its leader and five views.
  No run has them; `CommitsNeedTwoChains` and `ImplementsTheLedger` are proved for
  any number of views.

The loop:

- `TimerNeverLost`: between two handlers a running replica has a tick coming.
- `FreshTimer`: no running timer was started in a view the replica has left,
  although views are set and timers restarted in two steps by several goroutines.
- `LoopFollowsPhase`: there is one loop while the replica runs, none after Stop.
- `ViewsEnd`: every view ends while the replica runs; `StopReturns`: Stop returns.

Time:

- `CalmViews`: while all replicas are up no view times out. It takes a timeout of
  two minimum block times and seven ticks for the messages between: the timer of
  the leader that has just entered a view runs through its own wait and the wait
  of the next leader. `DemoPacemakerConfig` has two block times and nothing more.
- `BlocksAreCommitted`: with one replica down, or one that comes late and makes
  the others' loops sleep, a block is committed.
- `DelayNeverShort`, `DelaysEnd`: the commit delay's channel is closed once, not
  early, and in the end, also when the next commit replaces it.

Restarts:

- `TwoChainsSurvive`: wherever a crash cuts a handler short, every follower that
  voted for the second block of a two-chain boots, or has booted, with a lock that
  protects the first. The followers are all but one of the quorum.
- `OneCrashIsSafe`: with one crash, two blocks are certified in a view only if the
  leader signed both, as a leader does that proposes twice (738): two quorums of
  four replicas share two, and one of those two has not forgotten its votes. With
  two crashes in a view no leader has to. In the run leader 1 proposes on a quorum
  of NEWVIEWs and again on the QC of view 0, a follower votes for both with a crash
  in between, and the view certifies both.

Certificates: what a replica forms from votes it verified is valid for all
others, in whatever order and however often the votes came
(`FormedCertificatesHold`); what is valid stands for a quorum of different
validators (`CertificatesAreQuorums`); what arrives whole is what was sent
(`RoundTrip`), and what was cut is never taken for a message
(`CutMessagesAreRefused`). A BLS certificate formed from votes made for Ed25519
is not valid; votes carry no scheme, hence the condition on timestamps.

Twins: no scenario generated with the default configuration is rejected
(`ScenariosAccepted`); forks are in the result exactly if two nodes committed
different blocks (`ForksReported`); double votes are reported for exactly the
validators whose twins voted for two blocks through an interceptor that sees votes
(`DoubleSignsCaught`); delayed messages are bounded in number and neither lost nor
doubled (`DelaysBounded`); nothing crosses a partition (`PartitionsHold`).

The demo: nodes and network agree on who is crashed (`CrashesAgree`), every other
node has a loop that was not told to end (`LiveNodesRun`), nobody stays shown as
partitioned (`IsolationEnds`), the statistics add up (`StatsAddUp`), and what is
crashed neither sends nor is sent anything (`CrashedAreSilent`).

### Bounds

- `MaxView`, the last view entered: 2 to 4, 1 in the restarts. Three certified
  views are needed for a commit and a conflicting proposal; a two-chain takes two.
- `MaxChain`, the longest chain of blocks. A leader that would extend the longest
  chain finds no block to create and does not propose. In `pacing`, where the
  chain can grow by a block a view, that would be a deadlock, which is checked. In
  `fork`, `view_change` and `restart` proposals are cut off: those of a leader
  that proposes again in its view on the QC of that view, and in `fork` those at
  the end of a chain with a block of each view. A chain of `MaxChain` blocks is
  enough there for a two-chain, its commit and a conflicting branch. With one
  block more `fork` takes too long.
- `MaxDepth`, the ancestor walk (1000 in the code), and `KeepViews`, the views of
  votes kept (10): both longer than any chain or view, as in the code for
  executions this short.
- `Lost` and `Timers` leave out deliveries and timeouts that a run is not about.
  A lost message is an ordinary event for the protocol, so a run with losses
  shows executions that really occur; it does not show those without them.
- `loop`: `MaxView` 3, with views 0 and 2 led by the replica, so that it proposes
  on Start and again by a goroutine; after the last view a timeout enters that
  view again. Two messages, two goroutines and one begun callback of each origin:
  a goroutine `advanceViewWithQC` takes a message that completes a QC, so that two
  of them and a timeout of the loop set the view and restart the timer in any
  order, with a late tick on its way.
- `pacing`: a second is 5 ticks, the minimum block time a second, its skew a tick
  (as in the demo preset). Proposals to replicas 1 and 2 may take a second tick, so
  that votes, and the timers they restart, drift apart. The commit delay is
  followed at replica 1 (`Followed`), with one replaced callback (`MaxLate`). A late
  replica (`Joins`) finds what was sent to it waiting. In `presets` a second is
  10 ticks and no message is slow.
- `restart`: one crash (`MaxCrashes`), in any view and of any replica. Votes reach
  replica 1 only, which leads view 1, so QCs are formed by it: of view 0 as a
  follower, with its own vote or another's last, of view 1 as the leader. Two places
  where a handler may be cut off do not come up: after the own vote of a leader,
  which here is never the last of a quorum, and after a leader's move back. They
  are covered by the theorems on `DurableSpec`, which are about all of them.
- `codec`: fields of width 8 instead of 65536, hashes of four cells: the longest
  aggregate of four signers does not fit, so that `RoundTrip` needs its condition.
- `twins`: channels of two messages, delays of one or two, three messages a node.
  With three replicas a twin leads two views and proposes both of two blocks
  (`Proposers`), with four a replica does, and the twins receive and vote
  (`Listeners`). Two commits (`MaxCommits`), by nodes 0 and 3, at either of two
  heights.
- `simulator`: channels of one message, two broadcasts, one faulty receiver each.

### Fairness

`loop`: every goroutine that can run does (Go's scheduler), a running timer
expires and its callback runs, and a Start or Stop under way goes on. Nothing
makes messages arrive or the caller act. `ViewsEnd` relies on messages being
finitely many: each proposal restarts the timer (383), so a replica that is sent
proposals without end, more often than its timeout, stays in its view.

`pacing`: steps go on (weak fairness of `TimedNext`: time passes, goroutines run,
messages that are due are handled) and a callback that waits for the mutex gets it
(weak fairness of `DelayCallback`). Within a tick all that can be done is done
before the next; this is the assumption that handlers are fast, and what makes
the progress of `BlocksAreCommitted` a matter of the configured durations. Blocks
are asked for once: with the bound on views a longer wait could not be told from
a lost one.

`HotStuff2` itself states none, and its runs check safety.

### Refuted

Each shows a statement of the repository's documentation that the code does not
keep. The behaviours of `presets` and `restart_lock` were found by TLC; those of
`backwards` and `late_start`, of 48 and 42 steps, are beyond a search, and
`MCSchedules` gives TLC the order of the steps, each of which it checks to be one
the model allows.

| Run | Statement | What happens |
|---|---|---|
| `backwards` | "No two honest replicas commit different blocks at the same height" (`docs/INTEGRATION_GUIDE.md:759`) | Four correct replicas, no faults. A QC formed from late votes starts `advanceViewWithQC` (505), which sets the view whatever it is (777). Replica 1, having voted for C in view 3, goes back and votes in view 2 for a branch that conflicts with C; one replica commits each. |
| `late_start` | "Two consecutive QCs prove the network is *locked* on that chain, preventing forks" (`docs/PROTOCOL.md:40`), "honest node can't vote for conflicting blocks" (309) | Four correct replicas, no faults, and none ever goes back. The goroutine `propose` that `Start` began at replica 0 reads the view when 0 leads again (870), and proposes on its highest QC, none. A leader votes for its own proposal without the SafeNode rule (930): 0 is locked on A and votes for C, which completes a quorum; A and C are both committed. |
| `presets` | "`baseTimeout` ≥ 2Δ (must allow round-trip)" (`docs/PROTOCOL.md:231`), timeouts are for when "a leader fails" (44) | With the demo preset all replicas are up, messages need a tenth of a second, and after the first commit the view times out: the leader waits for the minimum block time, the next leader too, and the timer of the former, which nothing restarts, is set to just twice that. |
| `restart_lock` | "Persist `lockedQC` before voting" (`docs/PROTOCOL.md:297`) | A replica boots with the QC of its last block as lock, in memory only. When it votes on top of that block the QC of the proposal is not higher, so nothing is written (346); the new block becomes the last one, has no QC yet, and the next boot finds no lock. |

That `Agreement` passes in `fork` and fails in these two is no contradiction:
they need a fifth and a sixth view, `fork` has four. The theorems on agreement
say under which conditions it holds for any number of views.

Other disagreements, seen while modelling or proving and without a run:

- "NEVER accept QC without full validation - even from trusted sources"
  (`types.go:115`, and `quorum_cert.go:20`), "Always validate QCs have 2f+1 distinct
  signers" (`docs/INTEGRATION_GUIDE.md:767`): neither `onProposal` (257-271, 331-346)
  nor `onNewView` (635-639) nor `MessageFromBytes` validates the QC it was sent; the
  only call of `Validate` is on a QC the replica has just formed (459). With honest
  senders, which is what is modelled, no such QC is wrong (`QCIntegrity`).
- "Votes are only accepted for the current view (exact equality)"
  (`docs/INTEGRATION_GUIDE.md:765`): `onVote` and `tryFormQCIfQuorum` (437) do not
  look at the view. Run `backwards` depends on it.
- BLS aggregates are documented as an option (`docs/INTEGRATION_GUIDE.md:443-485`,
  `WithCryptoScheme("bls")`): the core signs with `NewVote` (358, 930, 1023), that is
  over a timestamp of its own, and `NewBLSVote` is called by tests only. The
  certificate of such votes is not a valid BLS certificate (`FormedCertificatesHold`
  excludes it), so that with this option no QC is formed (451-462).
- "Mark nodes not in any partition as partitioned (isolated)"
  (`demo/simulator/simulator.go:612`): such nodes "CAN communicate freely"
  (`demo/simulator/network.go:295`). They are shown as partitioned and are cut off
  from nobody, and a node so marked keeps that status when new partitions include
  it. `IsolationEnds` is about the end of all partitions only.
- The decoder of a certificate does not check every length: input that is cut right
  after the hash makes it panic instead of returning an error (`quorum_cert.go:477`).
- `config.go:107` accepts N = 3, for which F = 0 and one vote is a quorum.
- "At most one vote per view per replica" (`README.md:198`): a leader proposes again
  on each further NEWVIEW (738), with a better QC another block, and votes for both
  (1023). `UniqueQCPerView` says that no harm comes of it.
- highQC is the "Highest QC seen" (`context.go:32`), but `onProposal` locks the QC of
  a proposal (346) without raising highQC, except where it synchronises views (266).
- "Committed blocks form valid chain"
  (`formal-models/tla/IMPLEMENTATION_MAPPING.md:232`): there may be gaps (570).
- "return // Stale timeout" (`hotstuff2.go:751`) compares the view with itself: the
  loop reads the view (199) after it took the tick.
- "Replicas vote at most once per view" (`docs/INTEGRATION_GUIDE.md:761`), and a
  replica "automatically recovers from persisted state" (852): votes are not
  persisted, so one that restarts in its view can vote in it again. Where its
  leader proposes twice, one such crash certifies two blocks in a view.
- `GetLastBlock` promises the last committed block (`types.go:184`); the storages
  return the highest they were given.
- "Ensure twins <= f (BFT requirement)" (`twins/generator.go:77`): f is computed from
  the nodes there would be with all `MaxTwins` pairs (74-75), and then fewer may be
  drawn. One replica with `MaxTwins` 2 gets one pair, three nodes with f = 0, which
  `ValidateScenario` rejects (`twins.go:185`); TLC finds it with `MinReplicas` 1. It
  takes more pairs than replicas in the configuration, which the default has not.

## The proofs

### The protocol

For every N, every bound, every set of blocks and of lost or repeated messages,
from the assumptions named in the modules (`NAssumption`, `BoundsAssumption`,
`BlocksAssumption`, `NoQCAssumption`, `CreateBlockAssumption`):

| Theorem | Says |
|---|---|
| `TypeCorrect` | `Spec => []TypeOK` |
| `QCsAreCertified` | `Spec => []QCIntegrity` |
| `CommitsNeedTwoChains` | `Spec => []CommitNeedsTwoChain` |
| `VotesExtendCertifiedBlocks` | `Spec => []VotesOnCertifiedParents` |
| `NothingIsForgotten` | `Spec => NothingForgotten` |
| `ImplementsTheLedger` | `Spec => ImplementsLedger` |

*The invariant.* None of the properties is inductive: that a new QC is certified
follows from the votes stored, those from the votes in messages, a commit from
the QCs stored. `IInv` says of every context that it is `Good` for `signed`
(votes stored are signed; QCs in all five places are certified; blocks of height 0
that are held are committed from the start), the same of every message, and that
every signed vote has a certified parent. `OnTwoChains`, proved after it, adds
that what is committed has a two-chain; a replica that has booted from its storage
does not know that of its last block, which is why it is not part of `Good`.

*The argument.* `Good(S, c)` is monotone in S, the votes signed so far.
`HotStuff2_proofs` shows of each operation of the context that it keeps a context
Good and lets locks, highest QC and commits only grow (`Grows`), composes them
along each handler into `GoodEffect`, shows once that a step with a good effect preserves `IInv` (`EffectGood`), and adds one
lemma per action. Committing overwrites the block of that height
(`context.go:277`), so `CommitGood` needs the guard of `checkCommit` that the
height is free; genesis needs that no other block has height 0, which the
leader's computation of heights gives.

*The refinement.* `IInv` says what is true of a context after a step; `Ledger` also
limits how much a step may do. Of each handler it is shown that it signs
one vote at most, on a parent certified before (`CastsOne`), and adds one block at
most, in an open place (`AddsOne`); `LedgerEffect` is both. That the block has a
two-chain among the votes signed by the end of the step is `IInv'`, which gives
`Enter` (`LedgerStepRefines`).

Nothing in this uses that quorums overlap: these theorems also hold for N = 3.

### Votes, locks and agreement

| Theorem | Says | For |
|---|---|---|
| `OneVoteForward` | `ForwardSpec => []OneVotePerView` | every N |
| `OneVoteAtHand` | `Spec => []OneVotePerView` | every N, `KeepViews >= MaxView` |
| `OneQCForward` | `ForwardSpec => []UniqueQCPerView` | N <= 4F |
| `OneQCAtHand` | `Spec => []UniqueQCPerView` | N <= 4F, `KeepViews >= MaxView` |
| `TwoChainsLock` | `OneViewSpec => []TwoChainsAreLocked` | every N |
| `LedgersStayInOrder` | `Spec => []LedgersInOrder`: one block per height in a ledger | every N |
| `QuorumsAgree` | `OrderlySpec => []Agreement` | N + 1 <= 4F, `StrictVerify` |
| `CarefulLeadersAgree` | `SafeLeadersSpec => []Agreement` | N <= 4F, `StrictVerify` |

*Why restrictions.* `Agreement` is false of `Spec`, so it is proved of the steps
that meet conditions the code or its documentation states and does not enforce.
Each excludes something the code can do:

- `ViewsForward` (in `ForwardSpec`, `OrderlySpec`, `SafeLeadersSpec`): no step takes
  a replica to an earlier view, which "never resets, monotonically increasing"
  (`demo/README.md:89`). Run `backwards` is what happens without.
- `BlocksOfOneView` (`OneViewSpec`, `OrderlySpec`, `SafeLeadersSpec`): no block is
  voted for in two views, as when the executor puts the time in its blocks
  (`docs/INTEGRATION_GUIDE.md:343`). A context holds one QC per block, so where a
  block returns in a later view its QCs replace each other.
- `LeadersVoteSafely` (`SafeLeadersSpec`): a leader's vote obeys the SafeNode rule.
  The code lets a leader vote against its lock; run `late_start` is what happens
  without, at N = 4.
- `StrictVerify`: `Executor.Verify` checks heights, as `types.go:234-240` asks.
- `KeepViews >= MaxView`: no vote has been pruned. Then going back does no harm to
  the votes of a view.

*Why these N.* Two quorums share 4F + 2 - N validators at least. A leader may vote
twice in its view, so one QC per view takes two of them (N <= 4F: N = 3F+1, and for
F > 1 some above it). For agreement each leader of the two certified blocks may
have voted without lock or against it, and both have to be left out: three
(N + 1 <= 4F, first N = 7) unless leaders vote safely.

*One vote per view* (first part of `Agreement_proofs`). `Moves`, `Calm` and `Keeps` say what an
operation of the context may do to votes, view and lock; `VotingStep` what a step
may do to the votes signed: nothing, a leader's vote in a view it leads, or one
vote of a follower, in its current view, for a block it verified, with no vote of
that view at hand and a lock afterwards as high as a certificate of the block's
parent. `VInv` adds to `IInv` that who is about to create a block
leads the view (`CreatesLead`), that followers verified what they voted for
(`FollowersVerify`) and still hold such a lock (`FollowersLock`). With
`OwnVotesKept` (a follower's vote is at hand or pruned, then far behind its view)
this gives `OneVotePerView`.

*Locks.* A quorum certified the second block of a two-chain; its followers, all
but one, locked at least as high as the QC of the first and never lower it again.
`BlocksOfOneView` makes that QC the one of the two-chain's view.

*Agreement* (its second part). `AInv` says that nobody has voted in a view it has
yet to enter (`VotesBehind`); that after a vote that locks, the careful votes of
the same replica go to blocks that are `Above` its lock, that is, over a block
certified no earlier (`LaterVotesAbove`); and that every certified block was
certified by a quorum whose careful members were `Above` their locks when they
voted (`AllCertifiedInOrder`), which relates a certificate to the past of its
voters, not only to their last vote. Then let a two-chain stand in views v and
v + 1, and suppose a certified block of view v or later, other than the two-chain's
first, at its height or below it. Take one of the lowest height (`LeastNumber`).
Its quorum shares with that of the second block a replica that leads neither view;
being locked, it could vote only for a block above another, certified in view v or
later and lower still: a contradiction (`NoFork`). So a block committed at the same
height is the two-chain's own, wherever and whenever it is committed.

The walk along ancestors is a recursive function on fuel; that all it meets is
lower than where it starts (`AncestorsAreLower`) needs an induction for one set
closed under parents (`AncestryClosed`), done by a least counterexample, since the
library's induction theorems take an operator. Each invariant was checked with TLC
on instances of the runs before it was proved.

### The loop

For every set of views led and every bound (`CallbacksAssumption`,
`LoopAssumption`), `ReplicaLoop_proofs` proves of `ReplicaLoop`:

| Theorem | Says |
|---|---|
| `LoopTypeCorrect` | `Spec => []TypeOK` |
| `TimerIsNeverLost` | `Spec => []TimerNeverLost` |
| `TimerIsFresh` | `Spec => []FreshTimer` |
| `LoopMatchesPhase` | `Spec => []LoopFollowsPhase` |

The properties speak of the moments between two handlers; the invariant has to
speak of all. In every thread's calls a start of the timer follows each change of
the view (`Paired`). A pending timer of a view left behind therefore has a start
among some thread's calls (so a thread that waits in between, or two threads that
overtake each other, do no harm), and a running replica without a tick coming has
such a start to make, or has the tick in hand and will leave the view
(`Live`). The first part of the proof shows that taking a call off and putting
calls on keep sequences `Paired` and their starts; then one lemma per call.

### Restarts

For every N, every bound, any number of crashes and any prefix of a handler's
writes and broadcasts that one cuts off (all places listed under
`DurableHotStuff2` above, also those the run does not reach), `Durable_proofs`
proves of `DurableHotStuff2`:

| Theorem | Says | For |
|---|---|---|
| `DurableInvariant` | `DurableSpec => []DInv` | every N |
| `DurableQCsAreCertified` | `DurableSpec => []QCIntegrity` | every N |
| `LocksSurviveCrashes` | `DurableOneViewSpec => []TwoChainsSurvive` | every N |
| `OneCrashAtHand` | `DurableSpec => []OneCrashIsSafe` | N <= 4F, `KeepViews >= MaxView` |
| `OneCrashForward` | `DurableForwardSpec => []OneCrashIsSafe` | N <= 4F |

`DInv` is `IInv` and, of every disk, that its QCs and its lock are certified
(`GoodDisk`). The writes of a handler are computed from the change of its context,
so a prefix of them is good because both contexts are; and what `Boot` makes of a
good disk is a good context. A place within a handler is good because it is a
step of the operations the handler is made of (`CutEffect`, `CastCut`): up to it
locks have grown, and a vote that has been sent has its block verified, its lock
taken and its parent certified. `LInv` adds that a lock is on the disk or is the one
the replica booted with (`LocksSaved`), and that every follower has saved such a
lock for the parent of each block it voted for (`FollowersSave`): the write of the
lock comes before the vote is sent (366), so a crash in between loses the vote and
not the lock. `DurableOneViewSpec` is the condition `BlocksOfOneView` again: where a
block has QCs of two views, a proposal may carry the older one.
`MInv` says that after one crash one replica at most has forgotten votes
(`OneForgets`); of the two validators that two quorums share one remembers, and it
signed both blocks as a leader or not at all.

### Time

For every configuration that `Config.Validate` accepts, all delays of messages,
late starts and losses, `Timed_proofs` proves of `TimedHotStuff2`:

| Theorem | Says | For |
|---|---|---|
| `TimeoutsBounded` | `TimedSpec => []PacemakersOK` | every N |
| `DelaysAreKept` | `TimedSpec => []DelayNeverShort` | every N |
| `TimedQCsAreCertified` | `TimedSpec => []QCIntegrity` | every N |
| `TimedOneVote` | `TimedSpec => []OneVotePerView` | `KeepViews >= MaxView` |
| `TimedOneQC` | `TimedSpec => []UniqueQCPerView` | N <= 4F, `KeepViews >= MaxView` |

`PInv` follows the channel of the last commit: its timer runs, or its callback has
begun, or it has been closed, when due and once (`DelayGood`). For the protocol, a
step in time is a step of `HotStuff2` but for a loop that sleeps before it
proposes on NEWVIEWs: when it wakes up it signs as the leader of the view it read
before, which its goroutines may have left. `TInv` says that whoever sleeps leads
that view, so that what is signed then is a leader's vote, and nothing proved of
followers depends on those (`SleepStep`).

### Certificates and their encoding

For every number of validators and of votes, every width of length fields and
hashes (`CodecAssumption`), and every certificate that arrives from elsewhere with
as many timestamps as signers, as the decoder makes them (`ReceivedAssumption`),
`Codec_proofs` proves:

| Theorem | Says |
|---|---|
| `FormedAreValid` | `Spec => []FormedCertificatesHold` |
| `ValidAreQuorums` | `Spec => []CertificatesAreQuorums` |
| `DecodingReturnsTheMessage` | `Spec => []RoundTrip` |
| `NoMessageFromAPart` | `Spec => []CutMessagesAreRefused` |

*Encoding.* An encoding is a concatenation, so every part of it is found after a
certain number of cells (`At`), and stays there when something is appended
(`Extend`). From the places of the parts (`QCCells`, `VoteCells`) it follows for
the first n cells, for each n, what the decoder reads in the order it reads it
(`QCDecoded`, `VoteDecoded`), then the same for the payloads and the message
(`MessageDecoded`): of all n cells it makes what was encoded, of fewer it makes
nothing (`Decodes`). A length that is read lies in the part that has arrived, or the
decoder has stopped before.

*Certificates.* The votes that go into one have different voters, and can be put in
the order of their indices: the place of a vote is the number of votes up to it
(`Ranked`). Signers, timestamps and signatures are taken from the votes in that one
order, so they match (`FormedEd25519`), and of BLS the set of signatures is that of
the signers (`FormedBLS`). Signers without repetition are as many as the list is
long, which makes a valid certificate a quorum (`QuorumBehind`).

### Twins

For every set of scenarios to execute, every set of blocks, capacity of the
channels and delay (`NetworkAssumption`, `ExecutorAssumption`) and everything the
random generators may draw, `Twins_proofs` proves of `TwinsExecutor`:

| Theorem | Says | For |
|---|---|---|
| `TwinsInvariant` | `Spec => []IInv` | |
| `ForksAreReported` | `Spec => []ForksReported` | |
| `DoubleSignsAreCaught` | `Spec => []DoubleSignsCaught` | |
| `NothingCrosses` | `Spec => []PartitionsHold` | |
| `DelaysAreBounded` | `Spec => []DelaysBounded` | |
| `ScenariosAreAccepted` | `Spec => []ScenariosAccepted` | generated scenarios, `SoundConfig` |

*The detector.* What is reported is a statement about the past, of which the
detector keeps a part. `IInv` says that its votes are those that were observed,
with the indices the twins share (`VotesOK`); that its commits are those of the
nodes, also of nodes stopped already (`CommitsOK`); and that a conflict is among
its violations exactly if two of these make it one. An interceptor that forges a
vote records that too: `Recorded` says for all four what it may add.

*Delays.* That no more than `MaxDelay` messages are held is not inductive, since
what is let go depends on when each message was queued, and messages change
places. `DelaySound` says, of every k up to `MaxDelay`, that of those held at
most `MaxDelay - k` will still be held k messages from now, and the new one joins
them. Queues are read at a set of places in order (`InOrder`), which exists for
every finite set of numbers (`SetsHaveOrders`), and what is let go and what stays
are two such readings of one queue (`QueueSplit`).

*Generators.* `SoundConfig` asks for no more pairs of twins than replicas, which
`DefaultGeneratorConfig` has. What happens otherwise came out of the proof, and is
among the disagreements above.

### The demo

For every fault tolerance configured, any requests and all fates of messages,
`Simulator_proofs` proves of `Simulator`:

| Theorem | Says |
|---|---|
| `CrashesAlwaysAgree` | `Spec => []CrashesAgree` |
| `NodesKeepRunning` | `Spec => []LiveNodesRun` |
| `NobodyStaysIsolated` | `Spec => []IsolationEnds` |
| `CrashedSendNothing` | `Spec => CrashedAreSilent` |
| `StatisticsAddUp` | `Spec => []StatsAddUp` |

The properties speak of the moments between requests. `SInv` speaks of those
within: while a crash is under way the node that is crashed may be known to the
network or not, all others agree (`CrashesPaired`), and while a node is restarted
it alone may be without a loop (`OthersRun`). `StatsAddUp` holds of every step by
itself, given what a sum is: the sum of the messages under way grows by the number
of links that got one more (`SumGrows`). The library's induction over finite sets
takes an operator; what fails for a subset of the links fails for a smallest one
instead (`OverSubsets`), and the recursion of the sum has a solution for the same
reason (`SumExists`).

### Only model-checked

- `ViewsEnd`, `StopReturns`, `DelaysEnd`, `BlocksAreCommitted`: liveness, beyond the
  prover.
- `CalmViews`: that no view times out is an argument about when every message of
  two views is sent, in all orders, which would need an invariant on the whole
  state of the network.
- `Agreement` of `Spec` without restrictions, which is false; that it holds in the
  instance of `fork` is TLC's.

## Not modelled

- Replicas that do not follow the protocol, and so QCs that nobody formed: receivers
  would take them (see the disagreements). Of forged messages only what the twins
  framework makes is modelled, and there a node's state is left open.
- Cryptography: wrappers around libraries; signatures are terms.
- Benchmarks and the report generator: no protocol logic. The web client, HTTP and
  WebSocket: input and output only.
- Hooks, and a `Stop` called from one. Options checked when a configuration is made.
- `AdaptiveTimer`, which nothing but its tests uses; `MockTimer`, a test double;
  `WaitForCommitDelay`, which the core does not call; what `Stop` does to a commit
  delay that runs.
- Two requests of the demo server at the same time.
- The detector's checks on proposals, NEWVIEWs and QCs, which no scenario calls.
- Writes that fail: no storage of the repository does.
- Goroutines in the middle of a handler, at every release of the context's mutex.
- Executors whose `Verify` does not check heights.

## Plan

1. The commit delay at `Stop`, `AdaptiveTimer`, a `Stop` from a hook.
2. Requests of the demo server that overlap.
3. Splits of handlers at the context's mutex; executors that do not check heights.
