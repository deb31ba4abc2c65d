---------------------------- MODULE TimedHotStuff2 ----------------------------
(***************************************************************************)
(* The replicas of HotStuff2 with their pacemakers, in time.  A message    *)
(* takes one tick, or two if it is in Slow; a handler takes none, unless   *)
(* it sleeps.  Within a tick the replicas act one after the other: what    *)
(* one does reaches the others a tick later, so that no other order        *)
(* differs.  A replica's own messages, goroutines and timers come in any   *)
(* order.                                                                  *)
(*                                                                         *)
(* Each step of HotStuff2 makes the calls to the pacemaker that its code   *)
(* makes: Start where it sets a view, OnProgress after a vote, OnCommit    *)
(* after a commit, IncreaseTimeout at the end of a timeout.  A proposal on *)
(* NEWVIEWs that has to wait for the minimum block time takes two steps,   *)
(* between which the message loop sleeps.                                  *)
(***************************************************************************)
EXTENDS HotStuff2, Pacemaker

CONSTANTS
  Crashes,   \* the sets of replicas that may be down, from the start
  Joins,     \* bound: <<r, t>>: r may start late, t ticks before view 0 times out
  Slow,      \* <<type, to>> of messages that may take a second tick
  Followed   \* bound: replicas whose commit delay timer is represented

VARIABLES
  pm,      \* pm[r]: the pacemaker of replica r
  since,   \* since[r]: ticks since its last commit (Context.lastCommitTime)
  wake,    \* wake[r][v]: ticks that propose has still to sleep before view v
  nap,     \* nap[r]: the proposal before which the loop of r sleeps, if any
  due,     \* due[r]: messages of inbox[r] that arrive in this tick
  held,    \* held[r]: messages of inbox[r] that take a second tick
  down,    \* replicas that have crashed or not started
  history  \* [expired: timeouts so far, complete: all were up from the start]

timedVars == <<vars, pm, since, wake, nap, due, held, down, history>>

ASSUME TimedAssumption ==
  /\ MinBlockTime = (Config.MinBlockTime > 0)
  /\ Crashes \subseteq SUBSET Replicas
  /\ Joins \subseteq Replicas \X (Nat \ {0})

-----------------------------------------------------------------------------
(* What r has to do before the next tick *)

TimerExpired(r) ==
  pm[r].left = 0 /\ <<r, ctx[r].view>> \in Timers /\ ctx[r].view < MaxView

Runnable(r, t) == t.kind = "create" => wake[r][t.view] = 0

Quiet(r) ==
  \/ r \in down
  \/ /\ nap[r] = {} => due[r] = {} /\ ~TimerExpired(r)
     /\ \A n \in nap[r] : n.left > 0
     /\ \A t \in tasks[r] : ~Runnable(r, t)
     /\ r \in Followed => ~DelayIsOver(pm[r])

Turn(r) == r \notin down /\ \A q \in 0 .. r - 1 : Quiet(q)

\* The message loop of r may take its next message or timeout.
LoopTurn(r) == Turn(r) /\ nap[r] = {}

-----------------------------------------------------------------------------
(* A step of HotStuff2 with its calls to the pacemaker *)

Committing(r) == ctx'[r].committed # ctx[r].committed

OnProgress(p) == StartTimer(p)

Paced(r, entered, voted, expired) ==
  LET entering   == IF entered THEN StartTimer(pm[r]) ELSE pm[r]
      committing == IF Committing(r) THEN OnCommit(entering) ELSE entering
      voting     == IF voted THEN OnProgress(committing) ELSE committing
  IN  /\ pm' = [pm EXCEPT ![r] = IF expired THEN IncreaseTimeout(voting) ELSE voting]
      /\ since' = IF Committing(r) THEN [since EXCEPT ![r] = 0] ELSE since
      /\ due' = [due EXCEPT ![r] = @ \cap inbox'[r]]
      /\ UNCHANGED <<held, down>>

ViewSet(r) == ctx'[r].view # ctx[r].view

Arrived(r) == inbox[r] \ inbox'[r] \subseteq due[r]

HandleProposal(r) ==
  /\ LoopTurn(r)
  /\ \/ IgnoreProposal(r)
     \/ DeferProposal(r) /\ ~CanAcceptProposal(since[r])
     \/ RejectProposal(r) /\ CanAcceptProposal(since[r])
  /\ Arrived(r)
  /\ Paced(r, ViewSet(r), FALSE, FALSE)
  /\ UNCHANGED <<wake, nap, history>>

Vote(r) ==
  /\ LoopTurn(r)
  /\ VoteForProposal(r)
  /\ CanAcceptProposal(since[r])
  /\ Arrived(r)
  /\ Paced(r, ViewSet(r), TRUE, FALSE)
  /\ UNCHANGED <<wake, nap, history>>

HandleVote(r) ==
  /\ LoopTurn(r)
  /\ ReceiveVote(r)
  /\ Arrived(r)
  /\ Paced(r, FALSE, FALSE, FALSE)
  /\ UNCHANGED <<wake, nap, history>>

\* proposeWithNewViewQuorum sleeps in the loop when a commit was too recent,
\* after a NEWVIEW or within a timeout (expired).
Sleep(r, c, v, expired) ==
  IF MayPropose(r, c, v)
  THEN {[view |-> v, left |-> TimeUntilCanPropose(since[r]), expired |-> expired]}
  ELSE {}

\* ReceiveNewView and Timeout, up to where they have to sleep.
NewViewTooSoon(r) ==
  \E m \in Received(r, "NEWVIEW") :
    LET e == SyncByNewView(r, RecordNewView(ctx[r], m), m)
    IN  /\ nap' = [nap EXCEPT ![r] = Sleep(r, e.ctx, m.view, FALSE)]
        /\ Consume(r, m, IF MayPropose(r, e.ctx, m.view)
                         THEN [e EXCEPT !.ctx = SetView(@, m.view)] ELSE e)

TimeoutTooSoon(r) ==
  LET v == ctx[r].view + 1
      e == EnterWithNewView(r, PruneVotes(ctx[r], v), v)
  IN  /\ nap' = [nap EXCEPT ![r] = Sleep(r, e.ctx, v, TRUE)]
      /\ Run(r, {}, e)

TooSoon(r) == TimeUntilCanPropose(since[r]) > 0

HandleNewView(r) ==
  /\ LoopTurn(r)
  /\ IF TooSoon(r) THEN NewViewTooSoon(r) ELSE ReceiveNewView(r) /\ UNCHANGED nap
  /\ Arrived(r)
  /\ Paced(r, ViewSet(r), FALSE, FALSE)
  /\ UNCHANGED <<wake, history>>

HandleTimeout(r) ==
  /\ LoopTurn(r)
  /\ TimerExpired(r)
  /\ IF TooSoon(r) THEN TimeoutTooSoon(r) ELSE Timeout(r) /\ UNCHANGED nap
  /\ Paced(r, TRUE, FALSE, nap'[r] = {})
  /\ history' = [history EXCEPT !.expired = @ + 1]
  /\ UNCHANGED wake

\* The loop goes on, with the QCs and the view timer it finds then.
WakeInLoop(r) ==
  \E n \in nap[r] :
    /\ Turn(r)
    /\ n.left = 0
    /\ \E p \in ProposalsOnNewViews(r, ctx[r], n.view) : Run(r, {}, p)
    /\ nap' = [nap EXCEPT ![r] = {}]
    /\ Paced(r, FALSE, FALSE, n.expired)
    /\ UNCHANGED <<wake, history>>

Advance(r) ==
  /\ Turn(r)
  /\ AdvanceViewWithQC(r)
  /\ Paced(r, TRUE, FALSE, FALSE)
  /\ UNCHANGED <<wake, nap, history>>

\* WaitForMinBlockTime, with the commit time it reads.
StartWaiting(r) ==
  /\ Turn(r)
  /\ StartPropose(r)
  /\ Paced(r, FALSE, FALSE, FALSE)
  /\ wake' = [wake EXCEPT ![r][ctx[r].view] = TimeUntilCanPropose(since[r])]
  /\ UNCHANGED <<nap, history>>

WakeAndPropose(r) ==
  /\ Turn(r)
  /\ FinishPropose(r)
  /\ \A t \in tasks[r] \ tasks'[r] : Runnable(r, t)
  /\ Paced(r, FALSE, FALSE, FALSE)
  /\ UNCHANGED <<wake, nap, history>>

-----------------------------------------------------------------------------
(* Clocks *)

\* The callbacks of the commit delay.
DelayExpires(r) ==
  /\ Turn(r)
  /\ r \in Followed
  /\ DelayIsOver(pm[r])
  /\ pm' = [pm EXCEPT ![r] = ExpireDelay(@)]
  /\ UNCHANGED <<vars, since, wake, nap, due, held, down, history>>

DelayCallback(r) ==
  /\ Turn(r)
  /\ \/ /\ pm[r].delay.begun
        /\ pm' = [pm EXCEPT ![r] = CloseDelay(@)]
     \/ /\ pm[r].late > 0
        /\ pm' = [pm EXCEPT ![r] = DropCallback(@)]
  /\ UNCHANGED <<vars, since, wake, nap, due, held, down, history>>

\* Messages that may take a second tick.
MayBeHeld(r) ==
  {m \in inbox[r] \ (due[r] \cup held[r]) : r \notin down /\ <<m.type, r>> \in Slow}

Tick ==
  /\ \A r \in Replicas : Quiet(r)
  /\ pm' = [r \in Replicas |-> Elapse(pm[r])]
  /\ since' = [r \in Replicas |->
                 IF since[r] < Config.MinBlockTime THEN since[r] + 1 ELSE since[r]]
  /\ wake' = [r \in Replicas |-> [v \in Views |-> Earlier(wake[r][v])]]
  /\ nap' = [r \in Replicas |-> {[n EXCEPT !.left = Earlier(@)] : n \in nap[r]}]
  /\ \E slow \in SUBSET UNION {{r} \X MayBeHeld(r) : r \in Replicas} :
       /\ held' = [r \in Replicas |-> {m \in inbox[r] : <<r, m>> \in slow}]
       /\ due' = [r \in Replicas |-> inbox[r] \ held'[r]]
  /\ UNCHANGED <<vars, down, history>>

\* A replica starts after the others, with what was sent to it waiting.
Join(r) ==
  /\ r \in down
  /\ \A q \in Replicas : Quiet(q)
  /\ <<r, pm[r].left>> \in Joins
  /\ down' = down \ {r}
  /\ pm' = [pm EXCEPT ![r] = NewPacemaker]
  /\ UNCHANGED <<vars, since, wake, nap, due, held, history>>

TimedInit ==
  /\ Init
  /\ pm = [r \in Replicas |-> NewPacemaker]
  /\ since = [r \in Replicas |-> Config.MinBlockTime]
  /\ wake = [r \in Replicas |-> [v \in Views |-> 0]]
  /\ nap = [r \in Replicas |-> {}]
  /\ due = [r \in Replicas |-> {}]
  /\ held = [r \in Replicas |-> {}]
  /\ down \in Crashes
  /\ history = [expired |-> 0, complete |-> down = {}]

TimedNext ==
  \/ Tick
  \/ \E r \in Replicas :
       \/ HandleProposal(r) \/ Vote(r) \/ HandleVote(r) \/ HandleNewView(r)
       \/ HandleTimeout(r) \/ WakeInLoop(r)
       \/ Advance(r) \/ StartWaiting(r) \/ WakeAndPropose(r)
       \/ DelayExpires(r) \/ DelayCallback(r)
       \/ Join(r)

\* Time goes on, goroutines run and messages are handled.
TimedSpec ==
  /\ TimedInit /\ [][TimedNext]_timedVars
  /\ WF_timedVars(TimedNext)
  /\ \A r \in Followed : WF_timedVars(DelayCallback(r))

-----------------------------------------------------------------------------
(* Properties *)

\* Every pacemaker keeps its type: its timeout stays between TimeoutPropose and
\* MaxTimeout however timeouts and commits alternate.
PacemakersOK == pm \in [Replicas -> Pacemakers]

\* While all replicas are up, from the start, no view times out, so that none
\* ends but by a proposal for the next one, although leaders wait for the
\* minimum block time and only votes and new views restart a timer
\* (docs/PROTOCOL.md:44, 231).
CalmViews == history.complete => history.expired = 0

\* The channel OnCommit returned is closed once, and not before TimeoutCommit,
\* even by a callback that waited for the mutex while the next commit replaced
\* the channel (pacemaker.go:295-301).
DelayNeverShort ==
  \A r \in Replicas :
    /\ pm[r].delay.closed <= 1
    /\ pm[r].delay.closed = 1 => pm[r].delay.age = Config.TimeoutCommit

\* The last channel handed out is closed in the end, so that whoever waits on
\* it goes on (pacemaker.go:267, 382-391).
DelaysEnd == \A r \in Followed : []<>(pm[r].delay.closed = 1)

\* With no or one replica down a block is committed: the others time out until
\* two live leaders follow each other, although the vote of a leader reaches
\* nobody (hotstuff2.go:930) and early proposals are refused for good (291).
BlocksAreCommitted == <>(\E r \in Replicas : Cardinality(ctx[r].committed) > 1)
==============================================================================
