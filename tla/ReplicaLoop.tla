----------------------------- MODULE ReplicaLoop -----------------------------
(***************************************************************************)
(* One replica as its goroutines see it (hotstuff2.go, pacemaker.go,       *)
(* timer/timer.go): the caller of Start and Stop, the message loop, the    *)
(* goroutines advanceViewWithQC and propose, the view timer and its        *)
(* callbacks.  A handler is the sequence of the calls it makes that touch  *)
(* the view or the timer, and each call is a step of its own: this is the  *)
(* granularity of the locks, which HotStuff2 abstracts.  What decides      *)
(* between the calls (votes, QCs, blocks) is left open: a handler makes    *)
(* any sequence of calls its code has a path for.                          *)
(*                                                                         *)
(* The caller starts a replica only when it is stopped, which Start does   *)
(* not check, and does not stop it from a hook, where Stop would wait for  *)
(* itself.  Durations are left out: a running timer may expire at any time.*)
(***************************************************************************)
EXTENDS RealTimer, Sequences

CONSTANTS
  Leads,         \* the views this replica leads
  MaxView,       \* bound: the last view
  MaxMessages,   \* bound: messages that arrive
  MaxGoroutines  \* bound: goroutines at a time

Views == 0 .. MaxView

ASSUME LoopAssumption ==
  /\ {MaxView, MaxMessages, MaxGoroutines} \subseteq Nat
  /\ Leads \subseteq Views

VARIABLES
  phase,    \* of the caller
  loop,     \* where the message loop is
  todo,     \* todo[t]: the calls that thread t has still to make
  view,     \* the view of the context
  timer,    \* the view timer
  tick,     \* origin of the tick the loop handles
  queue,    \* messages in the channel
  arrived   \* messages that have arrived so far

vars == <<phase, loop, todo, view, timer, tick, queue, arrived>>

\* Thread 0 runs the loop, the others a goroutine each, when they have calls.
Threads == 0 .. MaxGoroutines

Ops == {"SetView", "StartTimer", "OnViewTimeout", "ProposeIn", "GoAdvance", "Propose"}

Call(op, v) == [op |-> op, view |-> v]

-----------------------------------------------------------------------------
(* The calls of the handlers *)

\* Mutation: the timer keeps running for the view before.
SetViewOnly(v) == << Call("SetView", v) >>

EnterView(v) == << Call("SetView", v), Call("StartTimer", v) >>

\* tryFormQCIfQuorum for votes of view v.
TryFormQC(v) == {<<>>} \cup {<< Call("GoAdvance", w) >> : w \in Leads \cap {v + 1}}

\* Before the vote in view v the view may be synchronised; after it, the QC may
\* be formed, and OnProgress restarts the timer.
VoteIn(v) ==
  {sync \o qc \o << Call("StartTimer", v) >> :
     sync \in IF v = view THEN {<<>>} ELSE {EnterView(v)}, qc \in TryFormQC(v)}

\* A proposal is ignored, after synchronising the view or not, or voted for.
OnProposal ==
  {<<>>} \cup {EnterView(v) : v \in {u \in Views : u > view}}
  \cup UNION {VoteIn(v) : v \in {u \in Views \ Leads : u >= view}}

OnVote == UNION {TryFormQC(v) : v \in Views}

\* Forward for a good QC, back for a quorum in a view this replica leads.
OnNewView ==
  {<<>>} \cup {EnterView(v) : v \in {u \in Views : u > view}}
  \cup {EnterView(v) \o << Call("ProposeIn", v) >> : v \in Leads \ {view}}
  \cup {<< Call("ProposeIn", v) >> : v \in Leads \cap {view}}

\* advanceView, with or without a quorum of NEWVIEWs for the new view.
AdvanceView(v) ==
  {EnterView(v)} \cup {EnterView(v) \o << Call("ProposeIn", w) >> : w \in Leads \cap {v}}

\* The goroutine advanceViewWithQC, which ends by starting propose.
AdvanceViewWithQC(v) == EnterView(v) \o << Call("Propose", v) >>

-----------------------------------------------------------------------------
(* The calls *)

\* Thread t makes its next call, which is an op and consists of calls.
Makes(t, op, calls) ==
  /\ todo[t] # <<>>
  /\ Head(todo[t]).op = op
  /\ todo' = [todo EXCEPT ![t] = calls \o Tail(@)]

SetView(t) ==
  /\ Makes(t, "SetView", <<>>)
  /\ view' = Head(todo[t]).view
  /\ timer' = IF view' = view THEN timer ELSE Age(timer)
  /\ tick' = IF view' = view THEN tick ELSE Aged(tick)
  /\ UNCHANGED <<phase, loop, queue, arrived>>

StartViewTimer(t) ==
  /\ Makes(t, "StartTimer", <<>>)
  /\ timer' = StartTimer(timer)
  /\ UNCHANGED <<phase, loop, view, tick, queue, arrived>>

\* A timeout of another view than the current one is dropped.
OnViewTimeout(t) ==
  /\ \E calls \in IF Head(todo[t]).view = view
                   THEN AdvanceView(IF view < MaxView THEN view + 1 ELSE view)
                   ELSE {<<>>} :
        Makes(t, "OnViewTimeout", calls)
  /\ tick' = "none"
  /\ UNCHANGED <<phase, loop, view, timer, queue, arrived>>

\* proposeWithNewViewQuorum, which gives up when the view has changed.
ProposeIn(t) ==
  /\ \E calls \in IF view = Head(todo[t]).view THEN TryFormQC(view) ELSE {<<>>} :
        Makes(t, "ProposeIn", calls)
  /\ UNCHANGED <<phase, loop, view, timer, tick, queue, arrived>>

\* propose, which reads the view.
Propose(t) ==
  /\ \E calls \in IF view \in Leads THEN TryFormQC(view) ELSE {<<>>} :
        Makes(t, "Propose", calls)
  /\ UNCHANGED <<phase, loop, view, timer, tick, queue, arrived>>

Free(g) == g # 0 /\ todo[g] = <<>> /\ \A h \in 1 .. g - 1 : todo[h] # <<>>

\* Starts advanceViewWithQC in a goroutine; one that does it as its last call
\* goes on with it.
GoAdvance(t) ==
  /\ todo[t] # <<>>
  /\ Head(todo[t]).op = "GoAdvance"
  /\ LET calls == AdvanceViewWithQC(Head(todo[t]).view)
     IN  IF t = 0
         THEN \E g \in Threads : /\ Free(g)
                                 /\ todo' = [todo EXCEPT ![t] = Tail(@), ![g] = calls]
         ELSE todo' = [todo EXCEPT ![t] = calls \o Tail(@)]
  /\ UNCHANGED <<phase, loop, view, timer, tick, queue, arrived>>

MakeCall(t) ==
  /\ todo[t] # <<>>
  /\ \/ SetView(t)
     \/ StartViewTimer(t)
     \/ OnViewTimeout(t)
     \/ ProposeIn(t)
     \/ Propose(t)
     \/ GoAdvance(t)

-----------------------------------------------------------------------------
(* The message loop *)

\* stopChan is closed and the loop's context cancelled.
StopRequested == phase \in {"closing", "stopping"}

\* The loop is at this place, between two handlers.
At(place) == loop = place /\ todo[0] = <<>>

\* Mutation: a closed channel, from which a message is always received.
HandleAnyway ==
  /\ queue' = queue - 1
  /\ \E calls \in OnProposal \cup OnVote \cup OnNewView :
        todo' = [todo EXCEPT ![0] = calls]
  /\ UNCHANGED <<phase, view, timer, tick, arrived>>

HandleMessage ==
  /\ queue > 0
  /\ queue' = queue - 1
  /\ \E calls \in OnProposal \cup OnVote \cup OnNewView :
        todo' = [todo EXCEPT ![0] = calls]
  /\ UNCHANGED <<phase, view, timer, tick, arrived>>

CheckStop ==
  /\ At("top")
  /\ loop' = IF StopRequested THEN "ended" ELSE "drain"
  /\ UNCHANGED <<phase, todo, view, timer, tick, queue, arrived>>

DrainMessage == At("drain") /\ HandleMessage /\ loop' = loop

Drained ==
  /\ At("drain")
  /\ queue = 0
  /\ loop' = "wait"
  /\ UNCHANGED <<phase, todo, view, timer, tick, queue, arrived>>

\* Mutation: the blocking select has no case for stopChan.
NeverStopped == FALSE

WaitStopped ==
  /\ At("wait")
  /\ StopRequested
  /\ loop' = "ended"
  /\ UNCHANGED <<phase, todo, view, timer, tick, queue, arrived>>

WaitMessage == At("wait") /\ HandleMessage /\ loop' = "top"

WaitTick ==
  /\ At("wait")
  /\ timer.ch # "none"
  /\ tick' = timer.ch
  /\ timer' = Take(timer)
  /\ loop' = "tick"
  /\ UNCHANGED <<phase, todo, view, queue, arrived>>

\* The view is read after the tick was taken, and handed to the handler.
HandleTick ==
  /\ At("tick")
  /\ todo' = [todo EXCEPT ![0] = << Call("OnViewTimeout", view) >>]
  /\ loop' = "top"
  /\ UNCHANGED <<phase, view, timer, tick, queue, arrived>>

LoopStep ==
  \/ CheckStop
  \/ DrainMessage
  \/ Drained
  \/ WaitStopped
  \/ WaitMessage
  \/ WaitTick
  \/ HandleTick

-----------------------------------------------------------------------------
(* The caller and the environment *)

\* Start arms the timer, then starts the loop and, as a leader, propose.
Start ==
  /\ phase = "stopped"
  /\ phase' = "starting"
  /\ timer' = StartTimer(timer)
  /\ UNCHANGED <<loop, todo, view, tick, queue, arrived>>

Started ==
  /\ phase = "starting"
  /\ phase' = "started"
  /\ loop' = "top"
  /\ IF view \in Leads
     THEN \E g \in Threads : Free(g) /\ todo' = [todo EXCEPT ![g] = << Call("Propose", view) >>]
     ELSE todo' = todo
  /\ UNCHANGED <<view, timer, tick, queue, arrived>>

\* Stop closes stopChan, stops the pacemaker and waits for the loop to end.
Stop ==
  /\ phase = "started"
  /\ phase' = "closing"
  /\ UNCHANGED <<loop, todo, view, timer, tick, queue, arrived>>

StopPacemaker ==
  /\ phase = "closing"
  /\ phase' = "stopping"
  /\ timer' = StopTimer(timer)
  /\ UNCHANGED <<loop, todo, view, tick, queue, arrived>>

\* Mutation: Stop does not wait.
StoppedEarly ==
  /\ phase = "stopping"
  /\ phase' = "stopped"
  /\ UNCHANGED <<loop, todo, view, timer, tick, queue, arrived>>

Stopped ==
  /\ phase = "stopping"
  /\ loop = "ended"
  /\ phase' = "stopped"
  /\ UNCHANGED <<loop, todo, view, timer, tick, queue, arrived>>

CallerStep == Started \/ StopPacemaker \/ Stopped

TimerExpires ==
  /\ CanExpire(timer)
  /\ timer' = Expire(timer)
  /\ UNCHANGED <<phase, loop, todo, view, tick, queue, arrived>>

CallbackRuns ==
  /\ \E o \in Ticks : timer.callbacks[o] > 0 /\ timer' = Deliver(timer, o)
  /\ UNCHANGED <<phase, loop, todo, view, tick, queue, arrived>>

MessageArrives ==
  /\ arrived < MaxMessages
  /\ arrived' = arrived + 1
  /\ queue' = queue + 1
  /\ UNCHANGED <<phase, loop, todo, view, timer, tick>>

Init ==
  /\ phase = "stopped"
  /\ loop = "ended"
  /\ todo = [t \in Threads |-> <<>>]
  /\ view = 0
  /\ timer = NewTimer
  /\ tick = "none"
  /\ queue = 0
  /\ arrived = 0

Next ==
  \/ Start
  \/ Stop
  \/ CallerStep
  \/ LoopStep
  \/ \E t \in Threads : MakeCall(t)
  \/ TimerExpires
  \/ CallbackRuns
  \/ MessageArrives

\* Go runs every goroutine that can run, and a Start or Stop under way goes
\* on; nobody has to call them, and no message has to arrive.
Fairness ==
  /\ WF_vars(CallerStep)
  /\ WF_vars(LoopStep)
  /\ \A t \in Threads : WF_vars(MakeCall(t))
  /\ WF_vars(TimerExpires)
  /\ WF_vars(CallbackRuns)

Spec == Init /\ [][Next]_vars /\ Fairness

-----------------------------------------------------------------------------
(* Properties *)

\* Type invariant.  In particular the loop never handles more messages than
\* have arrived, and every call is made in a view of the model.
TypeOK ==
  /\ phase \in {"stopped", "starting", "started", "closing", "stopping"}
  /\ loop \in {"top", "drain", "wait", "tick", "ended"}
  /\ todo \in [Threads -> Seq([op : Ops, view : Views])]
  /\ view \in Views
  /\ timer \in TimerStates
  /\ tick \in Origins
  /\ queue \in 0 .. arrived
  /\ arrived \in 0 .. MaxMessages

\* A thread has still to start the timer.
StartsTimer(calls) == \E i \in 1 .. Len(calls) : calls[i].op = "StartTimer"
TimerToStart == \E t \in Threads : StartsTimer(todo[t])

\* Between two handlers of a running replica, with no goroutine about to
\* restart the timer.
Quiet == phase = "started" /\ loop \in {"top", "drain", "wait"} /\ todo[0] = <<>> /\ ~TimerToStart

\* The timer is never lost: a running replica that waits for messages has a
\* tick coming, whatever restarted or drained the timer before (timer.go:46-83,
\* hotstuff2.go:199-202).
TimerNeverLost == Quiet => WillTick(timer)

\* and the timer it has running was started in the view it is in: everything
\* that changes the view restarts it (hotstuff2.go:796, 840).
FreshTimer == Quiet => timer.pending # "stale"

\* The loop runs while the replica is started, and has made its last call when
\* Stop returns (hotstuff2.go:158-160): a replica never runs two loops.
LoopFollowsPhase ==
  /\ phase = "started" => loop # "ended"
  /\ phase \in {"stopped", "starting"} => loop = "ended" /\ todo[0] = <<>>

\* Every view ends while the replica runs, if only by a timeout: no order of
\* restarts, drains and late callbacks leaves it waiting in a view for ever
\* (hotstuff2.go:165-203, timer.go:46-67).
ViewsEnd ==
  \A v \in 0 .. MaxView - 1 :
    (phase = "started" /\ view = v) ~> (view # v \/ phase # "started")

\* Stop returns, whatever the loop is doing when it is called
\* (hotstuff2.go:137-160).
StopReturns == phase = "closing" ~> phase = "stopped"
==============================================================================
