-------------------------- MODULE ReplicaLoop_proofs --------------------------
(***************************************************************************)
(* Proofs about ReplicaLoop, for every set of views led and every bound: a *)
(* running replica never loses its timer, and the one it has is of the     *)
(* view it is in.                                                          *)
(***************************************************************************)
EXTENDS ReplicaLoop, TLAPS

Calls == [op : Ops, view : Views]

\* Whoever sets the view starts the timer next.
Paired(s) ==
  \A i \in 1 .. Len(s) :
    s[i].op = "SetView" => i + 1 \in 1 .. Len(s) /\ s[i + 1].op = "StartTimer"

Programs == {s \in Seq(Calls) : Paired(s)}

\* The loop has taken a tick, on which it will leave the view.
TickInHand ==
  \/ loop = "tick"
  \/ todo[0] # <<>> /\ Head(todo[0]).op = "OnViewTimeout" /\ Head(todo[0]).view = view

\* What is true of a running replica at any moment.
Live == WillTick(timer) \/ TimerToStart \/ TickInHand

Typed ==
  /\ phase \in {"stopped", "starting", "started", "closing", "stopping"}
  /\ loop \in {"top", "drain", "wait", "tick", "ended"}
  /\ todo \in [Threads -> Programs]
  /\ view \in Views
  /\ timer \in TimerStates
  /\ tick \in Origins
  /\ arrived \in 0 .. MaxMessages
  /\ queue \in 0 .. arrived

IInv ==
  /\ Typed
  /\ loop \in {"tick", "ended"} => todo[0] = <<>>
  /\ LoopFollowsPhase
  /\ timer.pending = "stale" => TimerToStart
  /\ phase \in {"starting", "started"} => Live

-----------------------------------------------------------------------------
(* Sequences of calls *)

LEMMA EmptyProgram == <<>> \in Programs /\ ~StartsTimer(<<>>)
  BY DEF Programs, Paired, StartsTimer

LEMMA TailProgram ==
  ASSUME NEW s \in Programs, s # <<>>
  PROVE  /\ Tail(s) \in Programs
         /\ Head(s) \in Calls
         /\ Head(s).op = "SetView" => StartsTimer(Tail(s))
         /\ Head(s).op # "StartTimer" => (StartsTimer(s) => StartsTimer(Tail(s)))
<1>1. /\ s \in Seq(Calls)
      /\ Tail(s) \in Seq(Calls)
      /\ Head(s) = s[1]
      /\ s[1] \in Calls
      /\ Len(s) \in Nat \ {0}
      /\ Len(Tail(s)) = Len(s) - 1
      /\ \A i \in 1 .. Len(Tail(s)) : Tail(s)[i] = s[i + 1]
  BY DEF Programs
<1>2. Paired(Tail(s))
  <2>1. SUFFICES ASSUME NEW i \in 1 .. Len(Tail(s)), Tail(s)[i].op = "SetView"
                 PROVE  i + 1 \in 1 .. Len(Tail(s)) /\ Tail(s)[i + 1].op = "StartTimer"
    BY DEF Paired
  <2>2. i + 1 \in 1 .. Len(s) /\ s[i + 1].op = "SetView"
    BY <1>1, <2>1
  <2>3. (i + 1) + 1 \in 1 .. Len(s) /\ s[(i + 1) + 1].op = "StartTimer"
    BY <2>2 DEF Programs, Paired
  <2>4. i + 1 \in 1 .. Len(Tail(s))
    BY <1>1, <2>3
  <2> QED BY <1>1, <2>3, <2>4
<1>3. ASSUME NEW i \in 1 .. Len(s), s[i].op = "StartTimer", i # 1
      PROVE  StartsTimer(Tail(s))
  <2>1. i - 1 \in 1 .. Len(Tail(s)) /\ (i - 1) + 1 = i
    BY <1>1, <1>3
  <2>2. Tail(s)[i - 1].op = "StartTimer"
    BY <1>1, <1>3, <2>1
  <2> QED BY <2>1, <2>2 DEF StartsTimer
<1>4. ASSUME Head(s).op = "SetView" PROVE StartsTimer(Tail(s))
  <2>1. 1 \in 1 .. Len(s)
    BY <1>1
  <2>2. 1 + 1 \in 1 .. Len(s) /\ s[1 + 1].op = "StartTimer"
    BY <1>1, <1>4, <2>1 DEF Programs, Paired
  <2> QED BY <2>2, <1>3
<1>5. ASSUME Head(s).op # "StartTimer", StartsTimer(s) PROVE StartsTimer(Tail(s))
  BY <1>1, <1>3, <1>5 DEF StartsTimer
<1> QED BY <1>1, <1>2, <1>4, <1>5 DEF Programs

LEMMA ConcatPrograms ==
  ASSUME NEW s \in Programs, NEW u \in Programs
  PROVE  /\ s \o u \in Programs
         /\ StartsTimer(s) \/ StartsTimer(u) => StartsTimer(s \o u)
<1> DEFINE w == s \o u
<1>1. /\ s \in Seq(Calls) /\ u \in Seq(Calls) /\ w \in Seq(Calls)
      /\ Len(s) \in Nat /\ Len(u) \in Nat
      /\ Len(w) = Len(s) + Len(u)
      /\ \A i \in 1 .. Len(w) : w[i] = IF i <= Len(s) THEN s[i] ELSE u[i - Len(s)]
  BY DEF Programs
<1>2. \A i \in 1 .. Len(s) : i \in 1 .. Len(w) /\ w[i] = s[i]
  BY <1>1
<1>3. \A i \in 1 .. Len(u) : i + Len(s) \in 1 .. Len(w) /\ w[i + Len(s)] = u[i]
  <2>1. TAKE i \in 1 .. Len(u)
  <2>2. i + Len(s) \in 1 .. Len(w) /\ ~(i + Len(s) <= Len(s)) /\ (i + Len(s)) - Len(s) = i
    BY <1>1
  <2> QED BY <1>1, <2>2
<1> HIDE DEF w
<1>4. Paired(w)
  <2>1. SUFFICES ASSUME NEW i \in 1 .. Len(w), w[i].op = "SetView"
                 PROVE  i + 1 \in 1 .. Len(w) /\ w[i + 1].op = "StartTimer"
    BY DEF Paired
  <2>2. CASE i <= Len(s)
    <3>1. i \in 1 .. Len(s) /\ s[i].op = "SetView"
      BY <1>1, <2>1, <2>2
    <3>2. i + 1 \in 1 .. Len(s) /\ s[i + 1].op = "StartTimer"
      BY <3>1 DEF Programs, Paired
    <3> QED BY <1>2, <3>2
  <2>3. CASE ~(i <= Len(s))
    <3> DEFINE j == i - Len(s)
    <3>1. j \in 1 .. Len(u) /\ (j + 1) + Len(s) = i + 1
      BY <1>1, <2>3
    <3>2. u[j].op = "SetView"
      BY <1>1, <2>1, <2>3
    <3> HIDE DEF j
    <3>3. j + 1 \in 1 .. Len(u) /\ u[j + 1].op = "StartTimer"
      BY <3>1, <3>2 DEF Programs, Paired
    <3> QED BY <1>3, <3>1, <3>3
  <2> QED BY <2>2, <2>3
<1>5. ASSUME StartsTimer(s) \/ StartsTimer(u) PROVE StartsTimer(w)
  BY <1>2, <1>3, <1>5 DEF StartsTimer
<1> QED BY <1>1, <1>4, <1>5 DEF Programs, w

-----------------------------------------------------------------------------
(* The calls of the handlers are programs *)

LEMMA OneCall ==
  ASSUME NEW op \in Ops \ {"SetView"}, NEW v \in Views
  PROVE  /\ << Call(op, v) >> \in Programs
         /\ op = "StartTimer" => StartsTimer(<< Call(op, v) >>)
<1> DEFINE s == << Call(op, v) >>
<1>1. s \in Seq(Calls) /\ Len(s) = 1 /\ s[1].op = op
  BY DEF Calls, Call
<1> HIDE DEF s
<1>2. Paired(s)
  BY <1>1 DEF Paired
<1>3. op = "StartTimer" => StartsTimer(s)
  BY <1>1 DEF StartsTimer
<1> QED BY <1>1, <1>2, <1>3 DEF Programs, s

LEMMA EnterViewProgram ==
  ASSUME NEW v \in Views
  PROVE  EnterView(v) \in Programs /\ StartsTimer(EnterView(v))
<1> DEFINE s == EnterView(v)
<1>1. s \in Seq(Calls) /\ Len(s) = 2 /\ s[1].op = "SetView" /\ s[2].op = "StartTimer"
  BY DEF EnterView, Calls, Call, Ops
<1> HIDE DEF s
<1>2. Paired(s)
  BY <1>1 DEF Paired
<1>3. StartsTimer(s)
  BY <1>1 DEF StartsTimer
<1> QED BY <1>1, <1>2, <1>3 DEF Programs, s

LEMMA TryFormQCProgram ==
  ASSUME NEW v \in Views
  PROVE  TryFormQC(v) \subseteq Programs
<1>1. \A w \in Leads : << Call("GoAdvance", w) >> \in Programs
  BY LoopAssumption, OneCall DEF Ops
<1> QED BY <1>1, EmptyProgram DEF TryFormQC

LEMMA AdvanceViewProgram ==
  ASSUME NEW v \in Views, NEW calls \in AdvanceView(v)
  PROVE  calls \in Programs /\ StartsTimer(calls)
<1>1. EnterView(v) \in Programs /\ StartsTimer(EnterView(v))
  BY EnterViewProgram
<1>2. << Call("ProposeIn", v) >> \in Programs
  BY OneCall DEF Ops
<1>3. /\ EnterView(v) \o << Call("ProposeIn", v) >> \in Programs
      /\ StartsTimer(EnterView(v) \o << Call("ProposeIn", v) >>)
  BY <1>1, <1>2, ConcatPrograms
<1>4. calls = EnterView(v) \/ calls = EnterView(v) \o << Call("ProposeIn", v) >>
  BY DEF AdvanceView
<1> QED BY <1>1, <1>3, <1>4

LEMMA AdvanceViewWithQCProgram ==
  ASSUME NEW v \in Views
  PROVE  AdvanceViewWithQC(v) \in Programs
BY EnterViewProgram, OneCall, ConcatPrograms DEF AdvanceViewWithQC, Ops

LEMMA VoteInProgram ==
  ASSUME NEW v \in Views
  PROVE  VoteIn(v) \subseteq Programs
<1>1. ASSUME NEW calls \in VoteIn(v) PROVE calls \in Programs
  <2>1. PICK sync \in IF v = view THEN {<<>>} ELSE {EnterView(v)}, qc \in TryFormQC(v) :
          calls = sync \o qc \o << Call("StartTimer", v) >>
    BY <1>1 DEF VoteIn
  <2>2. sync \in Programs /\ qc \in Programs
    BY EnterViewProgram, EmptyProgram, TryFormQCProgram
  <2>3. << Call("StartTimer", v) >> \in Programs
    BY OneCall DEF Ops
  <2>4. sync \o qc \in Programs
    BY <2>2, ConcatPrograms
  <2> QED BY <2>1, <2>3, <2>4, ConcatPrograms
<1> QED BY <1>1

LEMMA OnProposalProgram == OnProposal \subseteq Programs
BY EmptyProgram, EnterViewProgram, VoteInProgram DEF OnProposal

LEMMA OnVoteProgram == OnVote \subseteq Programs
BY TryFormQCProgram DEF OnVote

LEMMA OnNewViewProgram == OnNewView \subseteq Programs
<1>1. \A v \in Views : EnterView(v) \in Programs
  BY EnterViewProgram
<1>2. \A v \in Leads : << Call("ProposeIn", v) >> \in Programs
  BY LoopAssumption, OneCall DEF Ops
<1>3. \A v \in Leads : EnterView(v) \o << Call("ProposeIn", v) >> \in Programs
  BY <1>1, <1>2, LoopAssumption, ConcatPrograms
<1> QED BY <1>1, <1>2, <1>3, EmptyProgram DEF OnNewView

-----------------------------------------------------------------------------
(* The operations of the timer *)

LEMMA NewTimerState == NewTimer \in TimerStates /\ NewTimer.pending = "none"
BY CallbacksAssumption DEF NewTimer, TimerStates, Origins, Ticks

LEMMA TimerOperations ==
  ASSUME NEW t \in TimerStates
  PROVE  /\ Age(t) \in TimerStates
         /\ StartTimer(t) \in TimerStates /\ StartTimer(t).pending = "fresh"
         /\ StopTimer(t) \in TimerStates /\ StopTimer(t).pending \in {t.pending, "none"}
         /\ Take(t) \in TimerStates /\ Take(t).pending = t.pending
<1>1. Age(t) \in TimerStates
  <2>1. t.callbacks["stale"] \in Nat /\ t.callbacks["fresh"] \in Nat
    BY DEF TimerStates, Ticks
  <2>2. Aged(t.pending) \in Origins /\ Aged(t.ch) \in Origins
    BY DEF TimerStates, Aged, Origins, Ticks
  <2>3. [fresh |-> 0, stale |-> IF t.callbacks["stale"] + t.callbacks["fresh"] > MaxCallbacks
                                THEN MaxCallbacks
                                ELSE t.callbacks["stale"] + t.callbacks["fresh"]]
          \in [Ticks -> 0 .. MaxCallbacks]
    BY <2>1, CallbacksAssumption DEF Ticks
  <2> QED BY <2>2, <2>3 DEF Age, TimerStates
<1>2. Cancel(t) \in TimerStates /\ Cancel(t).pending \in {t.pending, "none"}
  BY DEF Cancel, TimerStates, Origins
<1>3. StartTimer(t) \in TimerStates /\ StartTimer(t).pending = "fresh"
  BY <1>2 DEF StartTimer, TimerStates, Origins, Ticks
<1>4. StopTimer(t) \in TimerStates /\ StopTimer(t).pending \in {t.pending, "none"}
  BY <1>2 DEF StopTimer, TimerStates
<1>5. Take(t) \in TimerStates /\ Take(t).pending = t.pending
  BY DEF Take, TimerStates, Origins
<1> QED BY <1>1, <1>3, <1>4, <1>5

LEMMA ExpireOperation ==
  ASSUME NEW t \in TimerStates, CanExpire(t)
  PROVE  Expire(t) \in TimerStates /\ Expire(t).pending = "none" /\ WillTick(Expire(t))
<1>1. t.pending \in Ticks /\ t.callbacks[t.pending] + 1 \in 1 .. MaxCallbacks
  BY CallbacksAssumption DEF CanExpire, TimerStates, Origins
<1>2. Expire(t) \in TimerStates /\ Expire(t).pending = "none"
  <2>1. [t.callbacks EXCEPT ![t.pending] = @ + 1] \in [Ticks -> 0 .. MaxCallbacks]
    BY <1>1 DEF TimerStates
  <2> QED BY <2>1 DEF Expire, TimerStates, Origins
<1>3. Expire(t).callbacks[t.pending] = t.callbacks[t.pending] + 1
  BY <1>1 DEF Expire, TimerStates
<1> QED BY <1>1, <1>2, <1>3 DEF WillTick

LEMMA DeliverOperation ==
  ASSUME NEW t \in TimerStates, NEW o \in Ticks, t.callbacks[o] > 0
  PROVE  Deliver(t, o) \in TimerStates /\ Deliver(t, o).pending = t.pending
         /\ WillTick(Deliver(t, o))
<1>1. t.callbacks[o] - 1 \in 0 .. MaxCallbacks
  BY CallbacksAssumption DEF TimerStates
<1>2. Deliver(t, o) \in TimerStates /\ Deliver(t, o).pending = t.pending
  BY <1>1 DEF Deliver, TimerStates, Origins
<1>3. Deliver(t, o).ch # "none"
  BY DEF Deliver, TimerStates, Ticks
<1> QED BY <1>2, <1>3 DEF WillTick

-----------------------------------------------------------------------------
(* Steps *)

\* What a call leaves, whatever it is.
LEMMA MakesCall ==
  ASSUME Typed, NEW t \in Threads, NEW op \in Ops, NEW calls \in Programs,
         Makes(t, op, calls)
  PROVE  /\ todo' \in [Threads -> Programs]
         /\ t # 0 \/ todo[0] = <<>> => todo'[0] = todo[0]
         /\ op # "StartTimer" => (TimerToStart => TimerToStart')
         /\ StartsTimer(calls) \/ op = "SetView" => TimerToStart'
         /\ Head(todo[t]) \in Calls /\ Head(todo[t]).op = op
<1>1. /\ todo \in [Threads -> Programs]
      /\ todo[t] # <<>> /\ Head(todo[t]).op = op
      /\ todo' = [todo EXCEPT ![t] = calls \o Tail(todo[t])]
  BY DEF Makes, Typed
<1>2. /\ Tail(todo[t]) \in Programs
      /\ Head(todo[t]) \in Calls
      /\ op = "SetView" => StartsTimer(Tail(todo[t]))
      /\ op # "StartTimer" => (StartsTimer(todo[t]) => StartsTimer(Tail(todo[t])))
  BY <1>1, TailProgram
<1>3. /\ calls \o Tail(todo[t]) \in Programs
      /\ StartsTimer(calls) \/ StartsTimer(Tail(todo[t])) => StartsTimer(calls \o Tail(todo[t]))
  BY <1>2, ConcatPrograms
<1>4. /\ todo' \in [Threads -> Programs]
      /\ todo'[t] = calls \o Tail(todo[t])
      /\ \A u \in Threads \ {t} : todo'[u] = todo[u]
  BY <1>1, <1>3
<1>5. t # 0 \/ todo[0] = <<>> => todo'[0] = todo[0]
  BY <1>1, <1>4, LoopAssumption DEF Threads
<1>6. ASSUME op # "StartTimer", TimerToStart PROVE TimerToStart'
  <2>1. PICK u \in Threads : StartsTimer(todo[u])
    BY <1>6 DEF TimerToStart
  <2>2. StartsTimer(todo'[u])
    BY <1>2, <1>3, <1>4, <1>6, <2>1
  <2> QED BY <2>2 DEF TimerToStart, StartsTimer
<1>7. ASSUME StartsTimer(calls) \/ op = "SetView" PROVE TimerToStart'
  <2>1. StartsTimer(todo'[t])
    BY <1>2, <1>3, <1>4, <1>7
  <2> QED BY <2>1 DEF TimerToStart, StartsTimer
<1> QED BY <1>1, <1>2, <1>4, <1>5, <1>6, <1>7

\* A call that touches neither the view nor the timer.
LEMMA PlainCall ==
  ASSUME IInv, NEW t \in Threads, NEW op \in Ops \ {"SetView", "StartTimer", "OnViewTimeout"},
         NEW calls \in Programs, Makes(t, op, calls),
         UNCHANGED <<phase, loop, view, timer, tick, queue, arrived>>
  PROVE  IInv'
<1>1. /\ todo' \in [Threads -> Programs]
      /\ t # 0 \/ todo[0] = <<>> => todo'[0] = todo[0]
      /\ TimerToStart => TimerToStart'
      /\ Head(todo[t]).op = op /\ todo[t] # <<>>
  BY MakesCall DEF IInv, Makes
<1>2. Typed'
  BY <1>1 DEF IInv, Typed
<1>3. (loop \in {"tick", "ended"} => todo[0] = <<>>)' /\ LoopFollowsPhase'
  BY <1>1 DEF IInv, LoopFollowsPhase
<1>4. TickInHand => TickInHand'
  BY <1>1 DEF IInv, TickInHand
<1>5. (timer.pending = "stale" => TimerToStart)'
  BY <1>1 DEF IInv
<1>6. (phase \in {"starting", "started"} => Live)'
  BY <1>1, <1>4 DEF IInv, Live
<1> QED BY <1>2, <1>3, <1>5, <1>6 DEF IInv

LEMMA SetViewStep ==
  ASSUME IInv, NEW t \in Threads, SetView(t)
  PROVE  IInv'
<1>1. Makes(t, "SetView", <<>>) /\ <<>> \in Programs /\ "SetView" \in Ops
  BY EmptyProgram DEF SetView, Ops
<1>2. /\ todo' \in [Threads -> Programs]
      /\ todo[0] = <<>> => todo'[0] = <<>>
      /\ TimerToStart'
      /\ Head(todo[t]) \in Calls
  BY <1>1, MakesCall DEF IInv
<1>3. timer' \in TimerStates /\ tick' \in Origins /\ view' \in Views
  BY <1>2, TimerOperations DEF SetView, IInv, Typed, Calls, Aged, Origins, Ticks
<1>4. UNCHANGED <<phase, loop, queue, arrived>>
  BY DEF SetView
<1>5. Typed'
  BY <1>2, <1>3, <1>4 DEF IInv, Typed
<1>6. (loop \in {"tick", "ended"} => todo[0] = <<>>)' /\ LoopFollowsPhase'
  BY <1>2, <1>4 DEF IInv, LoopFollowsPhase
<1> QED BY <1>2, <1>5, <1>6 DEF IInv, Live

LEMMA StartViewTimerStep ==
  ASSUME IInv, NEW t \in Threads, StartViewTimer(t)
  PROVE  IInv'
<1>1. Makes(t, "StartTimer", <<>>) /\ <<>> \in Programs /\ "StartTimer" \in Ops
  BY EmptyProgram DEF StartViewTimer, Ops
<1>2. /\ todo' \in [Threads -> Programs]
      /\ todo[0] = <<>> => todo'[0] = <<>>
  BY <1>1, MakesCall DEF IInv
<1>3. timer' \in TimerStates /\ timer'.pending = "fresh"
  BY TimerOperations DEF StartViewTimer, IInv, Typed
<1>4. UNCHANGED <<phase, loop, view, tick, queue, arrived>>
  BY DEF StartViewTimer
<1>5. Typed'
  BY <1>2, <1>3, <1>4 DEF IInv, Typed
<1>6. (loop \in {"tick", "ended"} => todo[0] = <<>>)' /\ LoopFollowsPhase'
  BY <1>2, <1>4 DEF IInv, LoopFollowsPhase
<1> QED BY <1>3, <1>5, <1>6 DEF IInv, Live, WillTick

LEMMA OnViewTimeoutStep ==
  ASSUME IInv, NEW t \in Threads, OnViewTimeout(t)
  PROVE  IInv'
<1>1. PICK calls \in IF Head(todo[t]).view = view
                     THEN AdvanceView(IF view < MaxView THEN view + 1 ELSE view)
                     ELSE {<<>>} :
        Makes(t, "OnViewTimeout", calls)
  BY DEF OnViewTimeout
<1>2. calls \in Programs /\ (Head(todo[t]).view = view => StartsTimer(calls))
  <2>1. (IF view < MaxView THEN view + 1 ELSE view) \in Views
    BY LoopAssumption DEF IInv, Typed, Views
  <2> QED BY <1>1, <2>1, AdvanceViewProgram, EmptyProgram
<1>3. "OnViewTimeout" \in Ops
  BY DEF Ops
<1>4. /\ todo' \in [Threads -> Programs]
      /\ t # 0 \/ todo[0] = <<>> => todo'[0] = todo[0]
      /\ TimerToStart => TimerToStart'
      /\ StartsTimer(calls) => TimerToStart'
      /\ todo[t] # <<>>
  BY <1>1, <1>2, <1>3, MakesCall DEF IInv, Makes
<1>5. UNCHANGED <<phase, loop, view, timer, queue, arrived>> /\ tick' \in Origins
  BY DEF OnViewTimeout, Origins
<1>6. Typed'
  BY <1>4, <1>5 DEF IInv, Typed
<1>7. (loop \in {"tick", "ended"} => todo[0] = <<>>)' /\ LoopFollowsPhase'
  BY <1>4, <1>5 DEF IInv, LoopFollowsPhase
<1>8. TickInHand => TickInHand' \/ TimerToStart'
  BY <1>2, <1>4, <1>5 DEF IInv, TickInHand
<1>9. (timer.pending = "stale" => TimerToStart)'
  BY <1>4, <1>5 DEF IInv
<1>10. (phase \in {"starting", "started"} => Live)'
  BY <1>4, <1>5, <1>8 DEF IInv, Live
<1> QED BY <1>6, <1>7, <1>9, <1>10 DEF IInv

LEMMA GoAdvanceStep ==
  ASSUME IInv, NEW t \in Threads, GoAdvance(t)
  PROVE  IInv'
<1> DEFINE calls == AdvanceViewWithQC(Head(todo[t]).view)
<1>1. /\ todo \in [Threads -> Programs]
      /\ todo[t] # <<>> /\ Head(todo[t]).op = "GoAdvance"
      /\ UNCHANGED <<phase, loop, view, timer, tick, queue, arrived>>
  BY DEF GoAdvance, IInv, Typed
<1>2. /\ Tail(todo[t]) \in Programs
      /\ Head(todo[t]).view \in Views
      /\ StartsTimer(todo[t]) => StartsTimer(Tail(todo[t]))
  BY <1>1, TailProgram DEF Calls
<1>3. calls \in Programs
  BY <1>2, AdvanceViewWithQCProgram
<1> HIDE DEF calls
<1>4. CASE t # 0
  <2>1. Makes(t, "GoAdvance", calls)
    BY <1>4 DEF GoAdvance, Makes, calls
  <2> QED BY <1>1, <1>3, <2>1, PlainCall DEF Ops
<1>5. CASE t = 0
  <2>1. PICK g \in Threads :
          Free(g) /\ todo' = [todo EXCEPT ![0] = Tail(todo[0]), ![g] = calls]
    BY <1>5 DEF GoAdvance, calls
  <2>2. g # 0 /\ todo[g] = <<>> /\ 0 \in Threads
    BY <1>5, <2>1 DEF Free
  <2>3. /\ todo' \in [Threads -> Programs]
        /\ todo'[0] = Tail(todo[0]) /\ todo'[g] = calls
        /\ \A u \in Threads \ {0, g} : todo'[u] = todo[u]
    BY <1>1, <1>2, <1>3, <1>5, <2>1, <2>2
  <2>4. TimerToStart => TimerToStart'
    <3>1. SUFFICES ASSUME NEW u \in Threads, StartsTimer(todo[u]) PROVE TimerToStart'
      BY DEF TimerToStart
    <3>2. StartsTimer(todo'[u])
      BY <1>2, <1>5, <2>2, <2>3, <3>1, EmptyProgram
    <3> QED BY <3>2 DEF TimerToStart, StartsTimer
  <2>5. Typed'
    BY <1>1, <2>3 DEF IInv, Typed
  <2>6. loop \notin {"tick", "ended"} /\ ~TickInHand
    BY <1>1, <1>5 DEF IInv, TickInHand
  <2>7. (loop \in {"tick", "ended"} => todo[0] = <<>>)' /\ LoopFollowsPhase'
    BY <1>1, <2>6 DEF IInv, LoopFollowsPhase
  <2>8. (timer.pending = "stale" => TimerToStart)' /\ (phase \in {"starting", "started"} => Live)'
    BY <1>1, <2>4, <2>6 DEF IInv, Live
  <2> QED BY <2>5, <2>7, <2>8 DEF IInv
<1> QED BY <1>4, <1>5

LEMMA MakeCallStep ==
  ASSUME IInv, NEW t \in Threads, MakeCall(t)
  PROVE  IInv'
<1>1. CASE SetView(t)
  BY <1>1, SetViewStep
<1>2. CASE StartViewTimer(t)
  BY <1>2, StartViewTimerStep
<1>3. CASE OnViewTimeout(t)
  BY <1>3, OnViewTimeoutStep
<1>4. TryFormQC(view) \subseteq Programs
  BY TryFormQCProgram DEF IInv, Typed
<1>5. CASE ProposeIn(t)
  <2>1. PICK calls \in Programs : Makes(t, "ProposeIn", calls)
    BY <1>4, <1>5, EmptyProgram DEF ProposeIn
  <2> QED BY <1>5, <2>1, PlainCall DEF ProposeIn, Ops
<1>6. CASE Propose(t)
  <2>1. PICK calls \in Programs : Makes(t, "Propose", calls)
    BY <1>4, <1>6, EmptyProgram DEF Propose
  <2> QED BY <1>6, <2>1, PlainCall DEF Propose, Ops
<1>7. CASE GoAdvance(t)
  BY <1>7, GoAdvanceStep
<1> QED BY <1>1, <1>2, <1>3, <1>5, <1>6, <1>7 DEF MakeCall

\* The loop, between two handlers, is given calls to make.
LEMMA NewCalls ==
  ASSUME Typed, todo[0] = <<>>, NEW t \in Threads, todo[t] = <<>>,
         NEW calls \in Programs, todo' = [todo EXCEPT ![t] = calls]
  PROVE  /\ todo' \in [Threads -> Programs]
         /\ todo'[t] = calls
         /\ t # 0 => todo'[0] = todo[0]
         /\ TimerToStart => TimerToStart'
<1>1. /\ todo \in [Threads -> Programs] /\ todo' \in [Threads -> Programs]
      /\ todo'[t] = calls
      /\ \A u \in Threads \ {t} : todo'[u] = todo[u]
  BY DEF Typed
<1>2. t # 0 => todo'[0] = todo[0]
  BY <1>1, LoopAssumption DEF Threads
<1>3. ASSUME NEW u \in Threads, StartsTimer(todo[u]) PROVE TimerToStart'
  <2>1. StartsTimer(todo'[u])
    BY <1>1, <1>3, EmptyProgram
  <2> QED BY <2>1 DEF TimerToStart, StartsTimer
<1> QED BY <1>1, <1>2, <1>3 DEF TimerToStart

LEMMA HandleMessageStep ==
  ASSUME IInv, todo[0] = <<>>, loop \in {"drain", "wait"}, HandleMessage,
         loop' \in {"drain", "top"}
  PROVE  IInv'
<1>1. PICK calls \in Programs : todo' = [todo EXCEPT ![0] = calls]
  BY OnProposalProgram, OnVoteProgram, OnNewViewProgram DEF HandleMessage
<1>2. 0 \in Threads
  BY LoopAssumption DEF Threads
<1>3. todo' \in [Threads -> Programs] /\ (TimerToStart => TimerToStart')
  BY <1>1, <1>2, NewCalls DEF IInv
<1>4. /\ UNCHANGED <<phase, view, timer, tick, arrived>>
      /\ queue > 0 /\ queue' = queue - 1
  BY DEF HandleMessage
<1>5. queue' \in 0 .. arrived
  BY <1>4, LoopAssumption DEF IInv, Typed
<1>6. Typed'
  BY <1>3, <1>4, <1>5 DEF IInv, Typed
<1>7. LoopFollowsPhase'
  BY <1>4 DEF IInv, LoopFollowsPhase
<1>8. ~TickInHand
  BY DEF TickInHand
<1> QED BY <1>3, <1>4, <1>6, <1>7, <1>8 DEF IInv, Live

LEMMA LoopSteps ==
  ASSUME IInv, LoopStep
  PROVE  IInv'
<1>1. CASE CheckStop \/ Drained \/ WaitStopped
  <2>1. /\ UNCHANGED <<phase, todo, view, timer, tick, queue, arrived>>
        /\ todo[0] = <<>> /\ loop \in {"top", "drain", "wait"}
        /\ loop' \in {"drain", "wait", "ended"}
        /\ loop' = "ended" => phase \in {"closing", "stopping"}
    BY <1>1 DEF CheckStop, Drained, WaitStopped, At, StopRequested
  <2>2. Typed' /\ LoopFollowsPhase'
    BY <2>1 DEF IInv, Typed, LoopFollowsPhase
  <2>3. ~TickInHand /\ (TimerToStart <=> TimerToStart')
    BY <2>1 DEF TickInHand, TimerToStart, StartsTimer
  <2> QED BY <2>1, <2>2, <2>3 DEF IInv, Live
<1>2. CASE DrainMessage \/ WaitMessage
  BY <1>2, HandleMessageStep DEF DrainMessage, WaitMessage, At
<1>3. CASE WaitTick
  <2>1. /\ UNCHANGED <<phase, todo, view, queue, arrived>>
        /\ todo[0] = <<>> /\ loop = "wait" /\ loop' = "tick"
        /\ tick' = timer.ch /\ timer' = Take(timer)
    BY <1>3 DEF WaitTick, At
  <2>2. timer' \in TimerStates /\ timer'.pending = timer.pending /\ tick' \in Origins
    BY <2>1, TimerOperations DEF IInv, Typed, TimerStates
  <2>3. Typed' /\ LoopFollowsPhase'
    BY <2>1, <2>2 DEF IInv, Typed, LoopFollowsPhase
  <2>4. TickInHand' /\ (TimerToStart <=> TimerToStart')
    BY <2>1 DEF TickInHand, TimerToStart, StartsTimer
  <2> QED BY <2>1, <2>2, <2>3, <2>4 DEF IInv, Live
<1>4. CASE HandleTick
  <2>1. /\ UNCHANGED <<phase, view, timer, tick, queue, arrived>>
        /\ todo[0] = <<>> /\ loop = "tick" /\ loop' = "top"
        /\ todo' = [todo EXCEPT ![0] = << Call("OnViewTimeout", view) >>]
    BY <1>4 DEF HandleTick, At
  <2>2. << Call("OnViewTimeout", view) >> \in Programs /\ 0 \in Threads
    BY OneCall, LoopAssumption DEF IInv, Typed, Ops, Threads
  <2>3. /\ todo' \in [Threads -> Programs]
        /\ todo'[0] = << Call("OnViewTimeout", view) >>
        /\ TimerToStart => TimerToStart'
    BY <2>1, <2>2, NewCalls DEF IInv
  <2>4. Typed' /\ LoopFollowsPhase'
    BY <2>1, <2>3 DEF IInv, Typed, LoopFollowsPhase
  <2>5. TickInHand'
    BY <2>1, <2>3 DEF TickInHand, Call
  <2> QED BY <2>1, <2>3, <2>4, <2>5 DEF IInv, Live
<1> QED BY <1>1, <1>2, <1>3, <1>4 DEF LoopStep

LEMMA CallerSteps ==
  ASSUME IInv, Start \/ Stop \/ CallerStep
  PROVE  IInv'
<1>1. CASE Start
  <2>1. /\ UNCHANGED <<loop, todo, view, tick, queue, arrived>>
        /\ phase = "stopped" /\ phase' = "starting" /\ timer' = StartTimer(timer)
    BY <1>1 DEF Start
  <2>2. timer' \in TimerStates /\ timer'.pending = "fresh"
    BY <2>1, TimerOperations DEF IInv, Typed
  <2>3. Typed' /\ LoopFollowsPhase'
    BY <2>1, <2>2 DEF IInv, Typed, LoopFollowsPhase
  <2> QED BY <2>1, <2>2, <2>3 DEF IInv, Live, WillTick
<1>2. CASE Stop \/ Stopped
  <2>1. /\ UNCHANGED <<loop, todo, view, timer, tick, queue, arrived>>
        /\ phase' \in {"closing", "stopped"}
        /\ phase' = "stopped" => loop = "ended"
    BY <1>2 DEF Stop, Stopped
  <2>2. Typed' /\ LoopFollowsPhase'
    BY <2>1 DEF IInv, Typed, LoopFollowsPhase
  <2>3. TimerToStart <=> TimerToStart'
    BY <2>1 DEF TimerToStart, StartsTimer
  <2> QED BY <2>1, <2>2, <2>3 DEF IInv
<1>3. CASE StopPacemaker
  <2>1. /\ UNCHANGED <<loop, todo, view, tick, queue, arrived>>
        /\ phase' = "stopping" /\ timer' = StopTimer(timer)
    BY <1>3 DEF StopPacemaker
  <2>2. timer' \in TimerStates /\ timer'.pending \in {timer.pending, "none"}
    BY <2>1, TimerOperations DEF IInv, Typed
  <2>3. Typed' /\ LoopFollowsPhase'
    BY <2>1, <2>2 DEF IInv, Typed, LoopFollowsPhase
  <2>4. TimerToStart <=> TimerToStart'
    BY <2>1 DEF TimerToStart, StartsTimer
  <2> QED BY <2>1, <2>2, <2>3, <2>4 DEF IInv
<1>4. CASE Started
  <2>1. /\ UNCHANGED <<view, timer, tick, queue, arrived>>
        /\ phase = "starting" /\ phase' = "started" /\ loop' = "top"
        /\ loop = "ended" /\ todo[0] = <<>>
    BY <1>4 DEF Started, IInv, LoopFollowsPhase
  <2>2. /\ todo' \in [Threads -> Programs]
        /\ todo'[0] = <<>>
        /\ TimerToStart => TimerToStart'
    <3>1. CASE todo' = todo
      BY <2>1, <3>1 DEF IInv, Typed, TimerToStart, StartsTimer
    <3>2. CASE todo' # todo
      <4>1. PICK g \in Threads : Free(g) /\ todo' = [todo EXCEPT ![g] = << Call("Propose", view) >>]
        BY <1>4, <3>2 DEF Started
      <4>2. << Call("Propose", view) >> \in Programs
        BY OneCall DEF IInv, Typed, Ops
      <4>3. g # 0 /\ todo[g] = <<>>
        BY <4>1 DEF Free
      <4> QED BY <2>1, <4>1, <4>2, <4>3, NewCalls DEF IInv
    <3> QED BY <3>1, <3>2
  <2>3. Typed' /\ LoopFollowsPhase'
    BY <2>1, <2>2 DEF IInv, Typed, LoopFollowsPhase
  <2>4. ~TickInHand
    BY <2>1 DEF TickInHand
  <2> QED BY <2>1, <2>2, <2>3, <2>4 DEF IInv, Live
<1> QED BY <1>1, <1>2, <1>3, <1>4 DEF CallerStep

LEMMA EnvironmentSteps ==
  ASSUME IInv, TimerExpires \/ CallbackRuns \/ MessageArrives
  PROVE  IInv'
<1>1. CASE TimerExpires \/ CallbackRuns
  <2>1. UNCHANGED <<phase, loop, todo, view, tick, queue, arrived>>
    BY <1>1 DEF TimerExpires, CallbackRuns
  <2>2. timer' \in TimerStates /\ timer'.pending \in {timer.pending, "none"} /\ WillTick(timer')
    BY <1>1, ExpireOperation, DeliverOperation DEF TimerExpires, CallbackRuns, IInv, Typed
  <2>3. Typed' /\ LoopFollowsPhase'
    BY <2>1, <2>2 DEF IInv, Typed, LoopFollowsPhase
  <2>4. TimerToStart <=> TimerToStart'
    BY <2>1 DEF TimerToStart, StartsTimer
  <2>5. WillTick(timer)'
    BY <2>2 DEF WillTick
  <2> QED BY <2>1, <2>2, <2>3, <2>4, <2>5 DEF IInv, Live
<1>2. CASE MessageArrives
  <2>1. /\ UNCHANGED <<phase, loop, todo, view, timer, tick>>
        /\ arrived < MaxMessages /\ arrived' = arrived + 1 /\ queue' = queue + 1
    BY <1>2 DEF MessageArrives
  <2>2. arrived' \in 0 .. MaxMessages /\ queue' \in 0 .. arrived'
    BY <2>1, LoopAssumption DEF IInv, Typed
  <2>3. Typed' /\ LoopFollowsPhase'
    BY <2>1, <2>2 DEF IInv, Typed, LoopFollowsPhase
  <2>4. /\ TimerToStart <=> TimerToStart'
        /\ TickInHand <=> TickInHand'
        /\ WillTick(timer) <=> WillTick(timer)'
    BY <2>1 DEF TimerToStart, StartsTimer, TickInHand, WillTick
  <2> QED BY <2>1, <2>3, <2>4 DEF IInv, Live
<1> QED BY <1>1, <1>2

-----------------------------------------------------------------------------
(* Theorems *)

\* IInv is an invariant: a timer of a view left behind has its restart among the
\* calls of some thread, and a running replica that has no tick coming has a
\* timer to start or a view to leave.
THEOREM LoopInvariant == Spec => []IInv
<1>1. Init => IInv
  <2>1. SUFFICES ASSUME Init PROVE IInv
    OBVIOUS
  <2>2. todo \in [Threads -> Programs] /\ todo[0] = <<>>
    BY <2>1, EmptyProgram, LoopAssumption DEF Init, Threads
  <2>3. timer \in TimerStates /\ timer.pending = "none"
    BY <2>1, NewTimerState DEF Init
  <2>4. Typed
    BY <2>1, <2>2, <2>3, LoopAssumption DEF Init, Typed, Views, Origins
  <2> QED BY <2>1, <2>2, <2>3, <2>4 DEF Init, IInv, LoopFollowsPhase
<1>2. IInv /\ [Next]_vars => IInv'
  <2>1. SUFFICES ASSUME IInv, [Next]_vars PROVE IInv'
    OBVIOUS
  <2>2. CASE UNCHANGED vars
    BY <2>1, <2>2 DEF vars, IInv, Typed, LoopFollowsPhase, Live, WillTick, TimerToStart,
       StartsTimer, TickInHand
  <2>3. CASE Start \/ Stop \/ CallerStep
    BY <2>1, <2>3, CallerSteps
  <2>4. CASE LoopStep
    BY <2>1, <2>4, LoopSteps
  <2>5. CASE \E t \in Threads : MakeCall(t)
    BY <2>1, <2>5, MakeCallStep
  <2>6. CASE TimerExpires \/ CallbackRuns \/ MessageArrives
    BY <2>1, <2>6, EnvironmentSteps
  <2> QED BY <2>1, <2>2, <2>3, <2>4, <2>5, <2>6 DEF Next
<1> QED BY <1>1, <1>2, PTL DEF Spec

\* ReplicaLoop is type correct.
THEOREM LoopTypeCorrect == Spec => []TypeOK
<1>1. IInv => TypeOK
  BY DEF IInv, Typed, TypeOK, Programs, Calls
<1> QED BY <1>1, LoopInvariant, PTL

\* A running replica between two handlers always has a tick of its view timer
\* coming (timer.go:46-83, hotstuff2.go:165-203).
THEOREM TimerIsNeverLost == Spec => []TimerNeverLost
<1>1. IInv => TimerNeverLost
  BY DEF IInv, TimerNeverLost, Quiet, Live, TickInHand
<1> QED BY <1>1, LoopInvariant, PTL

\* Its running timer was started in the view it is in (hotstuff2.go:796, 840).
THEOREM TimerIsFresh == Spec => []FreshTimer
<1>1. IInv => FreshTimer
  BY DEF IInv, FreshTimer, Quiet
<1> QED BY <1>1, LoopInvariant, PTL

\* One loop while the replica runs, none once Stop has returned
\* (hotstuff2.go:158-160).
THEOREM LoopMatchesPhase == Spec => []LoopFollowsPhase
<1>1. IInv => LoopFollowsPhase
  BY DEF IInv
<1> QED BY <1>1, LoopInvariant, PTL

===============================================================================
