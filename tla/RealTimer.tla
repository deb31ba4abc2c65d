------------------------------ MODULE RealTimer ------------------------------
(***************************************************************************)
(* RealTimer (timer/timer.go): a Go timer whose callback puts a tick in a  *)
(* channel of size one.  Stopping or restarting does not wait for a        *)
(* callback that has begun, which may deliver its tick later.  Timers,     *)
(* callbacks and ticks are represented by their origin: "fresh" while the  *)
(* replica is in the view the timer was started in, "stale" once it left.  *)
(***************************************************************************)
EXTENDS Naturals

CONSTANT MaxCallbacks   \* bound: callbacks of an origin under way at a time

ASSUME CallbacksAssumption == MaxCallbacks \in Nat \ {0}

Ticks == {"fresh", "stale"}

Origins == Ticks \cup {"none"}

TimerStates ==
  [ set       : BOOLEAN,                       \* t.timer # nil
    pending   : Origins,                       \* the Go timer that has not expired
    callbacks : [Ticks -> 0 .. MaxCallbacks],  \* callbacks that have begun
    ch        : Origins ]                      \* the tick in the channel

NewTimer ==
  [set |-> FALSE, pending |-> "none", callbacks |-> [o \in Ticks |-> 0], ch |-> "none"]

Aged(origin) == IF origin = "fresh" THEN "stale" ELSE origin

\* The replica has left the view.
Age(t) ==
  LET late == t.callbacks["stale"] + t.callbacks["fresh"]
  IN  [t EXCEPT !.pending   = Aged(@),
                !.callbacks = [fresh |-> 0, stale |-> IF late > MaxCallbacks THEN MaxCallbacks ELSE late],
                !.ch        = Aged(@)]

\* Cancel the Go timer, if there is one, and drain the channel.
Cancel(t) == IF t.set THEN [t EXCEPT !.pending = "none", !.ch = "none"] ELSE t

\* Mutation: a timer that was set is left as it is.
StartOnce(t) == IF t.set THEN t ELSE [t EXCEPT !.set = TRUE, !.pending = "fresh"]

StartTimer(t) == [Cancel(t) EXCEPT !.set = TRUE, !.pending = "fresh"]

StopTimer(t) == [Cancel(t) EXCEPT !.set = FALSE]

CanExpire(t) == t.pending # "none" /\ t.callbacks[t.pending] < MaxCallbacks

Expire(t) == [t EXCEPT !.pending = "none", !.callbacks[t.pending] = @ + 1]

\* The callback puts its tick unless the channel is full.
Deliver(t, origin) ==
  [t EXCEPT !.callbacks[origin] = @ - 1,
            !.ch = IF @ = "none" THEN origin ELSE @]

Take(t) == [t EXCEPT !.ch = "none"]

\* A tick is in the channel or will be.
WillTick(t) ==
  t.pending # "none" \/ t.ch # "none" \/ \E o \in Ticks : t.callbacks[o] > 0
==============================================================================
