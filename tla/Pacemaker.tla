------------------------------ MODULE Pacemaker ------------------------------
(***************************************************************************)
(* The pacemaker of one replica (pacemaker.go) as a record, and its        *)
(* operations as functions from record to record, each one critical section*)
(* of its mutex.  Time is counted in ticks; a clock that no longer matters *)
(* stops at its limit.                                                     *)
(*                                                                         *)
(* The commit delay is a channel closed by the callback of a timer.  A     *)
(* commit replaces timer and channel; a callback that has begun by then    *)
(* waits for the mutex and finds another channel than its own.             *)
(***************************************************************************)
EXTENDS Integers

CONSTANTS
  Config,    \* the PacemakerConfig, durations in ticks
  MaxLate    \* bound: callbacks of replaced channels that wait for the mutex

\* TimeoutVote and SkipTimeoutCommit are read by no code.
Configs ==
  [ TimeoutPropose    : Nat,
    TimeoutCommit     : Nat,
    MinBlockTime      : Nat,
    MinBlockTimeSkew  : Nat,
    BackoffMultiplier : Nat \X (Nat \ {0}),   \* a fraction
    MaxTimeout        : Nat ]

\* The presets, second being the ticks of a second.
DefaultPacemakerConfig(second) ==
  [ TimeoutPropose |-> second, TimeoutCommit |-> 0,
    MinBlockTime |-> 0, MinBlockTimeSkew |-> second \div 2,
    BackoffMultiplier |-> <<3, 2>>, MaxTimeout |-> 30 * second ]

ProductionPacemakerConfig(second, target) ==
  [ TimeoutPropose |-> target, TimeoutCommit |-> target,
    MinBlockTime |-> target, MinBlockTimeSkew |-> second \div 2,
    BackoffMultiplier |-> <<3, 2>>, MaxTimeout |-> 30 * second ]

DemoPacemakerConfig(second) ==
  [ TimeoutPropose |-> 2 * second, TimeoutCommit |-> second,
    MinBlockTime |-> second, MinBlockTimeSkew |-> second \div 5,
    BackoffMultiplier |-> <<3, 2>>, MaxTimeout |-> 10 * second ]

\* PacemakerConfig.Validate.
Valid(c) ==
  /\ c.TimeoutPropose > 0
  /\ c.MinBlockTime > 0 => c.MinBlockTimeSkew < c.MinBlockTime
  /\ c.BackoffMultiplier[1] >= c.BackoffMultiplier[2]
  /\ c.MaxTimeout >= c.TimeoutPropose

ASSUME ConfigAssumption == Config \in Configs /\ Valid(Config)

ASSUME LateAssumption == MaxLate \in Nat

-----------------------------------------------------------------------------

Delays ==
  [ age     : 0 .. Config.TimeoutCommit,  \* of the channel last handed out
    pending : BOOLEAN,                    \* its timer runs
    begun   : BOOLEAN,                    \* its callback waits for the mutex
    closed  : 0 .. 2 ]                    \* times it has been closed; Go panics at 2

Pacemakers ==
  [ timeout : Config.TimeoutPropose .. Config.MaxTimeout,  \* currentTimeout
    left    : 0 .. Config.MaxTimeout,     \* until the view timer expires
    delay   : Delays,
    late    : 0 .. MaxLate ]              \* callbacks of replaced channels

\* A channel closed from the start: nobody waits before the first commit.
NewPacemaker ==
  [ timeout |-> Config.TimeoutPropose,
    left    |-> Config.TimeoutPropose,
    delay   |-> [age |-> Config.TimeoutCommit, pending |-> FALSE, begun |-> FALSE, closed |-> 1],
    late    |-> 0 ]

\* Mutation: a running timer is not restarted.
StartOnce(p) == IF p.left > 0 THEN p ELSE [p EXCEPT !.left = p.timeout]

\* Start and OnProgress: the view timer runs for the current timeout.
StartTimer(p) == [p EXCEPT !.left = p.timeout]

\* The timeout returns to the base; a new channel replaces the old one, whose
\* timer is stopped unless its callback has begun.
OnCommit(p) ==
  [p EXCEPT
     !.timeout = Config.TimeoutPropose,
     !.delay   = IF Config.TimeoutCommit = 0
                 THEN [age |-> 0, pending |-> FALSE, begun |-> FALSE, closed |-> 1]
                 ELSE [age |-> 0, pending |-> TRUE, begun |-> FALSE, closed |-> 0],
     !.late    = IF p.delay.begun /\ @ < MaxLate THEN @ + 1 ELSE @]

\* Mutation: without the cap.
Unlimited(p) ==
  [p EXCEPT !.timeout = (@ * Config.BackoffMultiplier[1]) \div Config.BackoffMultiplier[2]]

IncreaseTimeout(p) ==
  LET t == (p.timeout * Config.BackoffMultiplier[1]) \div Config.BackoffMultiplier[2]
  IN  [p EXCEPT !.timeout = IF t > Config.MaxTimeout THEN Config.MaxTimeout ELSE t]

-----------------------------------------------------------------------------
(* The commit delay *)

DelayIsOver(p) == p.delay.pending /\ p.delay.age = Config.TimeoutCommit

ExpireDelay(p) == [p EXCEPT !.delay.pending = FALSE, !.delay.begun = TRUE]

\* Mutation: the comparison of the channels is inverted.
LeaveDelay(p) == [p EXCEPT !.delay.begun = FALSE]

CloseDelay(p) ==
  [p EXCEPT !.delay.begun = FALSE, !.delay.closed = IF @ < 2 THEN @ + 1 ELSE @]

\* Mutation: a callback closes whatever channel it finds.
CloseAnyDelay(p) ==
  [p EXCEPT !.late = @ - 1, !.delay.closed = IF @ < 2 THEN @ + 1 ELSE @]

\* A callback that finds another channel than its own leaves it alone.
DropCallback(p) == [p EXCEPT !.late = @ - 1]

-----------------------------------------------------------------------------
(* Minimum block time; since is the time since the last commit, at most      *)
(* MinBlockTime, which also stands for no commit yet.                        *)

CanAcceptProposal(since) == since >= Config.MinBlockTime - Config.MinBlockTimeSkew

\* How long WaitForMinBlockTime sleeps.
TimeUntilCanPropose(since) == Config.MinBlockTime - since

-----------------------------------------------------------------------------
(* A tick of the clock *)

Earlier(t) == IF t = 0 THEN 0 ELSE t - 1

Elapse(p) ==
  [p EXCEPT !.left = Earlier(@),
            !.delay.age = IF @ < Config.TimeoutCommit THEN @ + 1 ELSE @]
==============================================================================
