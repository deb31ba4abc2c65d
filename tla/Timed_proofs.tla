----------------------------- MODULE Timed_proofs -----------------------------
(***************************************************************************)
(* The replicas in time, for every configuration of their pacemakers, every*)
(* number of validators and every choice of late starts and slow messages. *)
(*                                                                         *)
(* A pacemaker keeps its type and closes the channel of a commit once, and *)
(* when it is due.  A step in time is one of HotStuff2, or the message loop*)
(* falls asleep before a proposal on NEWVIEWs, or wakes up and makes it in *)
(* whatever view its goroutines have set meanwhile: what HotStuff2 proves  *)
(* of followers' votes and of QCs holds here too.                          *)
(***************************************************************************)
EXTENDS TimedHotStuff2, Agreement_proofs

-----------------------------------------------------------------------------
(* The pacemaker *)

\* The channel of the last commit waits for its timer, or for the callback of
\* it, or has been closed.
DelayGood(d) ==
  \/ d.pending /\ ~d.begun /\ d.closed = 0
  \/ ~d.pending /\ d.begun /\ d.closed = 0 /\ d.age = Config.TimeoutCommit
  \/ ~d.pending /\ ~d.begun /\ d.closed = 1 /\ d.age = Config.TimeoutCommit

PacemakerGood(p) == p \in Pacemakers /\ DelayGood(p.delay)

LEMMA ConfigType ==
  /\ Config.TimeoutPropose \in Nat /\ Config.TimeoutCommit \in Nat
  /\ Config.MaxTimeout \in Nat /\ Config.MinBlockTime \in Nat
  /\ Config.MaxTimeout >= Config.TimeoutPropose
  /\ Config.BackoffMultiplier[1] \in Nat /\ Config.BackoffMultiplier[2] \in Nat \ {0}
  /\ Config.BackoffMultiplier[1] >= Config.BackoffMultiplier[2]
  /\ MaxLate \in Nat
  BY ConfigAssumption, LateAssumption DEF Configs, Valid

LEMMA NewPacemakerGood == PacemakerGood(NewPacemaker)
  BY ConfigType DEF PacemakerGood, Pacemakers, Delays, DelayGood, NewPacemaker

LEMMA StartTimerGood ==
  ASSUME NEW p, PacemakerGood(p)
  PROVE  PacemakerGood(StartTimer(p))
<1>1. p.timeout \in 0 .. Config.MaxTimeout
  BY ConfigType DEF PacemakerGood, Pacemakers
<1> QED
  BY <1>1 DEF PacemakerGood, Pacemakers, StartTimer

LEMMA OnCommitGood ==
  ASSUME NEW p, PacemakerGood(p)
  PROVE  PacemakerGood(OnCommit(p))
<1> DEFINE delay == IF Config.TimeoutCommit = 0
                    THEN [age |-> 0, pending |-> FALSE, begun |-> FALSE, closed |-> 1]
                    ELSE [age |-> 0, pending |-> TRUE, begun |-> FALSE, closed |-> 0]
           late == IF p.delay.begun /\ p.late < MaxLate THEN p.late + 1 ELSE p.late
<1>1. delay \in Delays /\ DelayGood(delay)
  BY ConfigType DEF Delays, DelayGood
<1>2. late \in 0 .. MaxLate
  BY ConfigType DEF PacemakerGood, Pacemakers
<1>3. OnCommit(p) = [p EXCEPT !.timeout = Config.TimeoutPropose, !.delay = delay, !.late = late]
  BY DEF OnCommit, PacemakerGood, Pacemakers
<1> HIDE DEF delay, late
<1>4. Config.TimeoutPropose \in Config.TimeoutPropose .. Config.MaxTimeout
  BY ConfigType
<1>5. OnCommit(p).delay = delay
  BY <1>3 DEF PacemakerGood, Pacemakers
<1>6. OnCommit(p) \in Pacemakers
  BY <1>1, <1>2, <1>3, <1>4 DEF PacemakerGood, Pacemakers
<1> QED
  BY <1>1, <1>5, <1>6 DEF PacemakerGood

\* Multiplying with a fraction that is at least 1 and rounding down.
LEMMA BackoffGrows ==
  ASSUME NEW x \in Nat, NEW a \in Nat, NEW b \in Nat \ {0}, a >= b
  PROVE  (x * a) \div b \in Nat /\ (x * a) \div b >= x
<1> DEFINE q == (x * a) \div b
<1>1. x * a \in Nat /\ x * b \in Nat /\ x * b <= x * a
  OBVIOUS
<1>2. q \in Int /\ b * q <= x * a /\ x * a < b * (q + 1)
  BY <1>1
<1> HIDE DEF q
<1>3. q >= x
  <2> SUFFICES ASSUME q + 1 <= x PROVE FALSE
    BY <1>2
  <2>1. b * (q + 1) <= b * x
    BY <1>2
  <2> QED
    BY <1>1, <1>2, <2>1
<1> QED
  BY <1>2, <1>3 DEF q

LEMMA IncreaseTimeoutGood ==
  ASSUME NEW p, PacemakerGood(p)
  PROVE  PacemakerGood(IncreaseTimeout(p))
<1> DEFINE t == (p.timeout * Config.BackoffMultiplier[1]) \div Config.BackoffMultiplier[2]
<1>1. p.timeout \in Nat /\ p.timeout >= Config.TimeoutPropose
  BY ConfigType DEF PacemakerGood, Pacemakers
<1>2. t \in Nat /\ t >= p.timeout
  BY <1>1, ConfigType, BackoffGrows
<1>3. IncreaseTimeout(p) =
        [p EXCEPT !.timeout = IF t > Config.MaxTimeout THEN Config.MaxTimeout ELSE t]
  BY DEF IncreaseTimeout
<1> HIDE DEF t
<1> QED
  BY <1>1, <1>2, <1>3, ConfigType DEF PacemakerGood, Pacemakers

\* The timer of a commit, and the callbacks.
LEMMA DelayStepGood ==
  ASSUME NEW p, PacemakerGood(p)
  PROVE  /\ DelayIsOver(p) => PacemakerGood(ExpireDelay(p))
         /\ p.delay.begun => PacemakerGood(CloseDelay(p))
         /\ p.late > 0 => PacemakerGood(DropCallback(p))
<1> DEFINE d == p.delay
<1>1. d \in Delays /\ DelayGood(d) /\ p.late \in 0 .. MaxLate
  BY DEF PacemakerGood, Pacemakers
<1>2. ASSUME NEW e \in Delays, DelayGood(e)
      PROVE  PacemakerGood([p EXCEPT !.delay = e])
  BY <1>2 DEF PacemakerGood, Pacemakers
<1>3. ASSUME DelayIsOver(p)
      PROVE  PacemakerGood(ExpireDelay(p))
  <2> DEFINE e == [d EXCEPT !.pending = FALSE, !.begun = TRUE]
  <2>1. e \in Delays /\ DelayGood(e)
    BY <1>1, <1>3 DEF Delays, DelayGood, DelayIsOver
  <2>2. ExpireDelay(p) = [p EXCEPT !.delay = e]
    BY DEF ExpireDelay, PacemakerGood, Pacemakers
  <2> QED
    BY <1>2, <2>1, <2>2
<1>4. ASSUME p.delay.begun
      PROVE  PacemakerGood(CloseDelay(p))
  <2> DEFINE n == IF d.closed < 2 THEN d.closed + 1 ELSE d.closed
             e == [d EXCEPT !.begun = FALSE, !.closed = 1]
  <2>1. CloseDelay(p) = [p EXCEPT !.delay = [d EXCEPT !.begun = FALSE, !.closed = n]]
    BY DEF CloseDelay, PacemakerGood, Pacemakers
  <2>2. d.closed = 0 /\ ~d.pending /\ d.age = Config.TimeoutCommit
    BY <1>1, <1>4 DEF DelayGood
  <2>3. n = 1
    BY <2>2
  <2> HIDE DEF n
  <2>4. CloseDelay(p) = [p EXCEPT !.delay = e]
    BY <2>1, <2>3
  <2> DEFINE f == [d EXCEPT !.closed = 1]
  <2>5. e = [f EXCEPT !.begun = FALSE]
    OBVIOUS
  <2>6. f \in Delays /\ ~f.pending /\ f.closed = 1 /\ f.age = d.age
    BY <1>1, <2>2 DEF Delays
  <2> HIDE DEF e, f
  <2>7. e \in Delays
    BY <2>5, <2>6 DEF Delays
  <2>8. DelayGood(e)
    BY <2>2, <2>5, <2>6 DEF Delays, DelayGood
  <2> QED
    BY <1>2, <2>4, <2>7, <2>8
<1>5. ASSUME p.late > 0
      PROVE  PacemakerGood(DropCallback(p))
  BY <1>1, <1>5, ConfigType DEF PacemakerGood, Pacemakers, DropCallback
<1> QED
  BY <1>3, <1>4, <1>5

LEMMA ElapseGood ==
  ASSUME NEW p, PacemakerGood(p)
  PROVE  PacemakerGood(Elapse(p))
<1> DEFINE left == Earlier(p.left)
           age == IF p.delay.age < Config.TimeoutCommit THEN p.delay.age + 1 ELSE p.delay.age
           e == [p.delay EXCEPT !.age = age]
<1>1. p.delay \in Delays /\ DelayGood(p.delay) /\ p.left \in 0 .. Config.MaxTimeout
  BY DEF PacemakerGood, Pacemakers
<1>2. left \in 0 .. Config.MaxTimeout
  BY <1>1, ConfigType DEF Earlier
<1>3. age \in 0 .. Config.TimeoutCommit
      /\ (p.delay.age = Config.TimeoutCommit => age = Config.TimeoutCommit)
  BY <1>1, ConfigType DEF Delays
<1>4. e \in Delays /\ DelayGood(e)
  <2> HIDE DEF age
  <2> QED
    BY <1>1, <1>3 DEF Delays, DelayGood
<1>5. Elapse(p) = [p EXCEPT !.left = left, !.delay = e]
  BY DEF Elapse, PacemakerGood, Pacemakers
<1> HIDE DEF left, e
<1> QED
  BY <1>2, <1>4, <1>5 DEF PacemakerGood, Pacemakers

PInv == pm \in [Replicas -> Pacemakers] /\ \A r \in Replicas : PacemakerGood(pm[r])

LEMMA PacedGood ==
  ASSUME PInv, NEW r \in Replicas, NEW entered, NEW voted, NEW expired,
         Paced(r, entered, voted, expired)
  PROVE  PInv'
<1> DEFINE entering   == IF entered THEN StartTimer(pm[r]) ELSE pm[r]
           committing == IF Committing(r) THEN OnCommit(entering) ELSE entering
           voting     == IF voted THEN OnProgress(committing) ELSE committing
           p          == IF expired THEN IncreaseTimeout(voting) ELSE voting
<1>1. pm' = [pm EXCEPT ![r] = p]
  BY DEF Paced
<1>2. PacemakerGood(entering)
  BY StartTimerGood DEF PInv
<1> HIDE DEF entering
<1>3. PacemakerGood(committing)
  BY <1>2, OnCommitGood
<1> HIDE DEF committing
<1>4. PacemakerGood(voting)
  BY <1>3, StartTimerGood DEF OnProgress
<1> HIDE DEF voting
<1>5. PacemakerGood(p)
  BY <1>4, IncreaseTimeoutGood
<1> HIDE DEF p
<1> QED
  BY <1>1, <1>5 DEF PInv, PacemakerGood

LEMMA PInvStep ==
  ASSUME PInv, [TimedNext]_timedVars
  PROVE  PInv'
<1>1. CASE UNCHANGED timedVars
  BY <1>1 DEF PInv, timedVars
<1>2. CASE Tick
  BY <1>2, ElapseGood DEF Tick, PInv, PacemakerGood
<1>3. ASSUME NEW r \in Replicas,
             \/ HandleProposal(r) \/ Vote(r) \/ HandleVote(r) \/ HandleNewView(r)
             \/ HandleTimeout(r) \/ WakeInLoop(r)
             \/ Advance(r) \/ StartWaiting(r) \/ WakeAndPropose(r)
      PROVE  PInv'
  <2>1. \E entered, voted, expired : Paced(r, entered, voted, expired)
    BY <1>3 DEF HandleProposal, Vote, HandleVote, HandleNewView, HandleTimeout,
                WakeInLoop, Advance, StartWaiting, WakeAndPropose
  <2> QED
    BY <2>1, PacedGood
<1>4. ASSUME NEW r \in Replicas, DelayExpires(r) \/ DelayCallback(r) \/ Join(r)
      PROVE  PInv'
  <2>1. \E p : pm' = [pm EXCEPT ![r] = p] /\ PacemakerGood(p)
    BY <1>4, DelayStepGood, NewPacemakerGood DEF PInv, DelayExpires, DelayCallback, Join
  <2> QED
    BY <2>1 DEF PInv, PacemakerGood
<1> QED
  BY <1>1, <1>2, <1>3, <1>4 DEF TimedNext

LEMMA PInvInit == TimedInit => PInv
  BY NewPacemakerGood DEF TimedInit, PInv, PacemakerGood

LEMMA StepsInTime == TimedSpec => TimedInit /\ [][TimedNext]_timedVars
  BY PTL DEF TimedSpec

LEMMA PacemakersGood == TimedSpec => []PInv
<1>1. PInv /\ [TimedNext]_timedVars => PInv'
  BY PInvStep
<1> QED
  BY <1>1, PInvInit, StepsInTime, PTL

\* However timeouts and commits alternate, the timeout stays between the base
\* and the cap, whatever multiplier Validate lets pass (pacemaker.go:180-202).
THEOREM TimeoutsBounded == TimedSpec => []PacemakersOK
<1>1. PInv => PacemakersOK
  BY DEF PInv, PacemakersOK
<1> QED
  BY <1>1, PacemakersGood, PTL

\* The channel of a commit is closed once, so that the pacemaker never panics,
\* and not before TimeoutCommit, in whatever order timers, their callbacks and
\* the next commits come (pacemaker.go:246-305).
THEOREM DelaysAreKept == TimedSpec => []DelayNeverShort
<1>1. PInv => DelayNeverShort
  <2> SUFFICES ASSUME PInv, NEW r \in Replicas
               PROVE  /\ pm[r].delay.closed <= 1
                      /\ pm[r].delay.closed = 1 => pm[r].delay.age = Config.TimeoutCommit
    BY DEF DelayNeverShort
  <2> QED
    BY DEF PInv, PacemakerGood, DelayGood
<1> QED
  BY <1>1, PacemakersGood, PTL

-----------------------------------------------------------------------------
(* A message loop that sleeps *)

Naps == [view : Views, left : Nat, expired : BOOLEAN]

\* A loop that sleeps does so before a proposal of its replica as the leader.
TInv ==
  /\ VInv
  /\ since \in [Replicas -> 0 .. Config.MinBlockTime]
  /\ nap \in [Replicas -> SUBSET Naps]
  /\ \A r \in Replicas : \A n \in nap[r] : Leader(n.view) = r

\* What falling asleep and waking up do: only a leader signs, and nothing that
\* binds a follower is forgotten.
SleepStep ==
  /\ GoodStep
  /\ \A q \in Replicas : LockRises(ctx[q], ctx'[q]) /\ VotesKept(ctx[q], ctx'[q])
  /\ \A x \in signed' \ signed : ~Follower(x)
  /\ \A q \in Replicas : \A t \in tasks'[q] : t \in tasks[q] \/ t.kind # "create"
  /\ signed \subseteq signed'

SleepEffect(r, e) ==
  /\ GoodEffect(signed, ctx[r], e)
  /\ LockRises(ctx[r], e.ctx) /\ VotesKept(ctx[r], e.ctx)
  /\ \A x \in e.cast : x.voter = r /\ Leader(x.view) = r
  /\ \A t \in e.started : t.kind # "create"

LEMMA SleepEffectSteps ==
  ASSUME IInv, NEW r \in Replicas, NEW e, SleepEffect(r, e),
         \/ \E m \in inbox[r] : Consume(r, m, e)
         \/ Run(r, {}, e)
  PROVE  SleepStep
<1>1. GoodStep
  BY ConsumeGood, RunGood DEF SleepEffect
<1>2. /\ ctx' = [ctx EXCEPT ![r] = e.ctx]
      /\ tasks' = [tasks EXCEPT ![r] = tasks[r] \cup e.started]
      /\ signed' = signed \cup e.cast
  BY DEF Consume, Run
<1>3. \A q \in Replicas : ctx'[q] = IF q = r THEN e.ctx ELSE ctx[q]
  BY <1>2 DEF IInv, TypeOK
<1>4. \A q \in Replicas : tasks'[q] = IF q = r THEN tasks[r] \cup e.started ELSE tasks[q]
  BY <1>2 DEF IInv, TypeOK
<1>5. \A q \in Replicas : LockRises(ctx[q], ctx[q]) /\ VotesKept(ctx[q], ctx[q])
  BY LockRisesReflexive DEF VotesKept, IInv, TypeOK
<1>6. \A q \in Replicas : LockRises(ctx[q], ctx'[q]) /\ VotesKept(ctx[q], ctx'[q])
  BY <1>3, <1>5 DEF SleepEffect
<1>7. \A x \in signed' \ signed : ~Follower(x)
  BY <1>2 DEF SleepEffect, Follower
<1>8. \A q \in Replicas : \A t \in tasks'[q] : t \in tasks[q] \/ t.kind # "create"
  BY <1>4 DEF SleepEffect
<1> QED
  BY <1>1, <1>2, <1>6, <1>7, <1>8 DEF SleepStep

\* Falling asleep has a good effect.
LEMMA SilentSleep ==
  ASSUME NEW r \in Replicas, NEW e, GoodEffect(signed, ctx[r], e), e.cast = {}, e.started = {},
         LockRises(ctx[r], e.ctx), VotesKept(ctx[r], e.ctx)
  PROVE  SleepEffect(r, e)
  BY DEF SleepEffect

LEMMA NewViewTooSoonSleeps ==
  ASSUME IInv, NEW r \in Replicas, NewViewTooSoon(r)
  PROVE  SleepStep
<1> DEFINE c(m) == RecordNewView(ctx[r], m)
           e(m) == SyncByNewView(r, c(m), m)
           back(m) == SetView(e(m).ctx, m.view)
           f(m) == [e(m) EXCEPT !.ctx = back(m)]
<1>1. PICK m \in Received(r, "NEWVIEW") : Consume(r, m, e(m)) \/ Consume(r, m, f(m))
  BY DEF NewViewTooSoon
<1>2. m \in inbox[r]
  BY DEF Received
<1>3. Good(signed, ctx[r]) /\ m \in Messages /\ GoodMessage(signed, m) /\ m.view \in Views
  BY <1>2, Delivered DEF Messages
<1>4. GoodEffect(signed, ctx[r], e(m)) /\ e(m).cast = {}
  BY <1>3, SyncByNewViewGood
<1>5. Moves(ctx[r], e(m).ctx) /\ e(m).started = {}
  BY <1>3, SyncByNewViewMoves
<1> HIDE DEF e, c
<1>6. SleepEffect(r, e(m))
  BY <1>4, <1>5, MovesKeeps, SilentSleep
<1>7. e(m).ctx \in Contexts /\ Good(signed, e(m).ctx) /\ Grows(ctx[r], e(m).ctx)
  <2>1. Good(signed \cup {}, e(m).ctx) /\ Grows(ctx[r], e(m).ctx)
    BY <1>4 DEF GoodEffect
  <2> QED
    BY <2>1, GoodMonotone DEF Good
<1>8. Good(signed, back(m)) /\ Grows(e(m).ctx, back(m)) /\ Moves(e(m).ctx, back(m))
  BY <1>3, <1>7, SetViewGood, SetViewMoves
<1> HIDE DEF back
<1>9. Grows(ctx[r], back(m)) /\ Moves(ctx[r], back(m)) /\ back(m) \in Contexts
  BY <1>3, <1>5, <1>7, <1>8, GrowsTransitive, MovesTransitive DEF Good
<1>10. f(m) = [ctx |-> back(m), sent |-> e(m).sent, cast |-> {}, started |-> {}]
  BY <1>4, <1>5 DEF GoodEffect, Effects
<1> HIDE DEF f
<1>11. f(m) \in Effects
  BY <1>4, <1>9, <1>10 DEF GoodEffect, Effects
<1>12. Good(signed \cup {}, back(m)) /\ \A n \in e(m).sent : GoodMessage(signed \cup {}, n)
  BY <1>4, <1>8, GoodMonotone DEF GoodEffect
<1>13. /\ f(m).ctx = back(m) /\ f(m).sent = e(m).sent
       /\ f(m).cast = {} /\ f(m).started = {}
  BY <1>10
<1>14. GoodEffect(signed, ctx[r], f(m))
  BY <1>9, <1>11, <1>12, <1>13 DEF GoodEffect
<1>15. SleepEffect(r, f(m))
  BY <1>9, <1>13, <1>14, MovesKeeps, SilentSleep
<1> QED
  BY <1>1, <1>2, <1>6, <1>15, SleepEffectSteps

LEMMA TimeoutTooSoonSleeps ==
  ASSUME IInv, NEW r \in Replicas, ctx[r].view < MaxView, TimeoutTooSoon(r)
  PROVE  SleepStep
<1> DEFINE v == ctx[r].view + 1
           c == PruneVotes(ctx[r], v)
           e == EnterWithNewView(r, c, v)
<1>1. Run(r, {}, e)
  BY DEF TimeoutTooSoon
<1>2. Good(signed, ctx[r]) /\ ctx[r].view \in Views
  BY DEF IInv, TypeOK, Contexts
<1>3. v \in Views
  BY <1>2, BoundsAssumption DEF Views
<1> HIDE DEF v
<1>4. Good(signed, c) /\ Grows(ctx[r], c)
  BY <1>2, <1>3, PruneVotesGood
<1>5. GoodEffect(signed, c, e) /\ e.cast = {}
  <2> HIDE DEF c
  <2> QED
    BY <1>3, <1>4, EnterWithNewViewGood
<1>6. Moves(c, e.ctx) /\ e.ctx.view = v /\ e.started = {}
  <2> HIDE DEF c
  <2> QED
    BY <1>3, <1>4, EnterWithNewViewMoves
<1> HIDE DEF e
<1>7. LockRises(ctx[r], e.ctx) /\ VotesKept(ctx[r], e.ctx)
  BY <1>2, <1>3, <1>6, PruneVotesKeeps DEF Good, Moves
<1> HIDE DEF c
<1>8. GoodEffect(signed, ctx[r], e)
  BY <1>2, <1>4, <1>5, GrowsThenGood DEF Good
<1>9. SleepEffect(r, e)
  BY <1>5, <1>6, <1>7, <1>8, SilentSleep
<1> QED
  BY <1>1, <1>9, SleepEffectSteps

LEMMA WakeInLoopSleeps ==
  ASSUME TInv, NEW r \in Replicas, WakeInLoop(r)
  PROVE  SleepStep
<1>1. PICK n \in nap[r] : \E p \in ProposalsOnNewViews(r, ctx[r], n.view) : Run(r, {}, p)
  BY DEF WakeInLoop
<1>2. PICK p \in ProposalsOnNewViews(r, ctx[r], n.view) : Run(r, {}, p)
  BY <1>1
<1>3. n.view \in Views /\ Leader(n.view) = r
  BY DEF TInv, Naps
<1>4. IInv /\ Good(signed, ctx[r])
  BY DEF TInv, VInv, IInv
<1>5. GoodEffect(signed, ctx[r], p)
  BY <1>3, <1>4, ProposalsOnNewViewsGood
<1>6. /\ Calm(ctx[r], p.ctx)
      /\ \E b \in Blocks : p.cast = {[view |-> n.view, block |-> b, voter |-> r]}
      /\ \A t \in p.started : t.kind # "create"
  BY <1>3, <1>4, ProposalsOnNewViewsVotes
<1>7. LockRises(ctx[r], p.ctx) /\ VotesKept(ctx[r], p.ctx)
  BY <1>6, CalmMoves, MovesKeeps
<1>8. \A x \in p.cast : x.voter = r /\ Leader(x.view) = r
  BY <1>3, <1>6
<1>9. SleepEffect(r, p)
  BY <1>5, <1>6, <1>7, <1>8 DEF SleepEffect
<1> QED
  BY <1>2, <1>4, <1>9, SleepEffectSteps

\* A step in time is one of HotStuff2, or one of a loop that sleeps.
LEMMA TimedCases ==
  ASSUME TInv, [TimedNext]_timedVars
  PROVE  [Next]_vars \/ SleepStep
<1>1. IInv
  BY DEF TInv, VInv
<1>2. CASE UNCHANGED vars
  BY <1>2
<1>3. ASSUME NEW r \in Replicas,
             \/ HandleProposal(r) \/ Vote(r) \/ HandleVote(r)
             \/ Advance(r) \/ StartWaiting(r) \/ WakeAndPropose(r)
      PROVE  Next
  BY <1>3 DEF HandleProposal, Vote, HandleVote, Advance, StartWaiting, WakeAndPropose, Next
<1>4. ASSUME NEW r \in Replicas, HandleNewView(r)
      PROVE  Next \/ SleepStep
  <2>1. NewViewTooSoon(r) \/ ReceiveNewView(r)
    BY <1>4 DEF HandleNewView
  <2> QED
    BY <1>1, <2>1, NewViewTooSoonSleeps DEF Next
<1>5. ASSUME NEW r \in Replicas, HandleTimeout(r)
      PROVE  Next \/ SleepStep
  <2>1. ctx[r].view < MaxView /\ (TimeoutTooSoon(r) \/ Timeout(r))
    BY <1>5 DEF HandleTimeout, TimerExpired
  <2> QED
    BY <1>1, <2>1, TimeoutTooSoonSleeps DEF Next
<1>6. ASSUME NEW r \in Replicas, DelayExpires(r) \/ DelayCallback(r) \/ Join(r)
      PROVE  UNCHANGED vars
  BY <1>6 DEF DelayExpires, DelayCallback, Join
<1>7. Tick => UNCHANGED vars
  BY DEF Tick
<1>8. UNCHANGED timedVars => UNCHANGED vars
  BY DEF timedVars
<1>9. CASE \E r \in Replicas : WakeInLoop(r)
  BY <1>9, WakeInLoopSleeps
<1> QED
  BY <1>2, <1>3, <1>4, <1>5, <1>6, <1>7, <1>8, <1>9 DEF TimedNext

LEMMA SleepKeeps ==
  ASSUME VInv, SleepStep
  PROVE  VInv'
<1>1. IInv' /\ signed \subseteq signed'
  BY DEF SleepStep, GoodStep
<1>2. CreatesLead'
  BY DEF SleepStep, VInv, CreatesLead
<1>3. FollowersVerify'
  BY DEF SleepStep, VInv, FollowersVerify, Follower
<1>4. FollowersLock'
  <2> SUFFICES ASSUME NEW x \in signed', Follower(x)
               PROVE  LockedOnParent(signed', ctx'[x.voter], x.block)
    BY DEF FollowersLock, Follower
  <2>1. x \in signed /\ x.voter \in Replicas
    BY <1>1 DEF SleepStep, IInv, TypeOK, Votes
  <2>2. ctx[x.voter] \in Contexts /\ ctx'[x.voter] \in Contexts
    BY <1>1, <2>1 DEF VInv, IInv, TypeOK
  <2>3. LockRises(ctx[x.voter], ctx'[x.voter])
    BY <2>1 DEF SleepStep
  <2> QED
    BY <1>1, <2>1, <2>2, <2>3, LockedMonotone DEF VInv, FollowersLock
<1> QED
  BY <1>1, <1>2, <1>3, <1>4 DEF VInv

\* A leader that signs while it sleeps, or goes back, makes no follower forget.
LEMMA SleepRemembers ==
  ASSUME VInv, SleepStep, NEW r \in Replicas, NoReturn(r), Remembers(r)
  PROVE  Remembers(r)'
<1>1. \A x \in signed' : Follower(x) => x \in signed
  BY DEF SleepStep
<1>2. VotesKept(ctx[r], ctx'[r])
  BY DEF SleepStep
<1>3. /\ \A x \in signed : x.view \in Nat
      /\ ctx[r].view \in 0 .. MaxView /\ ctx'[r].view \in 0 .. MaxView
  BY BoundsAssumption DEF SleepStep, GoodStep, VInv, IInv, TypeOK, Contexts, Votes, Views
<1>4. ASSUME NEW x \in signed, x.view + KeepViews < ctx[r].view
      PROVE  x.view + KeepViews < ctx'[r].view
  <2>1. x.view \in Nat
    BY <1>3
  <2>2. ~(KeepViews >= MaxView)
    BY <1>3, <1>4, <2>1, BoundsAssumption
  <2>3. ctx[r].view <= ctx'[r].view
    BY <2>2 DEF NoReturn
  <2> QED
    BY <1>3, <1>4, <2>1, <2>3, BoundsAssumption
<1>5. ASSUME NEW x \in signed', x.voter = r, Follower(x)
      PROVE  x \in ctx'[r].votes \/ x.view + KeepViews < ctx'[r].view
  BY <1>1, <1>2, <1>4, <1>5 DEF Remembers, VotesKept
<1>6. ASSUME NEW x \in signed', NEW y \in signed',
             x.voter = r, y.voter = r, x.view = y.view, Follower(x)
      PROVE  x = y
  <2>1. Follower(y)
    BY <1>6 DEF Follower
  <2> QED
    BY <1>1, <1>6, <2>1 DEF Remembers
<1> QED
  BY <1>5, <1>6 DEF Remembers, Follower

\* The loop sleeps for what is left of the minimum block time.
LEMMA SleepType ==
  ASSUME TInv, NEW r \in Replicas, NEW c, NEW v \in Views, NEW expired \in BOOLEAN
  PROVE  /\ Sleep(r, c, v, expired) \in SUBSET Naps
         /\ \A n \in Sleep(r, c, v, expired) : Leader(n.view) = r
<1>1. TimeUntilCanPropose(since[r]) \in Nat
  BY ConfigType DEF TInv, TimeUntilCanPropose
<1> QED
  BY <1>1 DEF Sleep, Naps, MayPropose

LEMMA NapStep ==
  ASSUME TInv, [TimedNext]_timedVars
  PROVE  /\ nap' \in [Replicas -> SUBSET Naps]
         /\ \A r \in Replicas : \A n \in nap'[r] : Leader(n.view) = r
<1>1. CASE UNCHANGED nap
  BY <1>1 DEF TInv
<1>2. CASE Tick
  <2> DEFINE waking(n) == [n EXCEPT !.left = Earlier(n.left)]
  <2>1. \A r \in Replicas : nap'[r] = {waking(n) : n \in nap[r]}
    BY <1>2 DEF Tick
  <2>2. nap' = [r \in Replicas |-> {waking(n) : n \in nap[r]}]
    BY <1>2 DEF Tick
  <2>3. \A n \in Naps : waking(n) \in Naps /\ waking(n).view = n.view
    BY DEF Naps, Earlier
  <2> HIDE DEF waking
  <2>4. \A r \in Replicas : nap'[r] \in SUBSET Naps
    BY <2>1, <2>3 DEF TInv
  <2>5. \A r \in Replicas : \A n \in nap'[r] : Leader(n.view) = r
    BY <2>1, <2>3 DEF TInv
  <2> QED
    BY <2>2, <2>4, <2>5
<1>3. ASSUME NEW r \in Replicas, NEW s \in SUBSET Naps, \A n \in s : Leader(n.view) = r,
             nap' = [nap EXCEPT ![r] = s]
      PROVE  /\ nap' \in [Replicas -> SUBSET Naps]
             /\ \A q \in Replicas : \A n \in nap'[q] : Leader(n.view) = q
  BY <1>3 DEF TInv
<1>4. ASSUME NEW r \in Replicas, WakeInLoop(r)
      PROVE  nap' = [nap EXCEPT ![r] = {}]
  BY <1>4 DEF WakeInLoop
<1>5. ASSUME NEW r \in Replicas, NewViewTooSoon(r)
      PROVE  \E s \in SUBSET Naps : /\ \A n \in s : Leader(n.view) = r
                                    /\ nap' = [nap EXCEPT ![r] = s]
  <2>1. PICK m \in Received(r, "NEWVIEW") :
          \E c : nap' = [nap EXCEPT ![r] = Sleep(r, c, m.view, FALSE)]
    BY <1>5 DEF NewViewTooSoon
  <2>2. m.view \in Views
    BY DEF Received, TInv, VInv, IInv, TypeOK, Messages
  <2> QED
    BY <2>1, <2>2, SleepType
<1>6. ASSUME NEW r \in Replicas, ctx[r].view < MaxView, TimeoutTooSoon(r)
      PROVE  \E s \in SUBSET Naps : /\ \A n \in s : Leader(n.view) = r
                                    /\ nap' = [nap EXCEPT ![r] = s]
  <2>1. \E c : nap' = [nap EXCEPT ![r] = Sleep(r, c, ctx[r].view + 1, TRUE)]
    BY <1>6 DEF TimeoutTooSoon
  <2>2. ctx[r].view + 1 \in Views
    BY <1>6, BoundsAssumption DEF TInv, VInv, IInv, TypeOK, Contexts, Views
  <2> QED
    BY <2>1, <2>2, SleepType
<1>7. ASSUME NEW r \in Replicas,
             \/ HandleProposal(r) \/ Vote(r) \/ HandleVote(r)
             \/ (HandleNewView(r) /\ ~TooSoon(r)) \/ (HandleTimeout(r) /\ ~TooSoon(r))
             \/ Advance(r) \/ StartWaiting(r) \/ WakeAndPropose(r)
             \/ DelayExpires(r) \/ DelayCallback(r) \/ Join(r)
      PROVE  UNCHANGED nap
  BY <1>7 DEF HandleProposal, Vote, HandleVote, HandleNewView, HandleTimeout, Advance,
              StartWaiting, WakeAndPropose, DelayExpires, DelayCallback, Join
<1>8. ASSUME NEW r \in Replicas, TooSoon(r), HandleNewView(r)
      PROVE  NewViewTooSoon(r)
  BY <1>8 DEF HandleNewView
<1>9. ASSUME NEW r \in Replicas, TooSoon(r), HandleTimeout(r)
      PROVE  ctx[r].view < MaxView /\ TimeoutTooSoon(r)
  BY <1>9 DEF HandleTimeout, TimerExpired
<1>10. UNCHANGED timedVars => UNCHANGED nap
  BY DEF timedVars
<1>11. CASE UNCHANGED timedVars \/ Tick
  BY <1>1, <1>2, <1>10, <1>11
<1>12. CASE \E r \in Replicas : HandleNewView(r) \/ HandleTimeout(r) \/ WakeInLoop(r)
  <2>1. PICK r \in Replicas : HandleNewView(r) \/ HandleTimeout(r) \/ WakeInLoop(r)
    BY <1>12
  <2>2. CASE WakeInLoop(r)
    <3>1. {} \in SUBSET Naps /\ \A n \in {} : Leader(n.view) = r
      OBVIOUS
    <3> QED
      BY <2>2, <3>1, <1>3, <1>4
  <2>3. CASE TooSoon(r) /\ HandleNewView(r)
    BY <2>3, <1>3, <1>5, <1>8
  <2>4. CASE TooSoon(r) /\ HandleTimeout(r)
    BY <2>4, <1>3, <1>6, <1>9
  <2>5. CASE ~TooSoon(r) /\ (HandleNewView(r) \/ HandleTimeout(r))
    BY <2>5, <1>1, <1>7
  <2> QED
    BY <2>1, <2>2, <2>3, <2>4, <2>5
<1> QED
  BY <1>1, <1>7, <1>11, <1>12 DEF TimedNext

LEMMA SinceStep ==
  ASSUME TInv, [TimedNext]_timedVars
  PROVE  since' \in [Replicas -> 0 .. Config.MinBlockTime]
<1>1. CASE UNCHANGED since
  BY <1>1 DEF TInv
<1>2. ASSUME NEW r \in Replicas, since' = [since EXCEPT ![r] = 0]
      PROVE  since' \in [Replicas -> 0 .. Config.MinBlockTime]
  BY <1>2, ConfigType DEF TInv
<1>3. CASE Tick
  BY <1>3, ConfigType DEF Tick, TInv
<1>4. ASSUME NEW r \in Replicas, NEW entered, NEW voted, NEW expired,
             Paced(r, entered, voted, expired)
      PROVE  UNCHANGED since \/ since' = [since EXCEPT ![r] = 0]
  BY <1>4 DEF Paced
<1>5. ASSUME NEW r \in Replicas,
             \/ HandleProposal(r) \/ Vote(r) \/ HandleVote(r) \/ HandleNewView(r)
             \/ HandleTimeout(r) \/ WakeInLoop(r)
             \/ Advance(r) \/ StartWaiting(r) \/ WakeAndPropose(r)
      PROVE  \E entered, voted, expired : Paced(r, entered, voted, expired)
  BY <1>5 DEF HandleProposal, Vote, HandleVote, HandleNewView, HandleTimeout,
              WakeInLoop, Advance, StartWaiting, WakeAndPropose
<1>6. ASSUME NEW r \in Replicas, DelayExpires(r) \/ DelayCallback(r) \/ Join(r)
      PROVE  UNCHANGED since
  BY <1>6 DEF DelayExpires, DelayCallback, Join
<1>7. UNCHANGED timedVars => UNCHANGED since
  BY DEF timedVars
<1> QED
  BY <1>1, <1>2, <1>3, <1>4, <1>5, <1>6, <1>7 DEF TimedNext

LEMMA TInvStep ==
  ASSUME TInv, [TimedNext]_timedVars
  PROVE  TInv'
<1>1. VInv'
  BY TimedCases, VInvStep, SleepKeeps DEF TInv
<1> QED
  BY <1>1, SinceStep, NapStep DEF TInv

LEMMA TInvInit == TimedInit => TInv
  BY VInvInit, ConfigType DEF TimedInit, TInv

LEMMA TimedInvariant == TimedSpec => []TInv
<1>1. TInv /\ [TimedNext]_timedVars => TInv'
  BY TInvStep
<1> QED
  BY <1>1, TInvInit, StepsInTime, PTL

\* A QC rests on votes a quorum signed also when the leader sleeps in its
\* message loop, between reading NEWVIEWs and proposing, while its goroutines
\* move it to other views (hotstuff2.go:952-981).
THEOREM TimedQCsAreCertified == TimedSpec => []QCIntegrity
<1>1. TInv => QCIntegrity
  BY IInvCertified DEF TInv, VInv
<1> QED
  BY <1>1, TimedInvariant, PTL

\* With clocks, pacemakers and replicas that start late a follower signs one
\* vote in a view, for as long as no vote has been pruned.
THEOREM TimedOneVote == KeepViews >= MaxView /\ TimedSpec => []OneVotePerView
<1> SUFFICES ASSUME KeepViews >= MaxView
             PROVE  TimedSpec => []OneVotePerView
  OBVIOUS
<1>1. TInv /\ AllRemember /\ [TimedNext]_timedVars => AllRemember'
  <2> SUFFICES ASSUME TInv, AllRemember, [TimedNext]_timedVars PROVE AllRemember'
    OBVIOUS
  <2>1. VInv /\ \A r \in Replicas : NoReturn(r)
    BY DEF TInv, NoReturn
  <2> QED
    BY <2>1, TimedCases, AllRememberStep, SleepRemembers DEF AllRemember
<1>2. TimedInit => AllRemember
  BY AllRememberInit DEF TimedInit
<1>3. TInv /\ AllRemember => OneVotePerView
  BY OneVoteEach DEF TInv, VInv
<1> QED
  BY <1>1, <1>2, <1>3, TimedInvariant, StepsInTime, PTL

\* and two QCs of a view are for one block.
THEOREM TimedOneQC == N <= 4 * F /\ KeepViews >= MaxView /\ TimedSpec => []UniqueQCPerView
<1> SUFFICES ASSUME N <= 4 * F, KeepViews >= MaxView
             PROVE  TimedSpec => []UniqueQCPerView
  OBVIOUS
<1>1. TInv /\ QCIntegrity /\ OneVotePerView => UniqueQCPerView
  BY OneQC DEF TInv, VInv
<1>2. TimedSpec => []OneVotePerView
  BY TimedOneVote
<1> QED
  BY <1>1, <1>2, TimedInvariant, TimedQCsAreCertified, PTL
==============================================================================
