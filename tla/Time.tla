-------------------------------- MODULE Time --------------------------------
(***************************************************************************)
(* The time reactor (runtime/actor/time-reactor.ts over external/clock.ts):*)
(* now, sleep and watch as calls.  A sleep holds an absolute deadline, a   *)
(* watch the cursor of its next occurrence; both are in the call's row, so *)
(* a timer is armed again after any reload.  A timer that fires enters the *)
(* serial loop as a turn.  A cron schedule is an interval here.            *)
(*                                                                         *)
(* The occurrences of a watch are delivered by inner delegations, one at a *)
(* time: its children, in the order of their minting.                      *)
(***************************************************************************)
EXTENDS CallReactor

CONSTANTS
  Now, Sleep, Watch, Invalid,  \* the calls, by their operation; Invalid cannot run
  Span,      \* [Sleep \cup Watch -> Nat]: how long to sleep; the period of a schedule
  MaxDelay,  \* MAX_TIMER_DELAY_MS: the longest delay of one timer
  MaxClock   \* bound

TimeAssumption ==
  /\ Call = Now \cup Sleep \cup Watch \cup Invalid
  /\ Watch \cap (Now \cup Sleep \cup Invalid) = {} /\ Sleep \cap (Now \cup Invalid) = {}
  /\ Span \in [Sleep \cup Watch -> Nat] /\ \A v \in Watch : Span[v] > 0
  /\ MaxDelay \in Nat \ {0} /\ MaxClock \in Nat

VARIABLES
  clock,  \* the wall clock
  timers  \* the armed timers: [call, at, deadline], at most one of a call

timeVars == <<clock, timers>>
vars == <<callVars, timeVars>>

TimeWarm == WarmWith(
  [due    |-> [c \in Sleep \cup Watch |-> 0],   \* a deadline, or the cursor of a watch
   opened |-> [c \in Sleep \cup Watch |-> 0],   \* observed: when the call was opened
   woken  |-> {},                               \* observed: <<sleep, when it ended>>
   ticks  |-> [v \in Watch |-> << >>]])         \* observed: the occurrences delivered

Init ==
  /\ InitFrom(TimeWarm)
  /\ clock = 0 /\ timers = {}

\* Mutant: an occurrence at this very moment is due again.
NextOccurrence_Inclusive(previous, period, now) ==
  LET missed == (now - previous) \div period
  IN previous + period * (IF missed > 0 THEN missed ELSE 0)

\* The first occurrence on the grid of `previous` that is after it and after now.
NextOccurrence(previous, period, now) ==
  LET missed == IF now < previous THEN 0 ELSE (now - previous) \div period
  IN previous + period * (missed + 1)

OpenPayload(w, c) ==
  IF c \notin Sleep \cup Watch THEN w
  ELSE [w EXCEPT !.opened[c] = clock,
                 !.due[c] = IF c \in Sleep THEN clock + Span[c]
                            ELSE NextOccurrence(clock, Span[c], clock)]

-----------------------------------------------------------------------------
(* Timers.                                                                 *)

\* Mutant: a long deadline is armed in one piece, which Node fires at once.
Timer_OnePiece(c, deadline) ==
  [call |-> c, at |-> IF deadline > clock + MaxDelay THEN clock + 1 ELSE deadline, deadline |-> clock]

\* A passed deadline fires at once; a far one is reached in hops.
Timer(c, deadline) ==
  [call |-> c, at |-> IF deadline > clock + MaxDelay THEN clock + MaxDelay ELSE deadline,
   deadline |-> deadline]

\* The timers without those of `cleared`, with one for each of `armed`.
Rearm(cleared, armed) ==
  {t \in timers : t.call \notin cleared \cup armed} \cup {Timer(c, warm.due[c]) : c \in armed}

Fires(c) ==
  /\ \E t \in timers :
       /\ t.call = c /\ clock >= t.at
       /\ IF clock < t.deadline
          THEN timers' = (timers \ {t}) \cup {Timer(c, t.deadline)} /\ UNCHANGED callVars
          ELSE /\ timers' = timers \ {t}
               /\ warm' = [warm EXCEPT !.mail = Append(@, Work("timer", c))]
               /\ UNCHANGED <<rows, phase, after, faults, crashes, plan>>
  /\ UNCHANGED clock

Passes == clock < MaxClock /\ clock' = clock + 1 /\ UNCHANGED <<callVars, timers>>

-----------------------------------------------------------------------------
(* Turns.  A call that is dropped loses its timer.                         *)

\* Mutant: the timer of a dropped call stays armed.
TimeTurn_NoDisarm(next) == Turn(next) /\ UNCHANGED timeVars

TimeTurn(next) ==
  /\ Turn(next)
  /\ timers' = {t \in timers : next.status[t.call] # "gone"}
  /\ UNCHANGED clock

Unused(w, v) == {i \in Children(v) : w.edge[i] = "none"}
Least(S) == CHOOSE i \in S : \A j \in S : i <= j

\* Mutant: the cursor stays until the delivery has settled.
FireWatchTick_KeepsCursor(w, v) ==
  IF AcceptsWork(w, v)
  THEN [OpenInner(w, Least(Unused(w, v)), "tick") EXCEPT !.ticks[v] = Append(@, w.due[v])]
  ELSE w

\* The cursor moves with the commit that opens the delivery.
FireWatchTick(w, v) ==
  LET fired == [w EXCEPT !.due[v] = NextOccurrence(w.due[v], Span[v], clock)]
  IN IF AcceptsWork(w, v)
     THEN [OpenInner(fired, Least(Unused(w, v)), "tick") EXCEPT !.ticks[v] = Append(@, w.due[v])]
     ELSE fired

OnTimer(w, c) ==
  CASE ~Live(w, c)                  -> w
    [] Live(w, c) /\ c \in Sleep    -> Complete([w EXCEPT !.woken = @ \cup {<<c, clock>>}], c, "result")
    [] Live(w, c) /\ c \in Watch    -> FireWatchTick(w, c)

\* Bound: a watch fires as often as it has children.
TimerTurn ==
  /\ Ready /\ Head(warm.mail).k = "timer"
  /\ LET c == Head(warm.mail).d
     IN /\ c \in Watch => Unused(warm, c) # {}
        /\ TimeTurn(OnTimer(Taken, c))
  /\ UNCHANGED after

CompleteTurn ==
  /\ Ready /\ Head(warm.mail).k = "complete"
  /\ LET t == Head(warm.mail) IN TimeTurn(Complete(Taken, t.d, t.o))
  /\ UNCHANGED after

EventTurn ==
  /\ Ready /\ IsEvent(Head(warm.mail))
  /\ LET t == Head(warm.mail)
     IN IF ToReactor(t)
        THEN /\ after' = Append(after, t)
             /\ TimeTurn(IF t.k = "delegate" THEN OpenPayload(OnDelegate(Taken, t.d), t.d)
                         ELSE ReactorReact(Taken, t))
        ELSE TimeTurn(CoreReact(Taken, t)) /\ UNCHANGED after

Dispatched == {c \in Call : Live(warm, c) /\ Event("delegate", c, Own) \in ToSet(after)}
Aborted    == {c \in Call : warm.status[c] = "cancelling"
                              /\ Event("terminate", c, Own) \in ToSet(after)}

Answer(c) == Completion(c, IF c \in Now THEN "result" ELSE "failure")

\* Mutant: the next occurrence is not armed when a delivery returned.
AfterCommit_NoRearm ==
  /\ phase = "post" /\ phase' = "idle" /\ after' = << >>
  /\ LET begun == Dispatched \ Aborted
     IN /\ timers' = Rearm(Aborted, begun \cap (Sleep \cup Watch))
        /\ warm' = [warm EXCEPT !.staged = << >>,
             !.mail = @ \o SetToSeq({Answer(c) : c \in begun \ (Sleep \cup Watch)}
                                    \cup {Completion(c, "cancelled") : c \in Aborted})]
  /\ UNCHANGED <<rows, faults, crashes, plan, clock>>

\* dispatch, abort, and the next occurrence of a watch whose delivery returned.
AfterCommit ==
  /\ phase = "post" /\ phase' = "idle" /\ after' = << >>
  /\ LET begun     == Dispatched \ Aborted
         returned  == {s \in ToSet(warm.staged) : s.outcome = "result" /\ Live(warm, s.call)}
     IN /\ timers' = Rearm(Aborted, (begun \cap (Sleep \cup Watch)) \cup {s.call : s \in returned})
        /\ warm' = [warm EXCEPT !.staged = << >>,
             !.mail = @ \o SetToSeq({Answer(c) : c \in begun \ (Sleep \cup Watch)}
                                    \cup {Completion(c, "cancelled") : c \in Aborted})]
  /\ UNCHANGED <<rows, faults, crashes, plan, clock>>

-----------------------------------------------------------------------------
(* Reload: no timer survives a reset, every one is armed again.            *)

Disarm == timers' = {} /\ UNCHANGED clock

\* Mutant: a sleep is left as it is.
Rearmed_NoSleep == {c \in Watch : warm.status[c] = "running" /\ ~Draining(warm, c)}

Rearmed == {c \in Sleep \cup Watch : warm.status[c] = "running" /\ ~Draining(warm, c)}

Reload ==
  /\ Load(SetToSeq({Answer(c) : c \in {d \in Now \cup Invalid : warm.status[d] = "running"}}
                   \cup {Completion(c, "cancelled") : c \in {d \in Call : warm.status[d] = "cancelling"}}))
  /\ timers' = Rearm({}, Rearmed)
  /\ UNCHANGED clock

Crash ==
  /\ crashes < plan.crashes /\ crashes' = crashes + 1
  /\ Forget(rows) /\ Disarm
  /\ UNCHANGED <<rows, faults, plan>>

Loop ==
  \/ EventTurn \/ TimerTurn \/ CompleteTurn
  \/ Commit /\ UNCHANGED timeVars
  \/ AfterCommit
  \/ Reload

Peers ==
  \/ \E c \in Call : CoreCalls(c) \/ CoreCancels(c) \/ CoreAnswers(c, Own)
  \/ \E i \in Inner : CalleeReturns(i)

Next ==
  \/ Loop \/ (Peers /\ UNCHANGED timeVars)
  \/ Passes \/ \E c \in Call : Fires(c)
  \/ (Fail \/ CommitInDoubt) /\ Disarm
  \/ Crash

Spec == Init /\ [][Next]_vars

Returns(i) == CalleeReturns(i) /\ UNCHANGED timeVars
-----------------------------------------------------------------------------
(* Properties.                                                             *)

\* The state has its type.
TypeOK ==
  /\ warm.status \in [Call -> {"none", "running", "cancelling", "awaitingAnswer", "gone"}]
  /\ warm.edge \in [Inner -> {"none", "running", "cancelling", "retired"}]
  /\ clock \in 0..MaxClock
  /\ \A t \in timers : t.call \in Sleep \cup Watch /\ Live(warm, t.call)
  /\ \A t, u \in timers : t.call = u.call => t = u

\* A sleep does not end early, through hops and reloads.
NeverEarly ==
  \A w \in warm.woken : w[2] >= warm.opened[w[1]] + Span[w[1]]

\* The occurrences that reach a program lie on the grid of its schedule, each
\* one later than the last, none delivered twice: whatever was lost between
\* the commit of a delivery and its answer.
OccurrencesOnce ==
  \A v \in Watch : \A n \in DOMAIN warm.ticks[v] :
    /\ warm.ticks[v][n] > warm.opened[v]
    /\ (warm.ticks[v][n] - warm.opened[v]) % Span[v] = 0
    /\ n > 1 => warm.ticks[v][n] > warm.ticks[v][n - 1]

\* The deliveries of a watch do not overlap.
Serialized ==
  \A v \in Watch : Cardinality({i \in Children(v) : warm.edge[i] \in {"running", "cancelling"}}) <= 1

\* A watch that runs has exactly one thing that will move it: its timer, the
\* turn its timer asked for, or a delivery in flight.
WatchIsDriven ==
  \A v \in Watch :
    phase # "down" /\ warm.status[v] = "running" /\ warm.held[v] = "nothing"
      /\ Event("delegate", v, Own) \notin ToSet(after) =>
      Cardinality({d \in {"timer", "turn", "delivery", "staged"} :
        CASE d = "timer"    -> (\E t \in timers : t.call = v)
          [] d = "turn"     -> Work("timer", v) \in ToSet(warm.mail)
          [] d = "delivery" -> Draining(warm, v)
          [] d = "staged"   -> \E n \in DOMAIN warm.staged : warm.staged[n].call = v}) = 1

\* Bound: the clock does not reach this moment.
BeyondClock(c) == rows.due[c] > MaxClock

\* A call other than a watch ends: a sleep when its time has come, a cancelled
\* one in any case, one that cannot run with a failure.
CallOpen(c) == rows.proxy[c] \in {"calling", "cancelling"}
CallSettled(c) ==
  \/ rows.proxy[c] = "done" \/ rows.status[c] = "awaitingAnswer"
  \/ c \in Sleep /\ rows.proxy[c] = "calling" /\ BeyondClock(c)

\* The occurrences of a watch keep coming as long as nobody ends it and the
\* bounds leave room for another one.
KeptFiring(c) ==
  rows.proxy[c] # "calling" \/ BeyondClock(c) \/ \A i \in Children(c) : rows.callee[i] = "done"

\* Every call ends, a watch keeps firing, whatever fails.
CallEnds(c) == IF c \in Watch THEN KeptFiring(c) ELSE CallSettled(c)
=============================================================================
