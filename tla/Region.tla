------------------------------- MODULE Region -------------------------------
(***************************************************************************)
(* The region reactor (runtime/actor/region-reactor.ts): one nursery.  A   *)
(* provide call opens its scope and runs the continuation; a fork starts a *)
(* fiber under the provide; a fiber's escalations wait in the provide's    *)
(* mailbox until a watch raises them again at its own place; a fiber that  *)
(* fails is torn down and reported there; a cancel_by_id tears one down.   *)
(* The reactor has no process behind it: what a transport would do comes   *)
(* back as turns it schedules after a commit.                              *)
(*                                                                         *)
(* An ask of fiber i is named i, the report of its failure -i.             *)
(***************************************************************************)
EXTENDS CallReactor, Integers

CONSTANTS
  Provide,      \* the provide call
  Fork, Watch, Cancel, Roster,  \* the other calls, by their operation
  FiberOf,      \* [Fork -> Inner]: the fiber a fork starts
  Target,       \* [Cancel -> fibers]: what a cancel addresses
  Continuation, \* the inner delegation of the continuation
  Malformed     \* the provide and the forks whose argument is no agent

None == "none"

Fiber == Inner \ {Continuation}

\* A call has one operation, and a fork starts a fiber of its own.  A plan also
\* says which fibers may fail and which delegations may return, and the call
\* whose end it is about.
ASSUME RegionAssumption ==
  /\ Call = {Provide} \cup Fork \cup Watch \cup Cancel \cup Roster
  /\ Provide \notin Fork \cup Watch \cup Cancel \cup Roster
  /\ Fork \cap (Watch \cup Cancel \cup Roster) = {}
  /\ Watch \cap (Cancel \cup Roster) = {} /\ Cancel \cap Roster = {}
  /\ None \notin Call
  /\ Continuation \in Inner /\ Malformed \subseteq Call
  /\ FiberOf \in [Fork -> Fiber] /\ \A f, g \in Fork : FiberOf[f] = FiberOf[g] => f = g
  /\ Target \in [Cancel -> Fiber]
  /\ ParentOf = [i \in Inner |-> Provide]
  /\ \A p \in Plans : p.fails \subseteq Fiber /\ p.returns \subseteq Inner /\ p.follow \in {None, Provide} \cup Cancel

vars == callVars

RegionWarm == WarmWith(
  [mailbox   |-> << >>,   \* of the provide, in its row
   names     |-> {},      \* of the provide, in its row: the fibers it knows a name of
   unstarted |-> TRUE,    \* the continuation is still in the provide's row
   open      |-> FALSE,   \* scopes, in memory
   running   |-> {},      \* scopes[..].running, in memory
   watches   |-> << >>,   \* watchesByScope, in memory
   waiter    |-> [i \in Fiber |-> None],    \* cancelWaiters, in memory
   told      |-> [k \in Cancel |-> None],   \* observed: the answers of the cancels
   arrived   |-> << >>, emitted |-> << >>]) \* observed: in and out of the mailbox

\* reset: the routing is in memory; recover builds it again from the rows.
ResetRouting(w) ==
  [w EXCEPT !.open = FALSE, !.running = {}, !.watches = << >>, !.waiter = [i \in Fiber |-> None]]

\* Mutant: the mailbox is in memory only.
RegionDurable_NoMailbox(w) == [ResetRouting(Durable(w)) EXCEPT !.mailbox = << >>]

RegionDurable(w) == ResetRouting(Durable(w))

Init == InitFrom(RegionWarm)

-----------------------------------------------------------------------------
(* The scope registry, the mailbox and the watches.                        *)

\* A fresh scope has no running fibers; a closed one knows none any more.
OpenScope(w)  == [w EXCEPT !.open = TRUE, !.running = {}]
CloseScope(w) == [w EXCEPT !.open = FALSE, !.running = {}]

Without(s, X) == Picked(s, {n \in DOMAIN s : s[n] \notin X})

\* Registered once, in the order of registration.
RegisterWatch(w, v) == [w EXCEPT !.watches = IF v \in ToSet(@) THEN @ ELSE Append(@, v)]
UnregisterWatches(w, vs) == [w EXCEPT !.watches = Without(@, vs)]

Schedule(w, turns) == [w EXCEPT !.mail = @ \o turns]

\* Raise a sequence of entries again, round robin over some watches.
RaiseAgain(w, watches, out) ==
  LET At(n) == watches[((n - 1) % Len(watches)) + 1]
  IN [w EXCEPT !.mailbox = << >>, !.emitted = @ \o out,
               !.relays = @ \cup {<<At(n), out[n]>> : n \in DOMAIN out},
               !.mail = @ \o [n \in DOMAIN out |-> Event("escalate", At(n), out[n])]]

\* The watches that take asks, in the order of their registration.
Takers(w) == Picked(w.watches, {n \in DOMAIN w.watches : Relays(w, w.watches[n])})

\* Mutants: the newest entry goes first; a watch that winds down is asked as well.
Pump_Lifo(w) ==
  IF ~w.open \/ Takers(w) = << >> THEN w ELSE RaiseAgain(w, Takers(w), Reverse(w.mailbox))

Pump_IntoDying(w) ==
  CASE ~w.open \/ w.watches = << >> -> w
    [] w.open /\ w.watches # << >> /\ ~Relays(w, Head(w.watches)) -> [w EXCEPT !.mailbox = << >>]
    [] OTHER -> RaiseAgain(w, <<Head(w.watches)>>, w.mailbox)

\* The whole mailbox, as long as somebody takes it.
Pump(w) ==
  IF ~w.open \/ Takers(w) = << >> THEN w ELSE RaiseAgain(w, Takers(w), w.mailbox)

Post(w, x) == Pump([w EXCEPT !.mailbox = Append(@, x), !.arrived = Append(@, x)])

\* Mutant: the report of a failure goes with the asks of the fiber.
DropFiberMailbox_AndReport(w, i) ==
  [w EXCEPT !.mailbox = Without(@, {i, -i})]

DropFiberMailbox(w, i) == [w EXCEPT !.mailbox = Without(@, {i})]

TerminateFiber(w, i) ==
  IF w.edge[i] = "running"
  THEN [Send(w, "terminate", i, Own) EXCEPT !.edge[i] = "cancelling"]
  ELSE w

\* crashFiber and failFiber: a panic and a throw that leave a fiber end it.
EndFiber(w, i) == Post(TerminateFiber(DropFiberMailbox(w, i), i), -i)

RegionOnEscalate(w, i, what) ==
  CASE i \notin w.running                      -> OnEscalate(w, i)
    [] i \in w.running /\ what = "failure"     -> EndFiber(w, i)
    [] i \in w.running /\ what # "failure"     -> Post(w, i)

-----------------------------------------------------------------------------
(* The scheduled turns.                                                    *)

StartContinuation(w) ==
  CASE ~w.unstarted -> w
    [] w.unstarted /\ Provide \in Malformed -> Complete(w, Provide, "failure")
    [] w.unstarted /\ Provide \notin Malformed /\ ~AcceptsWork(w, Provide) -> w
    [] OTHER -> [OpenInner(w, Continuation, Continuation) EXCEPT !.unstarted = FALSE]

\* A closed scope, a task that is no agent and a provide that winds down fail
\* the fork; every fiber is named.
StartFork(w, f) ==
  LET i == FiberOf[f]
  IN IF ~w.open \/ f \in Malformed \/ ~AcceptsWork(w, Provide) THEN Complete(w, f, "failure")
     ELSE Complete([OpenInner(w, i, i) EXCEPT !.running = @ \cup {i}, !.names = @ \cup {i}],
                   f, "result")

Tell(w, k, answer) == Complete([w EXCEPT !.told[k] = answer], k, "result")

\* Mutant: the fiber is not told to stop.
StartCancelById_NoTerminate(w, k) ==
  LET i == Target[k]
  IN CASE ~w.open                               -> Complete(w, k, "failure")
       [] w.open /\ i \notin w.running          -> Tell(w, k, "unknown_fiber")
       [] w.open /\ i \in w.running /\ w.waiter[i] # None -> Tell(w, k, "cancelled")
       [] OTHER -> [DropFiberMailbox(w, i) EXCEPT !.waiter[i] = k]

StartCancelById(w, k) ==
  LET i == Target[k]
  IN CASE ~w.open                               -> Complete(w, k, "failure")
       [] w.open /\ i \notin w.running          -> Tell(w, k, "unknown_fiber")
       [] w.open /\ i \in w.running /\ w.waiter[i] # None -> Tell(w, k, "cancelled")
       [] OTHER -> TerminateFiber([DropFiberMailbox(w, i) EXCEPT !.waiter[i] = k], i)

\* Mutant: what arrived before the watch is not raised by it.
StartWatch_NoPump(w, v) ==
  IF ~w.open THEN Complete(w, v, "failure") ELSE RegisterWatch(w, v)

StartWatch(w, v) ==
  IF ~w.open THEN Complete(w, v, "failure") ELSE Pump(RegisterWatch(w, v))

StartRoster(w, r) == Complete(w, r, IF w.open THEN "result" ELSE "failure")

\* A call that resolved, or was torn down, meanwhile has nothing to start.
Start(w, c) ==
  CASE ~Live(w, c)                     -> w
    [] Live(w, c) /\ c = Provide       -> StartContinuation(w)
    [] Live(w, c) /\ c \in Fork        -> StartFork(w, c)
    [] Live(w, c) /\ c \in Cancel      -> StartCancelById(w, c)
    [] Live(w, c) /\ c \in Watch       -> StartWatch(w, c)
    [] Live(w, c) /\ c \in Roster      -> StartRoster(w, c)

RetireFiber(w, i) ==
  LET k == w.waiter[i]
      v == [w EXCEPT !.running = @ \ {i}, !.names = @ \ {i}, !.waiter[i] = None]
  IN IF ~Live(w, Provide) THEN w ELSE IF k = None THEN v ELSE Tell(v, k, "cancelled")

Dropped(w, v) == {c \in Call : Live(w, c) /\ v.status[c] = "gone"}

\* Mutant: the waiter outlives the cancel that waits.
OnDropCall_KeepsWaiter(w, v) ==
  LET gone == Dropped(w, v)
  IN UnregisterWatches(IF Provide \in gone THEN CloseScope(v) ELSE v, gone)

\* What a turn from w to v dropped: the scope of the provide, a registration,
\* a waiter; and what a dropped watch had not raised is due again.
OnDropCall(w, v) ==
  LET gone   == Dropped(w, v)
      closed == IF Provide \in gone THEN CloseScope(v) ELSE v
      u == [UnregisterWatches(closed, gone) EXCEPT
              !.waiter = [i \in Fiber |-> IF @[i] \in gone THEN None ELSE @[i]]]
  IN IF ToSet(v.watches) \cap gone # {} THEN Schedule(u, <<Work("pump", Provide)>>) ELSE u

-----------------------------------------------------------------------------
(* Turns and commits.                                                      *)

ScheduledTurn(k, next(_, _)) ==
  /\ Ready /\ Head(warm.mail).k = k
  /\ Turn(OnDropCall(Taken, next(Taken, Head(warm.mail))))
  /\ UNCHANGED after

StartTurn    == ScheduledTurn("start", LAMBDA w, t : Start(w, t.d))
CompleteTurn == ScheduledTurn("complete", LAMBDA w, t : Complete(w, t.d, t.o))
RetireTurn   == ScheduledTurn("retire", LAMBDA w, t : RetireFiber(w, t.d))
PumpTurn     == ScheduledTurn("pump", LAMBDA w, t : Pump(w))

EventTurn ==
  /\ Ready /\ IsEvent(Head(warm.mail))
  /\ LET t == Head(warm.mail)
     IN IF ToReactor(t)
        THEN /\ Turn(OnDropCall(Taken, IF t.k = "escalate" THEN RegionOnEscalate(Taken, t.d, t.o)
                                       ELSE ReactorReact(Taken, t)))
             /\ after' = Append(after, t)
        ELSE Turn(CoreReact(Taken, t)) /\ UNCHANGED after

\* deliverInnerOutcome: the continuation's outcome is the provide's.
Delivery(s) ==
  IF s.inner = Continuation THEN Completion(Provide, s.outcome) ELSE Work("retire", s.inner)

\* dispatch and abort.
HasSideEffect(t) ==
  \/ t.k = "delegate" /\ Live(warm, t.d)
  \/ t.k = "terminate" /\ warm.status[t.d] = "cancelling"

SideEffect(t) == IF t.k = "delegate" THEN Work("start", t.d) ELSE Completion(t.d, "cancelled")

\* Those of the events at some places of the batch.
SideEffects(N) ==
  LET events == Picked(after, {n \in N : HasSideEffect(after[n])})
  IN [k \in DOMAIN events |-> SideEffect(events[k])]

\* The first event's side effects come before the staged deliveries.
AfterCommit ==
  /\ phase = "post" /\ phase' = "idle" /\ after' = << >>
  /\ LET first  == DOMAIN after \cap {1}
         next   == [Schedule(warm, SideEffects(first)
                                     \o [n \in DOMAIN warm.staged |-> Delivery(warm.staged[n])]
                                     \o SideEffects(DOMAIN after \ first))
                    EXCEPT !.staged = << >>]
         opens  == Live(warm, Provide) /\ Event("delegate", Provide, Own) \in ToSet(after)
     IN warm' = IF opens THEN OpenScope(next) ELSE next
  /\ UNCHANGED <<rows, faults, crashes, plan>>

\* A fiber is found again by its bridge, which the row of the provide holds.
RepopulateRunning(w) == [w EXCEPT !.running = {i \in Fiber : <<i, i>> \in w.bridge}]

ReloadedWatches(w) == {v \in Watch : w.status[v] = "running"}

\* Mutant: the fibers that run are not found again.
Recovered_NoFibers(w, watches) ==
  [(IF w.status[Provide] = "running" THEN OpenScope(w) ELSE w) EXCEPT !.watches = watches]

\* recover: a provide opens its scope again; a watch is registered unseen.
Recovered(w, watches) ==
  [(IF w.status[Provide] = "running" THEN RepopulateRunning(OpenScope(w)) ELSE w)
     EXCEPT !.watches = watches]

Restarted(w) ==
  {c \in Fork \cup Cancel \cup Roster \cup {Provide} :
     w.status[c] = "running" /\ (c = Provide => w.unstarted)}

\* Mutant: what waited for a watch stays in the mailbox.
Resumed_NoPump(w) ==
  {Completion(c, "cancelled") : c \in {d \in Call : w.status[d] = "cancelling"}}
    \cup {Work("start", c) : c \in Restarted(w)}

Resumed(w) ==
  {Completion(c, "cancelled") : c \in {d \in Call : w.status[d] = "cancelling"}}
    \cup {Work("start", c) : c \in Restarted(w)}
    \cup (IF w.status[Provide] = "running" /\ w.mailbox # << >> THEN {Work("pump", Provide)} ELSE {})

\* The rows of the calls are read in any order; a provide pumps, then starts.
Reload ==
  \E turns \in SetToSeqs(Resumed(warm)), watches \in SetToSeqs(ReloadedWatches(warm)) :
    /\ ~\E m, n \in DOMAIN turns :
         m < n /\ turns[m] = Work("start", Provide) /\ turns[n] = Work("pump", Provide)
    /\ LoadAs(Recovered(warm, watches), turns)

-----------------------------------------------------------------------------
(* Core: whoever holds the handle may call, in this nursery's fibers or in *)
(* another's; a fiber asks, fails or returns.                              *)

CoreCallsRegion(c) ==
  /\ c # Provide => warm.callee[Continuation] # "none"
  /\ c \in Cancel => \E f \in Fork : FiberOf[f] = Target[c] /\ warm.proxy[f] = "done"
  /\ CoreCalls(c)

Asks == Inner \cup {-i : i \in Fiber}

FiberFails(i) ==
  /\ i \in plan.fails /\ warm.callee[i] \in {"running", "answered"}
  /\ Turn([warm EXCEPT !.callee[i] = "failed",
                       !.mail = Append(@, [Event("escalate", i, Own) EXCEPT !.o = "failure"])])
  /\ UNCHANGED after

Crash ==
  /\ crashes < plan.crashes /\ crashes' = crashes + 1
  /\ Forget(rows)
  /\ UNCHANGED <<rows, faults, plan>>

Loop ==
  \/ EventTurn \/ StartTurn \/ CompleteTurn \/ RetireTurn \/ PumpTurn
  \/ CommitAs(RegionDurable(warm))
  \/ AfterCommit
  \/ Reload

Peers ==
  \/ \E c \in Call : CoreCallsRegion(c) \/ CoreCancels(c) \/ CoreAnswers(c, Own)
  \/ \E c \in Call, x \in Asks : CoreAnswers(c, x)
  \/ \E i \in Inner : (i \in plan.returns /\ CalleeReturns(i)) \/ CalleeAsks(i) \/ FiberFails(i)

Misfortune == Fail \/ CommitInDoubtAs(RegionDurable(warm)) \/ Crash

Next == Loop \/ Peers \/ Misfortune

\* The serial loop goes on while there is work, and the continuation returns
\* what it has been asked to compute.
Spec == Init /\ [][Next]_vars /\ WF_vars(Loop)
          /\ SF_vars(Continuation \in plan.returns /\ CalleeReturns(Continuation))
-----------------------------------------------------------------------------
(* Properties.                                                             *)

\* The state has its type.
TypeOK ==
  /\ warm.status \in [Call -> {"none", "running", "cancelling", "awaitingAnswer", "gone"}]
  /\ warm.edge \in [Inner -> {"none", "running", "cancelling", "retired"}]
  /\ warm.relays \subseteq Call \X Asks /\ ToSet(warm.mailbox) \subseteq Asks
  /\ warm.waiter \in [Fiber -> Cancel \cup {None}]
  /\ \A c \in Call : warm.held[c] # "nothing" => warm.status[c] = "running"

\* Only a cancel that still waits is resumed when its fiber ends.
WaiterIsLive ==
  \A i \in Fiber : warm.waiter[i] # None =>
    Target[warm.waiter[i]] = i /\ Live(warm, warm.waiter[i])

\* No fiber outlives its nursery: a fork that races the end of the provide is
\* refused or torn down with it.
NoFiberOutlives ==
  \A i \in Inner : warm.status[Provide] = "gone" => warm.callee[i] \in {"none", "done"}

\* The running set in memory is what the rows say, at every point and after
\* every reload, but for the fibers whose retirement is still to run.
RunningIsBridged ==
  phase # "down" /\ warm.open =>
    {i \in Fiber : <<i, i>> \in warm.bridge} = {i \in warm.running : warm.edge[i] # "retired"}

\* What waits in the mailbox does not wait beside a watch that would take it.
MailboxIsDue ==
  phase # "down" /\ warm.open /\ warm.mailbox # << >>
    /\ (\E v \in ToSet(warm.watches) : Relays(warm, v)) =>
    Work("pump", Provide) \in ToSet(warm.mail)

\* The ask of a fiber that runs is buffered, with a watch or on its way: only
\* the end of the watch it was raised at can leave it unanswered.
FiberAskKept ==
  \A i \in Fiber :
    phase # "down" /\ warm.callee[i] = "asking" /\ warm.edge[i] = "running"
      /\ warm.status[Provide] = "running" /\ warm.held[Provide] = "nothing" =>
      \/ \E t \in {"escalate", "escalateAck"} : Event(t, i, Own) \in ToSet(warm.mail)
      \/ i \in ToSet(warm.mailbox)
      \/ \E v \in Watch :
           /\ i \in ToSet(warm.emitted)
           /\ \/ warm.proxy[v] \in {"cancelling", "done"}
              \/ /\ <<v, i>> \in warm.relays
                 /\ \/ <<v, i>> \in warm.asked
                    \/ \E t \in {"escalate", "escalateAck"} : Event(t, v, i) \in ToSet(warm.mail)

\* The report that a fiber failed is never lost: no cancellation, drop of a
\* watch or reload takes it out of the mailbox before a watch raised it.
ReportKept ==
  \A i \in Fiber :
    -i \in ToSet(warm.arrived) => -i \in ToSet(warm.mailbox) \cup ToSet(warm.emitted)

\* A handler above the watch sees asks and reports in the order in which they
\* arrived, whatever registered, dropped or reloaded in between.
RaisedInOrder ==
  \A m, n \in DOMAIN warm.emitted : m < n =>
    \E a, b \in DOMAIN warm.arrived :
      a < b /\ warm.arrived[a] = warm.emitted[m] /\ warm.arrived[b] = warm.emitted[n]

\* What a cancel_by_id answers is true of its fiber: it does not run on.
CancelTellsTruth ==
  \A k \in Cancel : warm.told[k] # None => warm.edge[Target[k]] # "running"

\* The set of running fibers, the waiters, what a cancel is told and the lives of
\* the fibers agree.
FibersKept == NoFiberOutlives /\ RunningIsBridged /\ WaiterIsLive /\ CancelTellsTruth

\* An ask or a report reaches a watch: it waits where it is found, in its place.
MailboxKept == MailboxIsDue /\ FiberAskKept /\ ReportKept /\ RaisedInOrder

\* A cancel_by_id of a nursery that lives ends, though its waiter is forgotten
\* by a reload; a provide whose continuation returned answers with its result.
FollowedOpen ==
  /\ plan.follow # None /\ rows.proxy[plan.follow] = "calling"
  /\ plan.follow = Provide => rows.callee[Continuation] = "done"
FollowedEnded ==
  \/ plan.follow = None \/ rows.status[Provide] = "gone"
  \/ rows.proxy[plan.follow] # "calling" \/ rows.status[plan.follow] = "awaitingAnswer"
CallsEnd == FollowedOpen ~> FollowedEnded
=============================================================================
