----------------------------- MODULE MCCallers -----------------------------
(* The reactors whose calls the runtime serves by itself, one of them in a  *)
(* behaviour: timers, webhook endpoints and HTTP requests.  They share the  *)
(* state of CallReactor; the variables of the others keep a fixed value.    *)
EXTENDS Naturals, FiniteSets, Sequences, TLC

CONSTANTS
  n, s, vw, x,  \* calls of now, sleep and watch, and one that cannot run
  e, q1, q2,   \* an endpoint and two requests
  h, d,        \* calls of fetch and fetch_file
  TimePlans, WebhookPlans, HttpPlans

VARIABLES
  reactor, warm, rows, phase, after, faults, crashes, plan,
  clock, timers,
  tokens, waiters, sequence, http, answer,
  requests, signalled, bytes, sent

T == INSTANCE Time WITH
       Call <- {n, s, vw, x}, Inner <- {1, 2}, ParentOf <- [i \in {1, 2} |-> vw], Plans <- TimePlans,
       Now <- {n}, Sleep <- {s}, Watch <- {vw}, Invalid <- {x},
       Span <- [c \in {s, vw} |-> IF c = s THEN 3 ELSE 2], MaxDelay <- 2, MaxClock <- 6
W == INSTANCE Webhook WITH
       Call <- {e}, Inner <- {1, 2, 3}, ParentOf <- [i \in {1, 2, 3} |-> e], Plans <- WebhookPlans,
       SubscriberOf <- [c \in {e} |-> 1], Request <- {q1, q2}, EndpointOf <- [r \in {q1, q2} |-> e]
H == INSTANCE Http WITH
       Call <- {h, d}, Inner <- {}, ParentOf <- << >>, Plans <- HttpPlans, Download <- {d}

ASSUME T!TimeAssumption /\ T!PlanBounds
ASSUME W!WebhookAssumption /\ W!PlanBounds
ASSUME H!HttpAssumption /\ H!PlanBounds

\* A plan follows one call or request, which CallsEnd is about.
Bounds(calls, abandons, faultsMax, crashesMax, follow) ==
  [calls |-> calls, abandons |-> abandons, asks |-> {}, faults |-> faultsMax, crashes |-> crashesMax,
   follow |-> follow]

MCTimePlans == {
  Bounds({s}, {s}, 1, 1, s),
  Bounds({n, x}, {}, 1, 0, x),
  Bounds({vw}, {vw}, 1, 0, vw),
  Bounds({vw}, {}, 1, 1, vw)}
Posting(p, posts) == p @@ [posts |-> posts]
MCWebhookPlans == {
  Posting(Bounds({e}, {e}, 1, 0, e), {q1}),
  Posting(Bounds({e}, {}, 0, 1, e), {q1}),
  Posting(Bounds({e}, {e}, 0, 0, q1), {q1}),
  Posting(Bounds({e}, {}, 0, 0, q1), {q1, q2})}
MCHttpPlans == {
  Bounds({d}, {d}, 1, 1, d),
  Bounds({h, d}, {h}, 0, 0, h)}
CrashingEndpoint == {Posting(Bounds({e}, {}, 0, 1, e), {q1, q2})}
Nothing == {}

Off == "off"

timeVars == <<clock, timers>>
webhookVars == <<tokens, waiters, sequence, http, answer>>
httpVars == <<requests, signalled, bytes, sent>>
vars == <<reactor, warm, rows, phase, after, faults, crashes, plan, timeVars, webhookVars, httpVars>>

TimeOff    == clock = Off /\ timers = Off
WebhookOff == tokens = Off /\ waiters = Off /\ sequence = Off /\ http = Off /\ answer = Off
HttpOff    == requests = Off /\ signalled = Off /\ bytes = Off /\ sent = Off

Init ==
  \/ reactor = "time"    /\ T!Init /\ WebhookOff /\ HttpOff
  \/ reactor = "webhook" /\ W!Init /\ TimeOff /\ HttpOff
  \/ reactor = "http"    /\ H!Init /\ TimeOff /\ WebhookOff

Timing(A)  == reactor = "time"    /\ A /\ UNCHANGED <<reactor, webhookVars, httpVars>>
Serving(A) == reactor = "webhook" /\ A /\ UNCHANGED <<reactor, timeVars, httpVars>>
Sending(A) == reactor = "http"    /\ A /\ UNCHANGED <<reactor, timeVars, webhookVars>>

Next == Timing(T!Next) \/ Serving(W!Next) \/ Sending(H!Next)

\* The fairness of the three modules.  Only one of them moves in a behaviour,
\* so a condition on a disjunction is one condition on each of its disjuncts.
Fairness ==
  /\ WF_vars(Timing(T!Loop) \/ Serving(W!Loop) \/ Sending(H!Loop))
  /\ WF_vars(Timing(T!Passes) \/ Serving(W!Validates(q1)) \/ Sending(H!Responds(h) \/ H!Stores(h)))
  /\ WF_vars(Serving(W!Validates(q2)) \/ Sending(H!Responds(d) \/ H!Stores(d)))
  /\ \A c \in {h, d} : WF_vars(Sending(H!Refused(c) \/ H!Captured(c)))
  /\ SF_vars(Timing(T!Fires(s)) \/ Serving(W!Returns(1)))
  /\ SF_vars(Timing(T!Fires(vw)) \/ Serving(W!Returns(2)))
  /\ SF_vars(Timing(T!Returns(1)) \/ Serving(W!Returns(3)))
  /\ SF_vars(Timing(T!Returns(2)))

Spec == Init /\ [][Next]_vars /\ Fairness
-----------------------------------------------------------------------------
On(name, P) == reactor = name => P

\* The state has its type.
TypeOK == On("time", T!TypeOK) /\ On("webhook", W!TypeOK)

\* A sleep does not end early; the occurrences of a watch lie on its grid, come
\* once and do not overlap.  What answers a request is the delivery that was
\* opened for it.  A request is sent at most once, and a downloaded body has
\* its row before its handle is used, its bytes as long as its row, and no
\* bytes are left over.
AnswerIsOwn == On("webhook", W!AnswerIsOwn)
CallsKept ==
  /\ On("time", T!NeverEarly /\ T!OccurrencesOnce /\ T!Serialized)
  /\ AnswerIsOwn
  /\ On("http", H!AtMostOnce /\ H!HandleIsDurable /\ H!NoOrphanBytes)

\* A call that runs has something that will move it; so has a request that
\* waits, and an endpoint that runs is served.
Driven ==
  /\ On("time", T!WatchIsDriven)
  /\ On("webhook", W!EndpointIsServed /\ W!WaiterIsDue)
  /\ On("http", H!RunningIsDriven)

\* The call or request that the plan follows comes to its end: a sleep, a call
\* that cannot run, the next occurrence of a watch, an HTTP call, through
\* failures and crashes; an endpoint and a request, while there are none.
FollowedOpen ==
  CASE reactor = "time"    -> T!CallOpen(plan.follow)
    [] reactor = "http"    -> H!CallOpen(plan.follow)
    [] reactor = "webhook" -> IF plan.follow = e THEN W!EndpointOpen(e) ELSE W!RequestOpen(plan.follow)
FollowedEnded ==
  CASE reactor = "time"    -> T!CallEnds(plan.follow)
    [] reactor = "http"    -> H!CallSettled(plan.follow)
    [] reactor = "webhook" -> IF plan.follow = e THEN W!EndpointSettled(e) ELSE W!RequestAnswered(plan.follow)
CallsEnd == FollowedOpen ~> FollowedEnded
=============================================================================
