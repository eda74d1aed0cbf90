------------------------------ MODULE Webhook ------------------------------
(***************************************************************************)
(* The webhook reactor (runtime/actor/webhook-reactor.ts) and the entry    *)
(* that feeds it (deliverWebhook of project-actor.ts).  A call is an       *)
(* endpoint: it opens its subscriber once, whose outcome is the call's,    *)
(* and one inner delegation for every request that is posted to its URL.   *)
(* The waiting HTTP requests, the registered tokens and the numbering of   *)
(* the deliveries live in memory only.                                     *)
(*                                                                         *)
(* A callback that is not callable, or refuses its argument, answers the   *)
(* request with an error and nothing else: it is left out.                 *)
(***************************************************************************)
EXTENDS CallReactor

CONSTANTS
  SubscriberOf, \* [Call -> Inner]
  Request,
  EndpointOf    \* [Request -> Call]

\* The bounds of a plan include the requests that are posted.
WebhookAssumption ==
  /\ \A c \in Call : SubscriberOf[c] \in Children(c)
  /\ EndpointOf \in [Request -> Call]
  /\ \A p \in Plans : p.posts \subseteq Request

VARIABLES
  tokens,   \* the endpoints whose token is registered
  waiters,  \* the requests that wait: [token, request, inner]; inner is observed
  sequence, \* deliverySequence
  http,     \* [Request -> state of the HTTP exchange]
  answer    \* observed: <<request, the delivery opened for it, the one that answered>>

httpVars == <<tokens, waiters, sequence, http, answer>>
vars == <<callVars, httpVars>>

Subscriber == 0   \* the reserved transport token; a delivery has its number

Init ==
  /\ CallInit
  /\ tokens = {} /\ waiters = {} /\ sequence = 0 /\ answer = {}
  /\ http = [r \in Request |-> "idle"]

Unused(w, c) == {i \in Children(c) \ {SubscriberOf[c]} : w.edge[i] = "none"}
Least(S) == CHOOSE i \in S : \A j \in S : i <= j

-----------------------------------------------------------------------------
(* An HTTP request: a turn reads the callback, the body is validated       *)
(* outside the loop, a second turn delivers.                               *)

Queue(kind, r) ==
  /\ warm' = [warm EXCEPT !.mail = Append(@, Work(kind, r))]
  /\ UNCHANGED <<rows, phase, after, faults, crashes, plan>>

Posts(r) ==
  /\ r \in plan.posts
  /\ http[r] = "idle" /\ http' = [http EXCEPT ![r] = "queued"]
  /\ Queue("callbackFor", r)
  /\ UNCHANGED <<tokens, waiters, sequence, answer>>

CallbackTurn ==
  /\ Ready /\ Head(warm.mail).k = "callbackFor"
  /\ http' = [http EXCEPT ![Head(warm.mail).d] = "validating"]
  /\ Turn(Taken)
  /\ UNCHANGED <<after, tokens, waiters, sequence, answer>>

Validates(r) ==
  /\ http[r] = "validating" /\ http' = [http EXCEPT ![r] = "queued"]
  /\ Queue("deliver", r)
  /\ UNCHANGED <<tokens, waiters, sequence, answer>>

\* Mutants: a request that the endpoint no longer takes is left to wait; every
\* delivery has the same number.
Deliver_SameNumber(r) ==
  LET c == EndpointOf[r]
  IN IF c \notin tokens \/ ~AcceptsWork(warm, c)
     THEN /\ http' = [http EXCEPT ![r] = "gone"]
          /\ Turn(Taken) /\ UNCHANGED <<tokens, waiters, sequence>>
     ELSE LET i == Least(Unused(warm, c))
          IN /\ Turn(OpenInner(Taken, i, 1))
             /\ waiters' = waiters \cup {[token |-> 1, request |-> r, inner |-> i]}
             /\ http' = [http EXCEPT ![r] = "waiting"]
             /\ UNCHANGED <<tokens, sequence>>

Deliver_NoGone(r) ==
  LET c == EndpointOf[r]
  IN IF c \notin tokens \/ ~Live(warm, c)
     THEN /\ http' = [http EXCEPT ![r] = "unknown"] /\ tokens' = tokens \ {c}
          /\ Turn(Taken) /\ UNCHANGED <<waiters, sequence>>
     ELSE LET i == Least(Unused(warm, c))
          IN /\ Turn(IF AcceptsWork(warm, c) THEN OpenInner(Taken, i, sequence + 1) ELSE Taken)
             /\ sequence' = sequence + 1
             /\ waiters' = waiters \cup {[token |-> sequence + 1, request |-> r, inner |-> i]}
             /\ http' = [http EXCEPT ![r] = "waiting"]
             /\ UNCHANGED tokens

\* Bound: an endpoint takes as many deliveries as it has children.
Deliver(r) ==
  LET c == EndpointOf[r]
  IN \/ /\ c \notin tokens \/ ~Live(warm, c)
        /\ http' = [http EXCEPT ![r] = "unknown"] /\ tokens' = tokens \ {c}
        /\ Turn(Taken) /\ UNCHANGED <<waiters, sequence>>
     \/ /\ c \in tokens /\ Live(warm, c) /\ ~AcceptsWork(warm, c)
        /\ http' = [http EXCEPT ![r] = "gone"] /\ sequence' = sequence + 1
        /\ Turn(Taken) /\ UNCHANGED <<tokens, waiters>>
     \/ /\ c \in tokens /\ AcceptsWork(warm, c) /\ Unused(warm, c) # {}
        /\ LET i == Least(Unused(warm, c))
           IN /\ Turn(OpenInner(Taken, i, sequence + 1))
              /\ waiters' = waiters \cup {[token |-> sequence + 1, request |-> r, inner |-> i]}
        /\ sequence' = sequence + 1
        /\ http' = [http EXCEPT ![r] = "waiting"]
        /\ UNCHANGED tokens

DeliverTurn ==
  /\ Ready /\ Head(warm.mail).k = "deliver"
  /\ Deliver(Head(warm.mail).d)
  /\ UNCHANGED <<after, answer>>

-----------------------------------------------------------------------------
(* Turns of the endpoint.  A dropped call releases its token.              *)

EndpointTurn(next) ==
  /\ Turn(next)
  /\ tokens' = {c \in tokens : next.status[c] # "gone"}
  /\ UNCHANGED <<waiters, sequence, http, answer>>

StartSubscriber(w, c) ==
  CASE ~Live(w, c) -> w
    [] Live(w, c) /\ AcceptsWork(w, c)  -> OpenInner(w, SubscriberOf[c], Subscriber)
    [] Live(w, c) /\ ~AcceptsWork(w, c) -> Complete(w, c, "failure")

StartTurn ==
  /\ Ready /\ Head(warm.mail).k = "start"
  /\ EndpointTurn(StartSubscriber(Taken, Head(warm.mail).d))
  /\ UNCHANGED after

CompleteTurn ==
  /\ Ready /\ Head(warm.mail).k = "complete"
  /\ LET t == Head(warm.mail) IN EndpointTurn(Complete(Taken, t.d, t.o))
  /\ UNCHANGED after

EventTurn ==
  /\ Ready /\ IsEvent(Head(warm.mail))
  /\ LET t == Head(warm.mail)
     IN IF ToReactor(t)
        THEN EndpointTurn(ReactorReact(Taken, t)) /\ after' = Append(after, t)
        ELSE EndpointTurn(CoreReact(Taken, t)) /\ UNCHANGED after

-----------------------------------------------------------------------------
(* After the commit: dispatch, abort, and the outcomes of the children.    *)

Dispatched == {c \in Call : Live(warm, c) /\ Event("delegate", c, Own) \in ToSet(after)}

\* Mutant: a cancelled endpoint is not confirmed.
Aborted_Never == {}

Aborted == {c \in Call : warm.status[c] = "cancelling"
                           /\ Event("terminate", c, Own) \in ToSet(after)}

Settling == {Completion(t.call, t.outcome) : t \in {u \in ToSet(warm.staged) : u.token = Subscriber}}

\* The deliveries that have an outcome now, and the request that waits for it.
Served == {<<n, s>> \in waiters \X ToSet(warm.staged) : s.token # Subscriber /\ n.token = s.token}

\* Mutant: a delivery that was torn down answers nobody.
DeliverOutcomes_OnlyResults ==
  LET served == {p \in Served : p[2].outcome = "result"}
  IN /\ http' = [r \in Request |-> IF \E p \in served : p[1].request = r THEN "result" ELSE http[r]]
     /\ waiters' = waiters \ {p[1] : p \in Served}
     /\ answer' = answer \cup {<<p[1].request, p[1].inner, p[2].inner>> : p \in served}

DeliverOutcomes ==
  /\ http' = [r \in Request |->
       CASE \E p \in Served : p[1].request = r /\ p[2].outcome = "result" -> "result"
         [] \E p \in Served : p[1].request = r /\ p[2].outcome # "result" -> "gone"
         [] OTHER -> http[r]]
  /\ waiters' = waiters \ {p[1] : p \in Served}
  /\ answer' = answer \cup {<<p[1].request, p[1].inner, p[2].inner>> : p \in Served}

AfterCommit ==
  /\ phase = "post" /\ phase' = "idle" /\ after' = << >>
  /\ tokens' = (tokens \cup Dispatched) \ Aborted
  /\ warm' = [warm EXCEPT !.staged = << >>,
       !.mail = @ \o SetToSeq({Work("start", c) : c \in Dispatched}
                              \cup {Completion(c, "cancelled") : c \in Aborted} \cup Settling)]
  /\ DeliverOutcomes
  /\ UNCHANGED <<rows, faults, crashes, plan, sequence>>

-----------------------------------------------------------------------------
(* Reset and reload.                                                       *)

\* Mutant: the waiting requests are forgotten.
Reset_Silent ==
  /\ tokens' = {} /\ waiters' = {}
  /\ UNCHANGED <<sequence, http, answer>>

\* The waiting requests are answered, the queued turns of others are not.
Reset ==
  /\ tokens' = {} /\ waiters' = {}
  /\ http' = [r \in Request |-> IF \E n \in waiters : n.request = r THEN "gone" ELSE http[r]]
  /\ UNCHANGED <<sequence, answer>>

Crash ==
  /\ crashes < plan.crashes /\ crashes' = crashes + 1
  /\ Forget(rows)
  /\ tokens' = {} /\ waiters' = {} /\ sequence' = 0
  /\ http' = [r \in Request |-> IF http[r] \in {"queued", "validating", "waiting"} THEN "cut" ELSE http[r]]
  /\ UNCHANGED <<rows, faults, plan, answer>>

\* Mutant: a reloaded endpoint does not register its token.
Recovered_None == {}

Recovered == {c \in Call : warm.status[c] = "running"}

Reload ==
  /\ Load(SetToSeq({Completion(c, "cancelled") : c \in {d \in Call : warm.status[d] = "cancelling"}}))
  /\ tokens' = Recovered
  /\ UNCHANGED <<waiters, sequence, http, answer>>

Loop ==
  \/ EventTurn \/ CallbackTurn \/ DeliverTurn \/ StartTurn \/ CompleteTurn
  \/ Commit /\ UNCHANGED httpVars
  \/ AfterCommit
  \/ Reload

Peers ==
  \/ \E c \in Call : CoreCalls(c) \/ CoreCancels(c)
  \/ \E i \in Inner : CalleeReturns(i)

Next ==
  \/ Loop \/ (Peers /\ UNCHANGED httpVars)
  \/ \E r \in Request : Posts(r) \/ Validates(r)
  \/ (Fail \/ CommitInDoubt) /\ Reset
  \/ Crash

Returns(i) == CalleeReturns(i) /\ UNCHANGED httpVars
-----------------------------------------------------------------------------
(* Properties.                                                             *)

\* The state has its type.
TypeOK ==
  /\ warm.status \in [Call -> {"none", "running", "cancelling", "awaitingAnswer", "gone"}]
  /\ tokens \subseteq Call /\ sequence \in Nat
  /\ http \in [Request -> {"idle", "queued", "validating", "waiting",
                           "unknown", "gone", "result", "cut"}]
  /\ \A n, m \in waiters : n.token = m.token => n = m

\* The URL of an endpoint that runs is served whenever the loop is up, after a
\* reload too; a token never outlives its call.
EndpointIsServed ==
  /\ \A c \in tokens : Live(warm, c)
  /\ phase = "idle" => \A c \in Call : rows.status[c] = "running"
                         /\ warm.status[c] = "running" => c \in tokens

\* A request that waits has a delivery that will answer it: one that runs, or
\* one whose outcome is about to be handed over.
WaiterIsDue ==
  /\ \A r \in Request : http[r] = "waiting" <=> \E n \in waiters : n.request = r
  /\ \A n \in waiters :
       \/ <<n.inner, n.token>> \in warm.bridge /\ warm.edge[n.inner] \in {"running", "cancelling"}
       \/ \E s \in ToSet(warm.staged) : s.token = n.token

\* What answers a request is the delivery that was opened for it.
AnswerIsOwn == \A a \in answer : a[2] = a[3]

\* A reset answers the requests that wait and loses the turns of the others.
Disturbed == faults > 0 \/ crashes > 0

\* A request that is posted is answered, unless the loop was disturbed.
RequestOpen(r) == http[r] = "queued"
RequestAnswered(r) == http[r] \in {"unknown", "gone", "result", "cut"} \/ Disturbed

\* An endpoint ends, as its subscriber does, unless the loop was disturbed.
EndpointOpen(c) == rows.proxy[c] \in {"calling", "cancelling"}
EndpointSettled(c) == rows.proxy[c] = "done" \/ rows.status[c] = "awaitingAnswer" \/ Disturbed
=============================================================================
