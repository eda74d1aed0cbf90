-------------------------------- MODULE Ffi --------------------------------
(***************************************************************************)
(* The ffi reactor over its sidecar (runtime/actor/ffi-reactor.ts,         *)
(* external/snapshot-transport.ts, external/subprocess-runner.ts and the   *)
(* port that runs the handlers, port/src/index.ts), for the calls of one   *)
(* snapshot: one process, spawned on the first dispatch.                   *)
(*                                                                         *)
(* A handler is dispatched after the commit of its call, may call back     *)
(* into the runtime and wait, and replies once.  Its reply and its         *)
(* requests enter the mailbox as originated turns, which a reload clears.  *)
(* A message on the pipe is delivered when it is sent, but for replies     *)
(* that the exit of the sidecar overtakes; one that a death cuts off was   *)
(* never sent.                                                             *)
(***************************************************************************)
EXTENDS CallReactor

\* The bounds of a plan: the inner calls a handler may make, sidecar deaths and failed spawns.
ASSUME FfiPlanAssumption == \A p \in Plans : p.inner \subseteq Inner /\ p.deaths \in Nat

VARIABLES
  \* in the runtime's transport
  routed,      \* delegationSnapshot: calls dispatched and not yet replied
  process,     \* perSnapshot: "absent", "pending" (a promise) or "up"
  chained,     \* what waits on the pending promise: <<operation, call>>
  unhandled,   \* a rejected promise without a handler: Node ends the process
  \* in the sidecar
  handler,     \* [Call -> {"none", "running", "aborted"}]
  waiting,     \* tokens of context.call promises that are pending
  \* observed
  minted,      \* tokens handed out; a token is named after the delegation it may open
  executions,  \* [Call -> Nat]: how often the handler was started
  delivered,   \* inner delegations whose outcome was handed to the transport
  deaths

transport == <<routed, process, chained, unhandled>>
sidecar   == <<handler, waiting, minted, executions>>
ffiVars   == <<transport, sidecar, delivered, deaths>>
vars      == <<callVars, ffiVars>>

Init ==
  /\ CallInit
  /\ routed = {} /\ process = "absent" /\ chained = {} /\ unhandled = FALSE
  /\ handler = [c \in Call |-> "none"] /\ waiting = {} /\ minted = {}
  /\ executions = [c \in Call |-> 0] /\ delivered = {} /\ deaths = 0

Token(i) == i

Enqueue(turns) == warm' = [warm EXCEPT !.mail = @ \o turns]
Sink(turns) == Enqueue(turns) /\ UNCHANGED <<rows, phase, after, faults, crashes, plan>>

InSomeOrder(turns) == SetToSeq(turns)

-----------------------------------------------------------------------------
(* Turns of the reactor that come from the transport.                      *)

CompleteTurn ==
  /\ Ready /\ Head(warm.mail).k = "complete"
  /\ LET t == Head(warm.mail) IN Turn(Complete(Taken, t.d, t.o))
  /\ UNCHANGED <<after, ffiVars>>

\* innerDelegate: open the delegation, or fail the token straight back, when
\* the call accepts no work or the request does not resolve.
InnerDelegate ==
  /\ Ready /\ Head(warm.mail).k = "innerDelegate"
  /\ LET i == Head(warm.mail).d
     IN \/ /\ AcceptsWork(warm, ParentOf[i])
           /\ Turn(OpenInner(Taken, i, Token(i)))
           /\ UNCHANGED waiting
        \/ /\ Turn(Taken)
           /\ waiting' = IF ParentOf[i] \in routed THEN waiting \ {i} ELSE waiting
  /\ UNCHANGED <<after, transport, handler, minted, executions, delivered, deaths>>

-----------------------------------------------------------------------------
(* After the commit.                                                       *)

Dispatched == {c \in Call : Live(warm, c) /\ Event("delegate", c, Own) \in ToSet(after)}
Aborted    == {c \in Call : warm.status[c] = "cancelling"
                              /\ Event("terminate", c, Own) \in ToSet(after)}
Delivered  == {warm.staged[n].inner : n \in DOMAIN warm.staged}

\* What the process does with what it is sent: start a handler, unwind one,
\* settle a pending context.call.
Deliver(start, abort, settle) ==
  /\ handler' = [c \in Call |->
       IF c \in start THEN IF c \in abort THEN "aborted" ELSE "running"
       ELSE IF c \in abort /\ handler[c] = "running" THEN "aborted" ELSE handler[c]]
  /\ executions' = [c \in Call |-> executions[c] + IF c \in start THEN 1 ELSE 0]
  /\ waiting' = {i \in waiting : i \notin settle /\ ParentOf[i] \notin abort}
  /\ UNCHANGED minted

\* The three transport calls: a route that is gone is answered at once.
SideEffects ==
  /\ after' = << >>
  /\ routed' = routed \cup Dispatched
  /\ warm' = [warm EXCEPT !.staged = << >>,
                !.mail = @ \o InSomeOrder({Completion(c, "cancelled") : c \in Aborted \ routed'})]
  /\ delivered' = delivered \cup Delivered
  /\ IF process = "up"
     THEN /\ Deliver(Dispatched, Aborted \cap routed',
                     {i \in Delivered : ParentOf[i] \in routed'})
          /\ UNCHANGED <<process, chained>>
     ELSE /\ process' = IF Dispatched = {} THEN process ELSE "pending"
          /\ chained' = chained \cup ({"dispatch"} \X Dispatched)
                                \cup ({"abort"} \X (Aborted \cap routed'))
          /\ UNCHANGED sidecar
  /\ UNCHANGED <<rows, faults, crashes, plan, unhandled, deaths>>

\* Mutant: the side effects run before the commit.
AfterCommit_Early ==
  /\ phase \in {"batch", "post"}
  /\ phase' = IF phase = "post" THEN "idle" ELSE "batch"
  /\ SideEffects

AfterCommit == phase = "post" /\ phase' = "idle" /\ SideEffects

-----------------------------------------------------------------------------
(* The process.                                                            *)

Spawned ==
  /\ process = "pending" /\ process' = "up" /\ chained' = {}
  /\ Deliver({c \in Call : <<"dispatch", c>> \in chained},
             {c \in Call : <<"abort", c>> \in chained}, {})
  /\ UNCHANGED <<callVars, routed, unhandled, delivered, deaths>>

Failing(calls) ==
  /\ Sink(InSomeOrder({Completion(c, "failure") : c \in calls}))
  /\ routed' = routed \ calls

\* The pipes of the sidecar close with the runtime.
ProcessEnds ==
  /\ Forget(rows)
  /\ routed' = {} /\ process' = "absent" /\ chained' = {}
  /\ handler' = [c \in Call |-> "none"] /\ waiting' = {}

\* The bundle is missing or cannot be written: every dispatch fails its call;
\* an abort or a recovery chained to the same promise handles no rejection.
SpawnFails ==
  /\ process = "pending" /\ deaths < plan.deaths /\ deaths' = deaths + 1
  /\ unhandled' = (unhandled \/ \E op \in chained : op[1] # "dispatch")
  /\ IF \E op \in chained : op[1] # "dispatch"
     THEN ProcessEnds /\ UNCHANGED <<rows, faults, crashes, plan, minted, executions>>
     ELSE /\ process' = "absent" /\ chained' = {}
          /\ Failing({op[2] : op \in chained})
          /\ UNCHANGED sidecar
  /\ UNCHANGED delivered

Awaited(c) == {i \in waiting : ParentOf[i] = c}

\* Mutant: the route of a call outlives its reply.
Replies_KeepsRoute(c, outcome) ==
  /\ handler[c] # "none"
  /\ handler[c] = "aborted" <=> outcome = "cancelled"
  /\ handler' = [handler EXCEPT ![c] = "none"]
  /\ waiting' = waiting \ Awaited(c)
  /\ Sink(<<Completion(c, outcome)>>)
  /\ UNCHANGED <<transport, minted, executions, delivered, deaths>>

\* Inner calls that the handler left pending are abandoned.
Replies(c, outcome) ==
  /\ handler[c] # "none"
  /\ handler[c] = "aborted" <=> outcome = "cancelled"
  /\ handler' = [handler EXCEPT ![c] = "none"]
  /\ routed' = routed \ {c}
  /\ waiting' = waiting \ Awaited(c)
  /\ Sink(<<Completion(c, outcome)>>)
  /\ UNCHANGED <<process, chained, unhandled, minted, executions, delivered, deaths>>

CallsBack(i) ==
  /\ i \in plan.inner \ minted /\ \A j \in plan.inner : j < i => j \in minted
  /\ handler[ParentOf[i]] = "running"
  /\ minted' = minted \cup {i} /\ waiting' = waiting \cup {i}
  /\ Sink(<<Work("innerDelegate", i)>>)
  /\ UNCHANGED <<transport, handler, executions, delivered, deaths>>

\* The exit is reported before the pipe is drained: a late reply may follow
\* the failure of its call.
SidecarDies ==
  /\ process = "up" /\ deaths < plan.deaths /\ deaths' = deaths + 1
  /\ LET cut == {c \in Call : handler[c] # "none"}
     IN \E late \in SUBSET cut, o \in {"result", "failure"} :
          /\ Sink(InSomeOrder({Completion(c, "failure") : c \in cut})
                    \o InSomeOrder({Completion(c, IF handler[c] = "aborted" THEN "cancelled" ELSE o)
                                    : c \in late}))
          /\ routed' = routed \ cut
  /\ handler' = [c \in Call |-> "none"] /\ waiting' = {}
  /\ UNCHANGED <<process, chained, unhandled, minted, executions, delivered>>

-----------------------------------------------------------------------------
(* Reload and restart.                                                     *)

Running    == {c \in Call : rows.status[c] = "running"}
Cancelling == {c \in Call : rows.status[c] = "cancelling"}

\* Mutant: a reload runs a call whose handler is gone again.
Reload_Rerun ==
  /\ Load(InSomeOrder({Completion(c, "cancelled") : c \in Cancelling \ routed}))
  /\ routed' = routed \cup Running
  /\ IF process = "up"
     THEN Deliver(Running \ routed, Cancelling \cap routed, {}) /\ UNCHANGED <<process, chained>>
     ELSE /\ process' = IF Running \ routed = {} THEN process ELSE "pending"
          /\ chained' = chained \cup ({"dispatch"} \X (Running \ routed))
          /\ UNCHANGED sidecar
  /\ UNCHANGED <<unhandled, delivered, deaths>>

\* Mutant: a call whose handler is gone is left to itself.
Reload_NoRefusal ==
  /\ Load(InSomeOrder({Completion(c, "cancelled") : c \in Cancelling \ routed}))
  /\ IF process = "up" THEN Deliver({}, Cancelling \cap routed, {}) ELSE UNCHANGED sidecar
  /\ UNCHANGED <<transport, delivered, deaths>>

\* Mutant: a cancellation is not taken up again.
Reload_NoAbort ==
  /\ Load(InSomeOrder({Completion(c, "failure") : c \in Running \ routed}))
  /\ UNCHANGED ffiVars

\* recover and abort, for every call that was in flight: no route means that
\* there is nothing left to wait for.
Reload ==
  /\ Load(InSomeOrder({Completion(c, "failure") : c \in Running \ routed}
                        \cup {Completion(c, "cancelled") : c \in Cancelling \ routed}))
  /\ IF process = "up"
     THEN Deliver({}, Cancelling \cap routed, {}) /\ UNCHANGED chained
     ELSE /\ chained' = chained \cup ({"recover"} \X (Running \cap routed))
                                \cup ({"abort"} \X (Cancelling \cap routed))
          /\ UNCHANGED sidecar
  /\ UNCHANGED <<routed, process, unhandled, delivered, deaths>>

Crash ==
  /\ crashes < plan.crashes /\ crashes' = crashes + 1
  /\ ProcessEnds
  /\ UNCHANGED <<rows, faults, plan, unhandled, minted, executions, delivered, deaths>>

-----------------------------------------------------------------------------
Loop ==
  \/ HandleEvent /\ UNCHANGED ffiVars
  \/ CompleteTurn
  \/ InnerDelegate
  \/ Commit /\ UNCHANGED ffiVars
  \/ AfterCommit
  \/ Reload

Peers ==
  \/ \E c \in Call : CoreCalls(c) \/ CoreCancels(c) \/ CoreAnswers(c, Own)
  \/ \E i \in Inner : CoreAnswers(ParentOf[i], i) \/ CalleeReturns(i) \/ CalleeAsks(i)

Process ==
  \/ Spawned
  \/ \E c \in Call : \E o \in {"result", "failure", "cancelled"} : Replies(c, o)
  \/ \E i \in Inner : CallsBack(i)

Misfortune ==
  \/ (Fail \/ CommitInDoubt) /\ UNCHANGED ffiVars
  \/ Crash \/ SpawnFails \/ SidecarDies

Next == Loop \/ (Peers /\ UNCHANGED ffiVars) \/ Process \/ Misfortune

Spec == Init /\ [][Next]_vars

\* The serial loop goes on while there is work; a spawn ends; a handler that
\* awaits nothing finishes; an inner agent finishes unless it waits for an
\* answer; and core answers what it is asked, or breaks out of the call.
Replied(c) == Awaited(c) = {} /\ \E o \in {"result", "failure", "cancelled"} : Replies(c, o)
Resolved(c) == (CoreAnswers(c, Own) \/ (CoreCancels(c) /\ <<c, Own>> \in warm.asked))
                 /\ UNCHANGED ffiVars
Returned(i) == CalleeReturns(i) /\ UNCHANGED ffiVars
Answered(i) == CoreAnswers(ParentOf[i], i) /\ UNCHANGED ffiVars

Fairness ==
  /\ WF_vars(Loop) /\ WF_vars(Spawned)
  /\ \A c \in Call : WF_vars(Replied(c)) /\ SF_vars(Resolved(c))
  /\ \A i \in Inner : SF_vars(Returned(i)) /\ SF_vars(Answered(i))

LiveSpec == Spec /\ Fairness
-----------------------------------------------------------------------------
(* Properties.                                                             *)

\* The state of warm and of the transport has its type.
TypeOK ==
  /\ warm.status \in [Call -> {"none", "running", "cancelling", "awaitingAnswer", "gone"}]
  /\ warm.edge \in [Inner -> {"none", "running", "cancelling", "retired"}]
  /\ warm.relays \subseteq Call \X Inner /\ warm.bridge \subseteq Inner \X Inner
  /\ handler \in [Call -> {"none", "running", "aborted"}]
  /\ \A c \in Call : warm.held[c] # "nothing" => warm.status[c] = "running"
  /\ waiting \subseteq minted /\ delivered \subseteq Inner

\* The routes are the calls the process works on, or will work on: an abort,
\* a recovery or a result that follows a route finds its handler.
RouteIsLive ==
  routed = IF process = "up" THEN {c \in Call : handler[c] # "none"}
           ELSE {c \in Call : <<"dispatch", c>> \in chained}

NoOrphanChild ==
  \A i \in Inner : warm.status[ParentOf[i]] = "gone" => warm.callee[i] \in {"none", "done"}

NoOrphanHandler ==
  \A c \in Call : rows.status[c] \in {"gone", "awaitingAnswer"} =>
    handler[c] = "none" /\ <<"dispatch", c>> \notin chained

\* A call whose answer went up left no inner agent behind: the answer waited
\* for every child, through held outcomes, cancellations and reloads.  A call
\* that has answered, or stands as failed, has no handler at work and none
\* about to start.
NothingOutlives == NoOrphanChild /\ NoOrphanHandler

\* A handler is told the outcome of an inner call only when the row that
\* outcome retires is gone for good.
AnswersAreDurable == \A i \in delivered : rows.edge[i] = "retired"

\* The ask of an inner agent that nobody is tearing down is on its way up,
\* with core, or its answer is on the way down: no reload strands it.
AskInTransit(i) ==
  LET c == ParentOf[i]
      m == ToSet(warm.mail)
  IN \/ Event("escalate", i, Own) \in m
     \/ Event("escalateAck", i, Own) \in m
     \/ /\ <<c, i>> \in warm.relays
        /\ \/ Event("escalate", c, i) \in m
           \/ <<c, i>> \in warm.asked
           \/ Event("escalateAck", c, i) \in m
           \/ warm.proxy[c] = "cancelling"

NoAskStranded ==
  \A i \in Inner :
    phase # "down" /\ warm.callee[i] = "asking" /\ warm.edge[i] = "running" => AskInTransit(i)

\* Execution is at most once: neither a replayed delegate nor a recovery
\* starts a handler again.
AtMostOnce == \A c \in Call : executions[c] <= 1

\* What a handler asks for is served: its route leads to it, the asks of its
\* inner agents move, what it is told is durable, and it runs once.
HandlersServed == RouteIsLive /\ NoAskStranded /\ AnswersAreDurable /\ AtMostOnce

\* Two statements of the source that the model refutes (README, known
\* divergences), and no run checks: a call raises one failure of its own,
\* whatever still arrives for it; and a spawn that fails fails the calls that
\* needed it and nothing else.
FailsOnce == \A c \in Call : rows.raised[c] <= 1
SpawnFailureContained == ~unhandled

\* A cancellation ends, whatever fails in between.
CancelEnds == \A c \in Call : rows.proxy[c] = "cancelling" ~> rows.proxy[c] = "done"

\* While no batch is dropped, a call ends, through a crash, a death of the
\* sidecar and a spawn that fails: it is answered, or it fails and core settles
\* it.  No handler awaits an inner call for ever.
CallEnds ==
  [](faults = 0) => \A c \in Call : rows.proxy[c] = "calling" ~> rows.proxy[c] = "done"

\* A cancellation ends always, a call while no batch is dropped.
CallsEnd == CancelEnds /\ CallEnds
=============================================================================
