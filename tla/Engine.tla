------------------------------- MODULE Engine -------------------------------
(***************************************************************************)
(* One core instance: the thread tree the engine runs (engine/             *)
(* thread-ops.ts, operations.ts, common.ts, spawn.ts, drive.ts) and the    *)
(* turns that reach it from its callees and its summoner (core-reactor.ts).*)
(*                                                                         *)
(* A turn puts internal events in a queue; Step* drains it, one event at a *)
(* time, and the environment acts only when it is empty.  Every handler is *)
(* an operator from instance to instance.  Values are left out; the call   *)
(* id of a child is the child, the delegation of a proxy is the proxy and  *)
(* the external id of an escalation is the id of the ask it escaped under. *)
(***************************************************************************)
EXTENDS Integers, Sequences, FiniteSets, SequencesExt

CONSTANT Plans   \* what may happen in one behaviour, one record each

\* The program is a function from blocks to code.  Bounds: the escalations the
\* callees raise, the terminates the summoner sends, and the threads after
\* which no callee answers a loop.  `ends`: TerminateCompletes is about it.
ASSUME PlanAssumption ==
  \A p \in Plans : {p.asks, p.terminates, p.threads} \subseteq Nat /\ p.ends \in BOOLEAN

VARIABLES
  code,    \* the program of this behaviour
  inst,    \* the instance, and what it has told its neighbours
  calls    \* bounds: [plan, asked, terminated]
vars == <<code, inst, calls>>

Root == 0
None == -1
Empty == [x \in {} |-> x]
Without(f, x) == Restrict(f, DOMAIN f \ {x})
Put(f, x, v) == (x :> v) @@ f

\* A program is one record per block; the fields a kind does not use are absent.
Kinds == {"agent", "sequence", "match", "parallel", "for", "forever", "handle",
          "primitive", "construct", "request", "delegate", "external"}
Proxies == {"delegate", "external"}
Leaves == {"primitive", "construct", "request"}
Panic == [k |-> "request", what |-> "panic"]
Throw == [k |-> "request", what |-> "throw"]

NewThread(kind, parent, block, origin) ==
  [kind |-> kind, parent |-> parent, block |-> block, status |-> "running",
   origin |-> origin, routes |-> Empty, cursor |-> 0, pending |-> Empty,
   handlers |-> Empty, held |-> <<>>, after |-> Empty, then |-> None, relays |-> {}]

NewInstance(root) ==
  [threads |-> (Root :> NewThread("agent", None, root, "user")), exits |-> Empty,
   queue |-> <<[k |-> "create", to |-> Root]>>, armed |-> <<>>, phase |-> "running",
   nextThread |-> 1, nextAsk |-> 1,
   \* its neighbours: callees [asking, told], escalations open at the summoner, terminal
   callees |-> Empty, raised |-> Empty, terminal |-> "none",
   \* observed: an internal assertion failed; finalizers armed and started, in order;
   \* a panic escaped; the handle of each handler body; what a handle caught and served
   fault |-> FALSE, everArmed |-> <<>>, ran |-> <<>>, failed |-> FALSE,
   bodies |-> Empty, caught |-> Empty, served |-> Empty]

Init ==
  /\ \E p \in Plans : code = p.program /\ calls = [plan |-> p, asked |-> 0, terminated |-> 0]
  /\ inst = NewInstance(1)

T(S, t) == S.threads[t]
Live(S, t) == t \in DOMAIN S.threads
Block(S, t) == code[T(S, t).block]
Children(S, t) == {c \in DOMAIN S.threads : T(S, c).parent = t}
InOrder(set) == SetToSortSeq(set, <)

Enqueue(S, event) == [S EXCEPT !.queue = Append(@, event)]
RemoveThread(S, t) == [S EXCEPT !.threads = Without(@, t)]
Fault(S) == [S EXCEPT !.fault = TRUE]  \* `throw new Error(...)`: the turn fails

-----------------------------------------------------------------------------
(* Spawning, completing and asking.                                        *)

OpenCallee(S, t) == [S EXCEPT !.callees = Put(@, t, [asking |-> FALSE, told |-> FALSE])]

\* The next thread id is the child.
NewChild(S, parent, block, origin) ==
  [S EXCEPT !.threads = Put(@, S.nextThread, NewThread(code[block].kind, parent, block, origin)),
            !.nextThread = @ + 1]

\* A thread is created from the queue.  An element that is a delegate stands for
\* the sequence of that one operation: its proxy is created silently.
Spawn(S, parent, block, origin) ==
  LET t == S.nextThread
      S1 == NewChild(S, parent, block, origin)
  IN IF code[block].kind = "delegate"
     THEN OpenCallee(S1, t)
     ELSE Enqueue(S1, [k |-> "create", to |-> t])

\* Await the child in a numbered pending slot of the parent.
Await(S, parent, index) ==
  [S EXCEPT !.threads[parent].pending = Put(@, index, S.nextThread)]
SpawnAt(S, parent, index, block) ==
  Spawn(Await(S, parent, index), parent, block, T(S, parent).origin)

CompleteThread(S, t) ==
  RemoveThread(Enqueue(S, [k |-> "callAck", to |-> T(S, t).parent, call |-> t]), t)

Raise(S, t, ask) ==
  Enqueue([S EXCEPT !.nextAsk = @ + 1],
          [k |-> "ask", to |-> T(S, t).parent, from |-> t, id |-> S.nextAsk, ask |-> ask])

\* Mutant: a hop forgets where the answer goes.
ProxyAsk_Forgets(S, t, e) == Raise(S, t, e.ask)

\* Mutant: a hop shortens the route to where its child would send the answer.
ProxyAsk_Shortcut(S, t, e) ==
  LET r == IF Live(S, e.from) THEN T(S, e.from).routes ELSE Empty
  IN Raise([S EXCEPT !.threads[t].routes =
              Put(@, S.nextAsk, IF e.id \in DOMAIN r THEN r[e.id] ELSE <<e.from, e.id>>)], t, e.ask)

ProxyAsk(S, t, e) ==
  Raise([S EXCEPT !.threads[t].routes = Put(@, S.nextAsk, <<e.from, e.id>>)], t, e.ask)

\* The root has no parent: the ask leaves as an escalate to the summoner.
EscapeAsk(S, e) ==
  LET panics == e.ask = Panic
  IN [S EXCEPT !.phase = IF panics THEN "failed" ELSE @,
               !.failed = @ \/ panics,
               !.threads[Root].routes = Put(@, S.nextAsk, <<e.from, e.id>>),
               !.raised = Put(@, S.nextAsk, e.ask),
               !.nextAsk = @ + 1]

-----------------------------------------------------------------------------
(* The terminal of the instance and its finalizers.                        *)

EmitTerminal(S, outcome) == [S EXCEPT !.terminal = outcome, !.threads = Empty]

RunNextFinalizer(S, outcome) ==
  IF S.armed = <<>>
  THEN EmitTerminal([S EXCEPT !.phase = "running"], outcome)
  ELSE Spawn([S EXCEPT !.armed = Front(@), !.ran = Append(@, Last(S.armed)),
                       !.threads[Root].pending = Put(@, 0, S.nextThread)],
             Root, Last(S.armed), "finalizer")

\* Mutant: a failed instance runs its finalizers too.
BeginTerminal_Trusting(S, outcome) ==
  IF S.armed = <<>> THEN EmitTerminal(S, outcome)
  ELSE RunNextFinalizer([S EXCEPT !.phase = outcome, !.threads[Root].status = "running",
                                  !.exits = Without(@, Root)], outcome)

\* Mutant: the deferred terminal is acknowledged before the finalizers ran.
BeginTerminal_NoDrain(S, outcome) == EmitTerminal(S, outcome)

\* phase is "running", "failed", or the outcome a drain in progress will ack.
BeginTerminal(S, outcome) ==
  IF S.phase = "failed" \/ S.armed = <<>>
  THEN EmitTerminal(S, outcome)
  ELSE RunNextFinalizer([S EXCEPT !.phase = outcome, !.threads[Root].status = "running",
                                  !.exits = Without(@, Root)], outcome)

Finalizing(S) == S.phase \in {"completed", "cancelled"}

-----------------------------------------------------------------------------
(* The graceful cancel cascade.                                            *)

FinishCancel(S, t) ==
  LET exit == IF t \in DOMAIN S.exits THEN S.exits[t] ELSE "ackParent"
      S1 == [S EXCEPT !.exits = Without(@, t)]
  IN CASE exit = "ackParent" ->
            RemoveThread(IF T(S, t).parent = None THEN S1
                         ELSE Enqueue(S1, [k |-> "cancelAck", to |-> T(S, t).parent,
                                           call |-> t]), t)
       [] exit = "returnInstance"    -> BeginTerminal(S1, "completed")
       [] exit = "terminateInstance" -> BeginTerminal(S1, "cancelled")
       [] exit = "completeWith"      -> CompleteThread(S1, t)

\* Mutant: the exit does not wait for the subtree.
BeginCancel_NoBarrier(S, t, exit) ==
  FinishCancel([S EXCEPT !.threads[t].status = "cancelling", !.exits = Put(@, t, exit)], t)

BeginCancel(S, t, exit) ==
  LET S1 == [S EXCEPT !.threads[t].status = "cancelling", !.exits = Put(@, t, exit)]
      cancels == [i \in 1..Cardinality(Children(S, t)) |->
                    [k |-> "cancel", to |-> InOrder(Children(S, t))[i]]]
  IN IF Children(S, t) = {} THEN FinishCancel(S1, t)
     ELSE [S1 EXCEPT !.queue = @ \o cancels]

NoteChildGone(S, t) ==
  IF T(S, t).status = "cancelling" /\ Children(S, t) = {} THEN FinishCancel(S, t) ELSE S

-----------------------------------------------------------------------------
(* Sequences: run synchronous operations to the first one that suspends.   *)

\* An exit or a continue names the block it unwinds to.
Jump(S, t, op) == Raise(S, t, [k |-> op.op, what |-> op.to])

\* A delegate names the block its callee resolves to, or none: the value is not
\* callable, or its argument breaks the input schema.
Resolves(op) == op.to # None

\* A constructor completes in place, a primitive runs on a thread of this
\* instance, and every other callee is summoned.
DelegatePlan(op) ==
  IF ~Resolves(op) THEN "raise"
  ELSE IF code[op.to].kind \in {"construct", "primitive"} THEN code[op.to].kind
  ELSE "delegate"

SpawnInlinePrimitive(S, t, op) == SpawnAt(S, t, 0, op.to)

\* The proxy is created silently, an external one of a dispatched tool too.
EmitDelegate(S, t, op) ==
  OpenCallee(NewChild(Await(S, t, 0), t, op.to, T(S, t).origin), S.nextThread)

EnterDelegate(S, t, op) ==
  CASE DelegatePlan(op) = "raise"     -> Raise(S, t, Throw)
    [] DelegatePlan(op) = "primitive" -> SpawnInlinePrimitive(S, t, op)
    [] DelegatePlan(op) = "delegate"  -> EmitDelegate(S, t, op)

Synchronous(op) ==
  \/ op.op = "defer"
  \/ op.op = "delegate" /\ DelegatePlan(op) = "construct"

Execute(S, t, op) ==
  CASE op.op = "call"     -> SpawnAt(S, t, 0, op.to)
    [] op.op = "delegate" -> EnterDelegate(S, t, op)
    [] OTHER              -> Jump(S, t, op)

RunSequence(S, t) ==
  LET ops == Block(S, t).ops
      from == T(S, t).cursor + 1
      stop == SelectInSubSeq(ops, from, Len(ops), LAMBDA o : ~Synchronous(o))
      last == IF stop = 0 THEN Len(ops) ELSE stop - 1
      defers == SelectSeq(SubSeq(ops, from, last), LAMBDA o : o.op = "defer")
      deferred == [i \in DOMAIN defers |-> defers[i].to]
      S1 == [S EXCEPT !.armed = @ \o deferred, !.everArmed = @ \o deferred,
                      !.threads[t].cursor = last]
  IN IF stop = 0 THEN CompleteThread(S1, t) ELSE Execute(S1, t, ops[stop])

-----------------------------------------------------------------------------
(* Loops.                                                                  *)

FinishFor(S, t) ==
  IF Block(S, t).then = None THEN CompleteThread(S, t)
  ELSE Spawn([S EXCEPT !.threads[t].then = S.nextThread], t, Block(S, t).then, T(S, t).origin)

StartAll(S, t, n) ==  \* every iteration or element at once, in index order
  FoldLeft(LAMBDA acc, i : SpawnAt(acc, t, i, Block(S, t).items[i]), S, [i \in 1..n |-> i])

CreateFor(S, t) ==
  LET n == Len(Block(S, t).items)
  IN IF n = 0 THEN FinishFor(S, t)
     ELSE IF Block(S, t).par THEN StartAll(S, t, n)
     ELSE SpawnAt([S EXCEPT !.threads[t].cursor = 1], t, 1, Block(S, t).items[1])

\* Delete the pending slot of a call; no such slot is an internal error.
Collect(S, t, call) ==
  LET p == T(S, t).pending
      others == {i \in DOMAIN p : p[i] # call}
  IN IF others = DOMAIN p THEN Fault(S)
     ELSE [S EXCEPT !.threads[t].pending = Restrict(p, others)]

ResumeSequence(S, t, call) ==
  RunSequence([Collect(S, t, call) EXCEPT !.threads[t].cursor = @ + 1], t)

CollectParallel(S, t, call) ==
  LET S1 == Collect(S, t, call)
  IN IF DOMAIN T(S1, t).pending = {} THEN CompleteThread(S1, t) ELSE S1

CollectIteration(S, t, call) ==
  LET S1 == Collect(S, t, call)
      next == T(S, t).cursor + 1
      items == Block(S, t).items
  IN IF Block(S, t).par
     THEN IF DOMAIN T(S1, t).pending = {} THEN FinishFor(S1, t) ELSE S1
     ELSE IF next <= Len(items)
     THEN SpawnAt([S1 EXCEPT !.threads[t].cursor = next], t, next, items[next])
     ELSE FinishFor(S1, t)

ForCallAck(S, t, call) ==
  IF call = T(S, t).then THEN CompleteThread(S, t) ELSE CollectIteration(S, t, call)

StartForeverIteration(S, t) == SpawnAt(S, t, 0, Block(S, t).body)

\* `next` cancels the iteration it came from, and its teardown collects it.
NextIteration(S, t, e) ==
  IF ~Live(S, e.from) THEN Fault(S)
  ELSE BeginCancel([S EXCEPT !.threads[t].after = Put(@, e.from, <<>>)], e.from, "ackParent")

Continues(S, t, e) == e.ask = [k |-> "continue", what |-> T(S, t).block]
Breaks(S, t, e) == e.ask = [k |-> "exit", what |-> T(S, t).block]

ForAsk(S, t, e) ==
  CASE Continues(S, t, e) -> NextIteration(S, t, e)
    [] Breaks(S, t, e)    -> BeginCancel(S, t, "completeWith")
    [] OTHER              -> ProxyAsk(S, t, e)

ForeverAsk(S, t, e) == ForAsk(S, t, e)

-----------------------------------------------------------------------------
(* Handlers.                                                               *)

HandleBusy(S, t) == DOMAIN T(S, t).handlers # {} \/ T(S, t).then # None

\* asker: the thread and ask the answer goes to, and the request it raised.
DispatchHandler(S, t, asker) ==
  Spawn([S EXCEPT !.threads[t].handlers = Put(@, S.nextThread, asker),
                  !.bodies = Put(@, S.nextThread, t),
                  !.served = Put(@, t, Append(IF t \in DOMAIN @ THEN @[t] ELSE <<>>, asker))],
        t, Block(S, t).handlerOf[asker[3]], T(S, t).origin)

\* Mutant: the request that waited least is served first.
ResumeRequestAsker_Lifo(S, t, asker) ==
  LET S1 == Enqueue(S, [k |-> "askAck", to |-> asker[1], id |-> asker[2]])
  IN IF Block(S, t).par \/ HandleBusy(S, t) \/ T(S, t).held = <<>> THEN S1
     ELSE DispatchHandler([S1 EXCEPT !.threads[t].held = Front(@)], t, Last(T(S, t).held))

ResumeRequestAsker(S, t, asker) ==
  LET S1 == Enqueue(S, [k |-> "askAck", to |-> asker[1], id |-> asker[2]])
  IN IF Block(S, t).par \/ HandleBusy(S, t) \/ T(S, t).held = <<>> THEN S1
     ELSE DispatchHandler([S1 EXCEPT !.threads[t].held = Tail(@)], t, Head(T(S, t).held))

\* A request from one of its own handler bodies is a rethrow and passes.
HandleRequest(S, t, e) ==
  LET fromOwnHandler == Live(S, e.from) /\ e.from \in DOMAIN T(S, t).handlers
      asker == <<e.from, e.id, e.ask.what>>
      S1 == [S EXCEPT !.caught = Put(@, t, Append(IF t \in DOMAIN @ THEN @[t] ELSE <<>>, asker))]
  IN IF fromOwnHandler \/ e.ask.what \notin DOMAIN Block(S, t).handlerOf THEN ProxyAsk(S, t, e)
     ELSE IF Block(S, t).par \/ ~HandleBusy(S, t) THEN DispatchHandler(S1, t, asker)
     ELSE [S1 EXCEPT !.threads[t].held = Append(@, asker)]

\* `next`: answer the request once the handler body is torn down.
HandleNext(S, t, e) ==
  IF ~Live(S, e.from) \/ e.from \notin DOMAIN T(S, t).handlers THEN Fault(S)
  ELSE BeginCancel([S EXCEPT !.threads[t].after = Put(@, e.from, T(S, t).handlers[e.from]),
                             !.threads[t].handlers = Without(@, e.from)],
                   e.from, "ackParent")

HandleAsk(S, t, e) ==
  CASE e.ask.k = "request" -> HandleRequest(S, t, e)
    [] Continues(S, t, e)    -> HandleNext(S, t, e)
    [] Breaks(S, t, e)       -> BeginCancel([S EXCEPT !.threads[t].held = <<>>], t, "completeWith")
    [] OTHER                 -> ProxyAsk(S, t, e)

\* The then clause, a body that completed, or a handler that fell through.
HandleCallAck(S, t, call) ==
  IF call = T(S, t).then THEN CompleteThread(S, t)
  ELSE IF call \in DOMAIN T(S, t).handlers
  THEN ResumeRequestAsker([S EXCEPT !.threads[t].handlers = Without(@, call)], t,
                          T(S, t).handlers[call])
  ELSE FinishFor(Collect(S, t, call), t)

AgentAsk(S, t, e) ==
  IF Breaks(S, t, e) THEN BeginCancel(S, t, "returnInstance")
  ELSE IF e.ask.k = "request" /\ e.ask \notin {Panic, Throw}
          /\ Live(S, e.from) /\ T(S, e.from).origin = "finalizer"
  THEN Raise(S, e.from, Panic)
  ELSE EscapeAsk(S, e)

-----------------------------------------------------------------------------
(* The six internal events, dispatched to a live thread by its kind.       *)

CreatePrimitive(S, t, pick) ==
  IF pick = "value" THEN CompleteThread(S, t)
  ELSE Raise(S, t, IF pick = "throw" THEN Throw ELSE Panic)

CreateMatch(S, t, arm) == IF arm = None THEN Raise(S, t, Panic) ELSE SpawnAt(S, t, 0, arm)

CreateParallel(S, t) ==
  IF Block(S, t).items = <<>> THEN CompleteThread(S, t)
  ELSE StartAll(S, t, Len(Block(S, t).items))

CreateAgent(S, t) == SpawnAt(S, t, 0, Block(S, t).body)
CreateRequest(S, t) == Raise(S, t, [k |-> "request", what |-> Block(S, t).name])
CreateHandle(S, t) == SpawnAt(S, t, 0, Block(S, t).body)

\* pick: the arm a match takes, or how a primitive ends.
Create(S, t, pick) ==
  LET kind == T(S, t).kind IN
  CASE kind = "agent"     -> CreateAgent(S, t)
    [] kind = "sequence"  -> RunSequence(S, t)
    [] kind = "primitive" -> CreatePrimitive(S, t, pick)
    [] kind = "construct" -> CompleteThread(S, t)
    [] kind = "request"   -> CreateRequest(S, t)
    [] kind = "match"     -> CreateMatch(S, t, pick)
    [] kind = "parallel"  -> CreateParallel(S, t)
    [] kind = "for"       -> CreateFor(S, t)
    [] kind = "forever"   -> StartForeverIteration(S, t)
    [] kind = "handle"    -> CreateHandle(S, t)
    [] kind = "external"  -> OpenCallee(S, t)

Picks(S, t) ==
  CASE T(S, t).kind = "primitive" -> Block(S, t).may
    [] T(S, t).kind = "match"     -> Block(S, t).arms
    [] OTHER                      -> {None}

CallAck(S, t, call) ==
  LET kind == T(S, t).kind IN
  CASE T(S, t).status = "cancelling" -> NoteChildGone(S, t)
    [] kind = "agent"    -> IF Finalizing(S) THEN RunNextFinalizer(S, S.phase)
                            ELSE BeginTerminal(S, "completed")
    [] kind = "sequence" -> ResumeSequence(S, t, call)
    [] kind = "match"    -> CompleteThread(S, t)
    [] kind = "parallel" -> CollectParallel(S, t, call)
    [] kind = "for"      -> ForCallAck(S, t, call)
    [] kind = "forever"  -> StartForeverIteration(Collect(S, t, call), t)
    [] kind = "handle"   -> HandleCallAck(S, t, call)
    [] OTHER             -> Fault(S)

\* Mutant: a thread in teardown takes asks of its subtree.
Ask_InTeardown(S, t, e) ==
  LET kind == T(S, t).kind IN
  CASE kind = "agent"              -> AgentAsk(S, t, e)
    [] kind = "for"                -> ForAsk(S, t, e)
    [] kind = "forever"            -> ForeverAsk(S, t, e)
    [] kind = "handle"             -> HandleAsk(S, t, e)
    [] OTHER                       -> ProxyAsk(S, t, e)

Ask(S, t, e) ==
  LET kind == T(S, t).kind IN
  CASE T(S, t).status = "cancelling" -> S
    [] kind = "agent"              -> AgentAsk(S, t, e)
    [] kind = "for"                -> ForAsk(S, t, e)
    [] kind = "forever"            -> ForeverAsk(S, t, e)
    [] kind = "handle"             -> HandleAsk(S, t, e)
    [] kind \in Leaves             -> Fault(S)
    [] OTHER                       -> ProxyAsk(S, t, e)

\* A relay leaves as the escalateAck of the callee, a route goes one hop down,
\* and without either the thread is the asker.
AskAck(S, t, e) ==
  CASE T(S, t).status = "cancelling" -> S
    [] e.id \in T(S, t).relays ->
         [S EXCEPT !.threads[t].relays = @ \ {e.id},
                   !.callees = IF t \in DOMAIN @ THEN [@ EXCEPT ![t].asking = FALSE] ELSE @]
    [] e.id \in DOMAIN T(S, t).routes ->
         Enqueue([S EXCEPT !.threads[t].routes = Without(@, e.id)],
                 [k |-> "askAck", to |-> T(S, t).routes[e.id][1], id |-> T(S, t).routes[e.id][2]])
    [] T(S, t).kind = "request" -> CompleteThread(S, t)
    [] OTHER -> Fault(S)

\* Mutant: a cancel restarts a drain that is in progress.
Cancel_Restarts(S, t) == BeginCancel(S, t, "terminateInstance")

\* Mutant: a proxy keeps running while its callee terminates.
Cancel_ForgetsStatus(S, t) ==
  IF T(S, t).kind \in Proxies
  THEN [S EXCEPT !.exits = Put(@, t, "ackParent"),
                 !.callees = IF t \in DOMAIN @ THEN [@ EXCEPT ![t].told = TRUE] ELSE @]
  ELSE BeginCancel(S, t, IF T(S, t).kind = "agent" THEN "terminateInstance" ELSE "ackParent")

Cancel(S, t) ==
  LET S1 == [S EXCEPT !.threads[t].status = "cancelling", !.exits = Put(@, t, "ackParent")]
      kind == T(S, t).kind
  IN CASE kind = "agent" /\ Finalizing(S) -> [S EXCEPT !.phase = "cancelled"]
       [] kind = "agent"    -> BeginCancel(S, t, "terminateInstance")
       [] kind \in Proxies  -> [S1 EXCEPT !.callees =
                                  IF t \in DOMAIN @ THEN [@ EXCEPT ![t].told = TRUE] ELSE @]
       [] kind \in Leaves   -> FinishCancel(S1, t)
       [] OTHER             -> BeginCancel(S, t, "ackParent")

CancelAck(S, t, call) ==
  LET S1 == [S EXCEPT !.threads[t].after = Without(@, call)]
      targeted == call \in DOMAIN T(S, t).after
      kind == T(S, t).kind
  IN CASE T(S, t).status = "cancelling" -> NoteChildGone(S, t)
       [] targeted /\ kind = "handle"  -> ResumeRequestAsker(S1, t, T(S, t).after[call])
       [] targeted /\ kind = "for"     -> CollectIteration(S1, t, call)
       [] targeted /\ kind = "forever" -> StartForeverIteration(Collect(S1, t, call), t)
       [] OTHER -> NoteChildGone(S, t)
-----------------------------------------------------------------------------
(* One step of the drain: an event whose target is gone is dropped.        *)

Dispatch(kind, Handle(_, _, _)) ==
  /\ inst.queue # <<>> /\ ~inst.fault /\ Head(inst.queue).k = kind
  /\ LET e == Head(inst.queue)
         S == [inst EXCEPT !.queue = Tail(@)]
     IN IF Live(S, e.to) THEN Handle(S, e.to, e) ELSE inst' = S
  /\ UNCHANGED <<code, calls>>

StepCreate == Dispatch("create", LAMBDA S, t, e : \E p \in Picks(S, t) : inst' = Create(S, t, p))
StepCallAck == Dispatch("callAck", LAMBDA S, t, e : inst' = CallAck(S, t, e.call))
StepAsk == Dispatch("ask", LAMBDA S, t, e : inst' = Ask(S, t, e))
StepAskAck == Dispatch("askAck", LAMBDA S, t, e : inst' = AskAck(S, t, e))
StepCancel == Dispatch("cancel", LAMBDA S, t, e : inst' = Cancel(S, t))
StepCancelAck == Dispatch("cancelAck", LAMBDA S, t, e : inst' = CancelAck(S, t, e.call))

-----------------------------------------------------------------------------
(* Turns that events of the neighbours start.                              *)

Quiescent == inst.queue = <<>> /\ ~inst.fault /\ inst.threads # Empty
Settled(d) == [inst EXCEPT !.callees = Without(@, d)]

\* onDelegateAck: the proxy goes and its parent gets the value.
DelegateAck(d) ==
  /\ Quiescent /\ d \in DOMAIN inst.callees
  /\ Live(inst, d) /\ T(inst, d).kind = "external" => ~inst.callees[d].asking
  /\ inst.callees[d].told \/ inst.nextThread <= calls.plan.threads
  /\ inst' = IF Live(inst, d) THEN CompleteThread(Settled(d), d) ELSE Settled(d)
  /\ UNCHANGED <<code, calls>>

\* onDelegateAck, when the result of an external wrapper breaks its output
\* schema: the delegation is retired, the proxy stays and raises a panic.
DelegateAckRefused(d) ==
  /\ Quiescent /\ d \in DOMAIN inst.callees /\ Live(inst, d)
  /\ T(inst, d).kind = "external" /\ Block(inst, d).refusable /\ ~inst.callees[d].asking
  /\ inst' = Raise([Settled(d) EXCEPT !.threads[d].relays = @ \cup {inst.nextAsk}], d, Panic)
  /\ UNCHANGED <<code, calls>>

\* Mutant: the proxy that was not cancelled is the only one removed.
TerminateAck_Keeps(d) ==
  /\ Quiescent /\ d \in DOMAIN inst.callees /\ inst.callees[d].told
  /\ inst' = Settled(d)
  /\ UNCHANGED <<code, calls>>

\* onTerminateAck: the proxy goes and its parent's cancel goes on.
TerminateAck(d) ==
  /\ Quiescent /\ d \in DOMAIN inst.callees /\ inst.callees[d].told
  /\ inst' = IF Live(inst, d)
             THEN RemoveThread(Enqueue([Settled(d) EXCEPT !.exits = Without(@, d)],
                    [k |-> "cancelAck", to |-> T(inst, d).parent, call |-> d]), d)
             ELSE Settled(d)
  /\ UNCHANGED <<code, calls>>

\* onEscalate: the ask of a callee is raised from the proxy's position.  A
\* request or a control ask that a terminate overtakes is raised all the same.
Escalate(d, ask) ==
  /\ Quiescent /\ d \in DOMAIN inst.callees /\ Live(inst, d) /\ ~inst.callees[d].asking
  /\ ask \in Block(inst, d).raises /\ calls.asked < calls.plan.asks
  /\ calls' = [calls EXCEPT !.asked = @ + 1]
  /\ inst' = Raise([inst EXCEPT !.callees[d].asking = TRUE,
                               !.threads[d].relays = @ \cup {inst.nextAsk}], d, ask)
  /\ UNCHANGED code

\* onEscalateAck: the summoner answers a request, never a failure.
EscalateAck(e) ==
  /\ Quiescent /\ e \in DOMAIN inst.raised
  /\ inst.raised[e].k = "request" /\ inst.raised[e] \notin {Panic, Throw}
  /\ inst' = Enqueue([inst EXCEPT !.raised = Without(@, e)],
                     [k |-> "askAck", to |-> Root, id |-> e])
  /\ UNCHANGED <<code, calls>>

\* onTerminate: cancel the root.
Terminate ==
  /\ Quiescent /\ calls.terminated < calls.plan.terminates
  /\ calls' = [calls EXCEPT !.terminated = @ + 1]
  /\ inst' = Enqueue(inst, [k |-> "cancel", to |-> Root])
  /\ UNCHANGED code

Drive == StepCreate \/ StepCallAck \/ StepAsk \/ StepAskAck \/ StepCancel \/ StepCancelAck
Next ==
  \/ Drive
  \/ \E d \in DOMAIN inst.callees :
       \/ DelegateAck(d) \/ DelegateAckRefused(d) \/ TerminateAck(d)
       \/ \E ask \in (IF Live(inst, d) THEN Block(inst, d).raises ELSE {}) : Escalate(d, ask)
  \/ \E e \in DOMAIN inst.raised : EscalateAck(e)
  \/ Terminate

FinalizerAnswers(d) == Live(inst, d) /\ T(inst, d).origin = "finalizer" /\ DelegateAck(d)

\* The turn runs to its end, a callee that was told to terminate does, and the
\* calls of a finalizer return.
Spec ==
  /\ Init /\ [][Next]_vars
  /\ WF_vars(Drive)
  /\ WF_vars(\E d \in DOMAIN inst.callees : TerminateAck(d))
  /\ WF_vars(\E d \in DOMAIN inst.callees : FinalizerAnswers(d))

-----------------------------------------------------------------------------
(* Properties.                                                             *)

IsThread(t) ==
  /\ t.kind \in Kinds /\ t.status \in {"running", "cancelling"}
  /\ t.origin \in {"user", "finalizer"} /\ t.block \in DOMAIN code
  /\ t.parent \in {None} \cup Nat /\ t.then \in {None} \cup Nat /\ t.cursor \in Nat

\* Every thread runs a block of the program, every proxy is of a proxy kind and
\* the exits that are due belong to cancelling threads.
TypeOK ==
  /\ \A t \in DOMAIN inst.threads : IsThread(T(inst, t))
  /\ \A t \in DOMAIN inst.exits : Live(inst, t) => T(inst, t).status = "cancelling"
  /\ \A d \in DOMAIN inst.callees \cap DOMAIN inst.threads : T(inst, d).kind \in Proxies
  /\ inst.phase \in {"running", "failed", "completed", "cancelled"}
  /\ inst.terminal \in {"none", "completed", "cancelled"}

\* No handler meets a state it takes for impossible: an ack of a call nobody
\* waits for, a jump from a thread that is gone, an answer no route takes.
NoEngineFault == ~inst.fault

\* A live thread has a live parent: completion and cancellation take a thread
\* only after its subtree (common.ts noteChildGone, beginGracefulCancel).
TreeIntact ==
  \A t \in DOMAIN inst.threads \ {Root} : Live(inst, T(inst, t).parent)

\* An answer is relayed strictly down the tree: a route that is still live
\* leads to a child of the thread that holds it (common.ts inboundRelayOf).
RoutesDescend ==
  \A t \in DOMAIN inst.threads : \A a \in DOMAIN T(inst, t).routes :
    LET c == T(inst, t).routes[a][1] IN Live(inst, c) => T(inst, c).parent = t

\* An instance acknowledges its summoner only after all its callees are gone.
NothingOutlives == inst.terminal # "none" => inst.callees = Empty

\* Finalizers start after the whole user tree is gone, one at a time.
FinalizersLast ==
  inst.ran # <<>> =>
    LET rest == DOMAIN inst.threads \ {Root}
    IN /\ \A t \in rest : T(inst, t).origin = "finalizer"
       /\ Cardinality({t \in rest : T(inst, t).parent = Root}) <= 1

\* An instance that ends without a failure ran every finalizer it armed once,
\* the last armed first, however often it was cancelled on the way.
FinalizersDrain ==
  inst.terminal # "none" /\ ~inst.failed => inst.ran = Reverse(inst.everArmed)

\* A failed instance runs no finalizer (operations.ts: its state is not to be
\* trusted).
FinalizersKept ==
  [](FinalizersLast /\ FinalizersDrain) /\ [][inst.failed => inst'.ran = inst.ran]_vars

\* A thread that is being cancelled gets no new children: its subtree only
\* shrinks, or the cascade would miss some.
CascadeShrinks ==
  \A t \in DOMAIN inst'.threads \ DOMAIN inst.threads :
    LET p == inst'.threads[t].parent
    IN Live(inst, p) /\ T(inst, p).status = "cancelling" => p = Root

\* A sequential handle serves the requests it caught in the order it caught them.
SerialFifo ==
  \A t \in DOMAIN inst.served :
    Live(inst, t) /\ ~Block(inst, t).par => IsPrefix(inst.served[t], inst.caught[t])

\* A handle never serves a request of one of its own handler bodies: those pass
\* on to an outer handle (thread-ops.ts handleAsk: "re-matching it here would
\* catch it forever").
NoSelfCatch ==
  \A t \in DOMAIN inst.threads : \A h \in DOMAIN T(inst, t).handlers :
    LET asker == T(inst, t).handlers[h][1]
    IN asker \in DOMAIN inst.bodies => inst.bodies[asker] # t

\* The tree of threads stays one, whatever jumps, answers and cancels meet, and
\* its handles serve what they caught, in order, and nothing of their own.
TreeKept ==
  /\ [](NoEngineFault /\ TreeIntact /\ RoutesDescend /\ NothingOutlives)
  /\ [](NoSelfCatch /\ SerialFifo)
  /\ [][CascadeShrinks]_vars

\* A terminated instance ends: its cascade reaches every leaf and comes back.
TerminateCompletes == calls.terminated > 0 /\ calls.plan.ends ~> inst.terminal # "none"
=============================================================================
