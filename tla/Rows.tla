-------------------------------- MODULE Rows --------------------------------
(***************************************************************************)
(* What the reactors keep in memory, what they have written of it, and     *)
(* what a reactivation makes of the rows.                                  *)
(*                                                                         *)
(* Three reactors stand for all: the api reactor (a run and the project's  *)
(* critical sections), the core reactor (instances of the program) and one *)
(* external-call reactor.  Each records the edges of the delegation tree   *)
(* it owns as it sends and receives (reactor.ts): the caller owns a        *)
(* delegation, the raiser an escalation, the callee the index of what it   *)
(* handles.  A turn changes memory only; a batch of turns is written by    *)
(* one transaction (substrate.ts commitBatch); a crash or a refused commit *)
(* drops memory and loads the rows.                                        *)
(*                                                                         *)
(* The program is any: an instance may at each turn call, ask, panic or    *)
(* return, within the budgets of ids.  The instance a delegation summons   *)
(* has the delegation's id.                                                *)
(***************************************************************************)
EXTENDS Integers, Sequences, FiniteSets, SequencesExt, TLC

CONSTANTS NoOne,            \* NULL, undefined
          ApiRoot, Run,     \* the two permanent instances
          Plans             \* bound: the shapes of program, see Plan

VARIABLES
  mem,     \* what the reactors hold, with the open batch
  db,      \* the rows
  taken,   \* the ids taken by what is committed
  crashes,
  plan     \* the shape this behaviour stays within

vars == <<mem, db, taken, crashes, plan>>

Requests == {"ask", "exclusive", "panic"}
Plan == [dele : Nat, esc : Nat, crashes : Nat,    \* how many of each, at most
         requests : SUBSET Requests,              \* what instances raise
         targets : SUBSET {"core", "call"},       \* whom they call
         moves : 1..2,                            \* what a turn may send
         cancel : BOOLEAN]                        \* the user may cancel

ASSUME RowsAssumption ==
  Plans \subseteq Plan /\ Cardinality({NoOne, ApiRoot, Run}) = 3

Db == INSTANCE DbRows
Twin == INSTANCE MapRows

DbStore == INSTANCE RowStore WITH
  PutInstance <- Db!PutInstance, DeleteInstance <- Db!DeleteInstance,
  PutDelegation <- Db!PutDelegation, DeleteDelegation <- Db!DeleteDelegation,
  InsertEscalation <- Db!InsertEscalation,
  DeleteEscalation <- Db!DeleteEscalation, PutCore <- Db!PutCore,
  ReplaceThreads <- Db!ReplaceThreads, PutExternalCall <- Db!PutExternalCall,
  PutRoute <- Db!PutRoute, PutScope <- Db!PutScope,
  DeleteScope <- Db!DeleteScope, PutBlob <- Db!PutBlob,
  DeleteBlob <- Db!DeleteBlob, InsertRun <- Db!InsertRun,
  UpdateRun <- Db!UpdateRun, InsertAudit <- Db!InsertAudit,
  InsertExclusiveTask <- Db!InsertExclusiveTask,
  UpdateExclusiveTaskDelegation <- Db!UpdateExclusiveTaskDelegation,
  DeleteExclusiveTask <- Db!DeleteExclusiveTask,
  DeleteOutbox <- Db!DeleteOutbox, InsertOutbox <- Db!InsertOutbox,
  AppendJournal <- Db!AppendJournal,
  DelegationsFrom <- Db!DelegationsFrom, DelegationsTo <- Db!DelegationsTo,
  EscalationsFrom <- Db!EscalationsFrom, CoreInstances <- Db!CoreInstances,
  Threads <- Db!Threads, Scopes <- Db!Scopes, Blobs <- Db!Blobs,
  ExternalCalls <- Db!ExternalCalls, ExclusiveTasks <- Db!ExclusiveTasks,
  PendingOutbox <- Db!PendingOutbox

TwinStore == INSTANCE RowStore WITH
  PutInstance <- Twin!PutInstance, DeleteInstance <- Twin!DeleteInstance,
  PutDelegation <- Twin!PutDelegation,
  DeleteDelegation <- Twin!DeleteDelegation,
  InsertEscalation <- Twin!InsertEscalation,
  DeleteEscalation <- Twin!DeleteEscalation, PutCore <- Twin!PutCore,
  ReplaceThreads <- Twin!ReplaceThreads,
  PutExternalCall <- Twin!PutExternalCall, PutRoute <- Twin!PutRoute,
  PutScope <- Twin!PutScope, DeleteScope <- Twin!DeleteScope,
  PutBlob <- Twin!PutBlob, DeleteBlob <- Twin!DeleteBlob,
  InsertRun <- Twin!InsertRun, UpdateRun <- Twin!UpdateRun,
  InsertAudit <- Twin!InsertAudit,
  InsertExclusiveTask <- Twin!InsertExclusiveTask,
  UpdateExclusiveTaskDelegation <- Twin!UpdateExclusiveTaskDelegation,
  DeleteExclusiveTask <- Twin!DeleteExclusiveTask,
  DeleteOutbox <- Twin!DeleteOutbox, InsertOutbox <- Twin!InsertOutbox,
  AppendJournal <- Twin!AppendJournal,
  DelegationsFrom <- Twin!DelegationsFrom, DelegationsTo <- Twin!DelegationsTo,
  EscalationsFrom <- Twin!EscalationsFrom, CoreInstances <- Twin!CoreInstances,
  Threads <- Twin!Threads, Scopes <- Twin!Scopes, Blobs <- Twin!Blobs,
  ExternalCalls <- Twin!ExternalCalls, ExclusiveTasks <- Twin!ExclusiveTasks,
  PendingOutbox <- Twin!PendingOutbox

W(op, arg) == [op |-> op, arg |-> arg]

Mortal == 1..plan.dele

\* A transaction that has touched nothing.
NoBatch ==
  [touched |-> <<>>, opened |-> FALSE, cores |-> {}, calls |-> {}, gone |-> {},
   dirtyDele |-> {}, retiredDele |-> {}, dirtyEsc |-> {}, retiredEsc |-> {},
   moved |-> {}, writes |-> <<>>, consumed |-> <<>>, born |-> {}, trace |-> {}]

\* reset: what a reactivation starts from.
NoMemory ==
  [dele |-> <<>>, esc |-> <<>>, handled |-> <<>>, inst |-> <<>>,
   tasks |-> <<>>, dying |-> {}, kept |-> <<>>, mail |-> <<>>,
   used |-> [dele |-> 0, esc |-> 0], batch |-> NoBatch]

Live(m, d) == d \in DOMAIN m.dele
Alive(m, i) == i \in DOMAIN m.inst
IssuedBy(m, i) == {d \in DOMAIN m.dele : m.dele[d].caller = i}
CallerOf(m, d) == IF Live(m, d) THEN m.dele[d].caller ELSE NoOne
HandledBy(m, d) == IF d \in DOMAIN m.handled THEN m.handled[d].instance ELSE NoOne

(***************************************************************************)
(* The edges (reactor.ts).                                                 *)
(***************************************************************************)
OpenDelegation(m, d, caller, from, to) ==
  [m EXCEPT !.dele = Db!Put(@, d, [caller |-> caller, from |-> from, to |-> to,
                                   state |-> "running"]),
            !.batch.dirtyDele = @ \cup {d}]

\* Mutant: the move to cancelling is not marked for the next write.
ToCancelling_Unmarked(m, d) ==
  IF Live(m, d) /\ m.dele[d].state = "running"
  THEN [m EXCEPT !.dele[d].state = "cancelling"] ELSE m

ToCancelling(m, d) ==
  IF Live(m, d) /\ m.dele[d].state = "running"
  THEN [m EXCEPT !.dele[d].state = "cancelling",
                 !.batch.dirtyDele = @ \cup {d}]
  ELSE m

\* Mutant: the retirement of a delegation is not staged for the next write.
Retire_KeepsWritten(m, r, d) ==
  IF ~Live(m, d) THEN m
  ELSE [m EXCEPT !.dele = Db!Cut(@, {d}), !.batch.dirtyDele = @ \ {d}]

\* The one retirement of a delegation: what comes later finds no row.
Retire(m, r, d) ==
  IF ~Live(m, d) THEN m
  ELSE [m EXCEPT !.dele = Db!Cut(@, {d}), !.batch.dirtyDele = @ \ {d},
                 !.batch.retiredDele = @ \cup {<<r, d>>}]

OpenEscalation(m, e, row) ==
  IF e \in DOMAIN m.esc THEN m
  ELSE [m EXCEPT !.esc = Db!Put(@, e, row), !.batch.dirtyEsc = @ \cup {e}]

DeleteEscalation(m, r, e) ==
  [m EXCEPT !.esc = Db!Cut(@, {e}), !.batch.dirtyEsc = @ \ {e},
            !.batch.retiredEsc = @ \cup {<<r, e>>}]

AcceptDelegation(m, d, edge) == [m EXCEPT !.handled = Db!Put(@, d, edge)]
DropHandled(m, d) == [m EXCEPT !.handled = Db!Cut(@, {d})]

(***************************************************************************)
(* What the pool holds: <<"scope", i>> and <<"blob", i>>, with an owner.   *)
(***************************************************************************)
Own(m, things, to) ==
  [m EXCEPT !.kept = [k \in DOMAIN @ |-> IF k \in things THEN to ELSE @[k]],
            !.batch.moved = @ \cup things]
Owned(m, i) == {k \in DOMAIN m.kept : m.kept[k] = i}

Release(m, carried, i) == Own(m, carried \cap Owned(m, i), NoOne)
Reown(m, carried, to) == Own(m, carried \cap Owned(m, NoOne), to)
Register(m, k, i) ==
  [m EXCEPT !.kept = Db!Put(@, k, i), !.batch.moved = @ \cup {k}]
Reclaim(m, gone) ==
  LET lost == UNION {Owned(m, i) : i \in gone}
  IN [m EXCEPT !.kept = Db!Cut(@, lost), !.batch.moved = @ \cup lost]

\* Blobs an upward event leaves behind climb to the caller, not to a run.
HoistOwnedBlobs(m, d, i) ==
  IF \/ d \notin DOMAIN m.handled
     \/ m.handled[d].caller = "api" \/ m.handled[d].summoner = NoOne
  THEN m
  ELSE Own(m, {k \in Owned(m, i) : k[1] = "blob"}, m.handled[d].summoner)

(***************************************************************************)
(* Sending: the edge an event implies, then the event.                     *)
(***************************************************************************)
Event(kind, d, from, to) ==
  [kind |-> kind, delegation |-> d, from |-> from, to |-> to, caller |-> NoOne,
   escalation |-> 0, request |-> "none", carried |-> {}]

FreeSeq(m) ==
  LET busy == {m.mail[k].seq : k \in DOMAIN m.mail}
                \cup {m.batch.consumed[k] : k \in DOMAIN m.batch.consumed}
  IN CHOOSE n \in 1..(Cardinality(busy) + 1) : n \notin busy

Edge(m, ev, issuer) ==
  CASE ev.kind = "delegate" ->
         OpenDelegation(m, ev.delegation, issuer, ev.from, ev.to)
    [] ev.kind = "terminate" -> ToCancelling(m, ev.delegation)
    [] ev.kind = "escalate" ->
         HoistOwnedBlobs(
           OpenEscalation(m, ev.escalation,
             [raiser |-> issuer, from |-> ev.from, to |-> ev.to,
              delegation |-> ev.delegation, request |-> ev.request]),
           ev.delegation, issuer)
    [] ev.kind = "delegateAck" ->
         HoistOwnedBlobs(Release(m, ev.carried, issuer), ev.delegation, issuer)
    [] OTHER -> m

\* The substrate gives the event a row, written if the batch leaves it.
Send(m, ev, issuer) ==
  LET seq == FreeSeq(m)
      sent == IF ev.kind = "delegate" THEN [ev EXCEPT !.caller = issuer] ELSE ev
  IN [Edge(m, ev, issuer) EXCEPT
        !.mail = Append(@, [seq |-> seq, event |-> sent]),
        !.batch.born = @ \cup {seq}, !.batch.trace = {Run}]

Delegate(m, issuer, from, to) ==
  LET d == m.used.dele + 1
  IN Send([m EXCEPT !.used.dele = d], Event("delegate", d, from, to), issuer)

Escalate(m, raiser, d, from, to, request) ==
  LET e == m.used.esc + 1
  IN Send([m EXCEPT !.used.esc = e],
          [Event("escalate", d, from, to) EXCEPT !.escalation = e,
                                                 !.request = request], raiser)

Answered(m, e, d, from, to) ==
  Send(m, [Event("escalateAck", d, from, to) EXCEPT !.escalation = e], NoOne)

(***************************************************************************)
(* The core reactor: what an instance of the program does in a turn.       *)
(***************************************************************************)
Touch(m, i) == [m EXCEPT !.batch.cores = @ \cup {i}]
NoRelay == <<0, 0>>

\* A completed instance is torn down, after its one reply: what it owns goes
\* with it.  One whose row lost its delegation has nobody to reply to.
Reply(m, i, kind, carried) ==
  IF m.inst[i].delegation = NoOne THEN m
  ELSE Send(m, [Event(kind, m.inst[i].delegation, "core", m.inst[i].caller)
                  EXCEPT !.carried = carried], i)
Teardown(m, i) ==
  Reclaim(DropHandled(Touch([m EXCEPT !.inst = Db!Cut(@, {i})], i),
                      m.inst[i].delegation), {i})

Calls(m, i) ==
  IF m.used.dele = plan.dele THEN {}
  ELSE {LET d == m.used.dele + 1
        IN [Delegate(m, i, "core", to) EXCEPT
              !.inst[i].proxies = @ \cup {d}, !.inst[i].made = @ + 1] :
          to \in plan.targets}

Raise(m, i, request, relay) ==
  [Escalate(m, i, m.inst[i].delegation, "core", m.inst[i].caller, request)
     EXCEPT !.inst[i].asks = Db!Put(@, m.used.esc + 1, relay),
            !.inst[i].made = @ + 1]
\* (An instance without its delegation fails the turn instead.)
Asks(m, i) ==
  IF m.used.esc = plan.esc \/ m.inst[i].delegation = NoOne THEN {}
  ELSE {Raise(m, i, request, NoRelay) : request \in plan.requests}

Waits(m, i) == m.inst[i].proxies # {} \/ DOMAIN m.inst[i].asks # {}

\* The result carries the instance's environment and blobs, or neither.
Returns(m, i) ==
  IF Waits(m, i) THEN {}
  ELSE {Teardown(Reply(m, i, "delegateAck", c), i) : c \in {{}, Owned(m, i)}}

Moves(m, i) == Calls(m, i) \cup Asks(m, i) \cup Returns(m, i)

\* The turns of i: up to two moves (branches of a parallel), or a wait.
Turns(m, i) ==
  LET t == Touch(m, i)
      one == Moves(t, i)
      two == IF plan.moves = 1 THEN {}
             ELSE UNION {Moves(x, i) : x \in {y \in one : Alive(y, i)}}
  IN one \cup two \cup IF Waits(t, i) THEN {t} ELSE {}

\* A cancelling instance ends once its children have.
Settle(m, i) ==
  LET t == Touch(m, i)
  IN IF m.inst[i].status = "cancelling" /\ m.inst[i].proxies = {}
     THEN Teardown(Reply(t, i, "terminateAck", {}), i)
     ELSE t

TerminateChild(m, d) ==
  IF Live(m, d) /\ m.dele[d].state = "running"
  THEN Send(m, Event("terminate", d, m.dele[d].from, m.dele[d].to), NoOne) ELSE m

CoreDelegate(m, ev) ==
  LET d == ev.delegation
      born == AcceptDelegation(
                Register([m EXCEPT !.inst = Db!Put(@, d,
                   [kind |-> "core", delegation |-> d, caller |-> ev.from,
                    status |-> "running", proxies |-> {}, asks |-> <<>>,
                    made |-> 0])], <<"scope", d>>, d),
                d, [instance |-> d, caller |-> ev.from, summoner |-> ev.caller])
  IN Turns(born, d)
     \* a name that does not resolve: the issuer's own instance raises
     \cup IF ev.from # "core" \/ m.used.esc = plan.esc THEN {}
          ELSE {Escalate(m, CallerOf(m, d), d, "core", ev.from, "panic")}

\* A child's result or its end reached the proxy of instance i.
CoreResume(m, i, d) ==
  IF ~Alive(m, i) \/ d \notin m.inst[i].proxies THEN {m}
  ELSE LET free == [m EXCEPT !.inst[i].proxies = @ \ {d}]
       IN IF m.inst[i].status = "cancelling" THEN {Settle(free, i)}
          ELSE Turns(free, i)

\* A child's ask: caught (the child is cancelled), answered, or relayed.
CoreEscalate(m, i, ev) ==
  IF ~Alive(m, i) \/ ev.delegation \notin m.inst[i].proxies
     \/ m.inst[i].status = "cancelling" THEN {m}
  ELSE {TerminateChild(Touch(m, i), ev.delegation)}
       \cup (IF ev.request = "panic" THEN {}
             ELSE {Answered(Touch(m, i), ev.escalation, ev.delegation, "core",
                            ev.from)})
       \cup IF m.used.esc = plan.esc \/ m.inst[i].delegation = NoOne
            THEN {}
            ELSE {Raise(Touch(m, i), i, ev.request,
                        <<ev.delegation, ev.escalation>>)}

CoreAnswer(m, i, ev) ==
  IF ~Alive(m, i) \/ m.inst[i].status = "cancelling"
     \/ ev.escalation \notin DOMAIN m.inst[i].asks THEN {m}
  ELSE LET relay == m.inst[i].asks[ev.escalation]
           free == [m EXCEPT !.inst[i].asks = Db!Cut(@, {ev.escalation})]
       IN IF relay = NoRelay THEN Turns(free, i)
          ELSE IF ~Live(m, relay[1]) THEN {Touch(free, i)}
          ELSE {Answered(Touch(free, i), relay[2], relay[1], "core",
                         m.dele[relay[1]].to)}

CoreTerminate(m, i, ev) ==
  IF ~Alive(m, i)
  THEN Send(m, Event("terminateAck", ev.delegation, "core", ev.from), NoOne)
  ELSE LET t == Touch([m EXCEPT !.inst[i].status = "cancelling",
                                !.inst[i].asks = <<>>], i)
       IN Settle(FoldLeft(TerminateChild, t, SetToSeq(m.inst[i].proxies)), i)

(***************************************************************************)
(* The external-call reactor.                                              *)
(***************************************************************************)
Dirty(m, i) == [m EXCEPT !.batch.calls = @ \cup {i}]

DropCall(m, i) ==
  DropHandled([m EXCEPT !.inst = Db!Cut(@, {i}), !.batch.calls = @ \ {i},
                        !.batch.gone = @ \cup {i}], m.inst[i].delegation)

CallReply(m, i, kind) ==
  DropCall(Send(m, [Event(kind, m.inst[i].delegation, "call", m.inst[i].caller)
                      EXCEPT !.carried = Owned(m, i)], i), i)

CallDelegate(m, ev) ==
  LET d == ev.delegation
  IN AcceptDelegation(
       Dirty([m EXCEPT !.inst = Db!Put(@, d,
         [kind |-> "call", delegation |-> d, caller |-> ev.from,
          phase |-> "running"])], d),
       d, [instance |-> d, caller |-> ev.from, summoner |-> ev.caller])

CallTerminate(m, i, ev) ==
  IF ~Alive(m, i)
  THEN Send(m, Event("terminateAck", ev.delegation, "call", ev.from), NoOne)
  ELSE CASE m.inst[i].phase = "cancelling" -> m
         [] m.inst[i].phase = "awaitingAnswer" -> CallReply(m, i, "terminateAck")
         [] OTHER -> Dirty([m EXCEPT !.inst[i].phase = "cancelling"], i)

\* The transport reported: a result, an error (it waits for an answer, or for
\* the end), or, to a cancelled call, that it stopped.
CallCompletes(m, i) ==
  IF m.inst[i].phase = "cancelling" THEN {CallReply(m, i, "terminateAck")}
  ELSE {CallReply(m, i, "delegateAck")}
       \cup (IF m.used.esc = plan.esc THEN {}
             ELSE {Escalate(Dirty([m EXCEPT !.inst[i].phase = "awaitingAnswer"], i),
                            i, m.inst[i].delegation, "call", m.inst[i].caller,
                            "panic")})

CallAnswer(m, i) ==
  IF Alive(m, i) /\ m.inst[i].phase = "awaitingAnswer"
  THEN CallReply(m, i, "delegateAck") ELSE m

(***************************************************************************)
(* The api reactor.                                                        *)
(***************************************************************************)
Stage(m, op, arg) == [m EXCEPT !.batch.writes = Append(@, W(op, arg))]
Outcome(m, state) == Stage(m, "setRunOutcome", [run |-> Run, state |-> state])
Audit(m, e, answered) ==
  Stage(m, "putRunEscalationAudit",
        [run |-> Run, escalation |-> e, answered |-> answered])
Section(m, d) == {k \in DOMAIN m.tasks : m.tasks[k].section = d /\ d # NoOne}

\* The head of the queue takes the domain, unless a section holds it or one
\* that was terminated has not confirmed.  With one run a reload never finds
\* a queue without its section; ApiReactor has the load's own kick.
SpawnHeadIfIdle(m) ==
  IF \/ m.tasks = <<>> \/ m.dying # {} \/ m.used.dele = plan.dele
     \/ \E k \in DOMAIN m.tasks : m.tasks[k].section # NoOne
  THEN m
  ELSE LET d == m.used.dele + 1
       IN Delegate(Stage([m EXCEPT !.tasks[1].section = d],
                         "setExclusiveTaskDelegation",
                         <<m.tasks[1].escalation, d>>), ApiRoot, "api", "core")

Enqueue(m, e, d) ==
  LET task == [escalation |-> e, run |-> Run, leg |-> d, section |-> NoOne]
  IN SpawnHeadIfIdle(Stage([m EXCEPT !.tasks = Append(@, task)],
                           "putExclusiveTask", task))

\* The run has ended: its tasks leave the queue; a running section is retired
\* and terminated, and fences the domain until it confirms.
EndSections(m) ==
  LET end(x, t) ==
        LET gone == Stage(x, "deleteExclusiveTask", t.escalation)
        IN IF t.section = NoOne THEN gone
           ELSE Send([Retire(gone, "api", t.section) EXCEPT
                        !.dying = @ \cup {t.section}],
                     Event("terminate", t.section, "api", "core"), NoOne)
  IN IF m.tasks = <<>> THEN m
     ELSE SpawnHeadIfIdle([FoldLeft(end, m, m.tasks) EXCEPT !.tasks = <<>>])

\* Fail the run on its leg d: the policy retirement, and the terminate of a
\* callee that is still there.
FailOn(m, d, e) ==
  IF ~Live(m, d) THEN m
  ELSE Send(Audit(Outcome(Retire(m, "api", d), "error"), e, FALSE),
            Event("terminate", d, "api", "core"), NoOne)
FailRun(m, d, e) == IF Live(m, d) THEN EndSections(FailOn(m, d, e)) ELSE m
FailTask(m, k, e) == EndSections(FailOn(m, m.tasks[k].leg, e))

CompleteTask(m, k, carried) ==
  LET t == m.tasks[k]
  IN SpawnHeadIfIdle(
       Answered(Stage([Reown(m, carried, Run) EXCEPT !.tasks = RemoveAt(@, k)],
                      "deleteExclusiveTask", t.escalation),
                t.escalation, t.leg, "api", "core"))

\* A result or an end reached the api root: a section's, or the run's.
ApiEnded(m, ev, settled, state) ==
  LET d == ev.delegation
      k == CHOOSE x \in Section(m, d) : TRUE
  IN CASE Section(m, d) # {} /\ state = "done" -> CompleteTask(m, k, ev.carried)
       [] Section(m, d) # {} /\ state # "done" -> SpawnHeadIfIdle(m)
       [] d \in m.dying ->
            SpawnHeadIfIdle([Reown(m, ev.carried, Run) EXCEPT
                               !.dying = @ \ {d}])
       [] OTHER ->
            LET over == EndSections(Reown(m, ev.carried, Run))
            IN IF settled THEN Outcome(over, state) ELSE over

\* An ask at the root: kept open for the user, queued, or the run's failure.
ApiEscalate(m, ev) ==
  LET d == ev.delegation
      k == CHOOSE x \in Section(m, d) : TRUE
  IN CASE ev.request = "ask" -> m
       [] Section(m, d) # {} -> FailTask(m, k, m.tasks[k].escalation)
       [] ev.request = "exclusive" ->
            IF Live(m, d) THEN Enqueue(m, ev.escalation, d) ELSE m
       [] OTHER -> FailRun(m, d, ev.escalation)

(***************************************************************************)
(* One event: the base resolves its edge and retires the row it closes,    *)
(* then the reactor's handler runs.                                        *)
(***************************************************************************)
\* Mutant: the base leaves the retirement of an ack's delegation to later.
ReactApi_KeepsRow(m, ev) ==
  CASE ev.kind = "delegateAck" -> ApiEnded(m, ev, Live(m, ev.delegation), "done")
    [] ev.kind = "terminateAck" ->
         ApiEnded(m, ev, Live(m, ev.delegation), "cancelled")
    [] OTHER -> ApiEscalate(m, ev)

ReactApi(m, ev) ==
  LET d == ev.delegation
      retired == Retire(m, "api", d)
  IN CASE ev.kind = "delegateAck" -> ApiEnded(retired, ev, Live(m, d), "done")
       [] ev.kind = "terminateAck" ->
            ApiEnded(retired, ev, Live(m, d), "cancelled")
       [] OTHER -> ApiEscalate(m, ev)

\* What a result carries is claimed only by a caller whose proxy is there.
Claimed(m, ev) ==
  LET i == CallerOf(m, ev.delegation)
  IN IF Alive(m, i) /\ ev.delegation \in m.inst[i].proxies
     THEN Reown(m, ev.carried, i) ELSE m

ReactCore(m, ev) ==
  LET d == ev.delegation
      caller == CallerOf(m, d)
      callee == HandledBy(m, d)
  IN CASE ev.kind = "delegate" -> CoreDelegate(m, ev)
       [] ev.kind \in {"delegateAck", "terminateAck"} ->
            CoreResume(Retire(Claimed(m, ev), "core", d), caller, d)
       [] ev.kind = "terminate" -> {CoreTerminate(m, callee, ev)}
       [] ev.kind = "escalate" -> CoreEscalate(m, caller, ev)
       [] ev.kind = "escalateAck" ->
            CoreAnswer(DeleteEscalation(m, "core", ev.escalation), callee, ev)

ReactCall(m, ev) ==
  LET callee == HandledBy(m, ev.delegation)
  IN CASE ev.kind = "delegate" -> {CallDelegate(m, ev)}
       [] ev.kind = "terminate" -> {CallTerminate(m, callee, ev)}
       [] OTHER -> {CallAnswer(DeleteEscalation(m, "call", ev.escalation), callee)}

React(m, ev) ==
  CASE ev.to = "api"  -> {ReactApi(m, ev)}
    [] ev.to = "core" -> ReactCore(m, ev)
    [] ev.to = "call" -> ReactCall(m, ev)

(***************************************************************************)
(* The turns that add to the open batch.                                   *)
(***************************************************************************)
\* Reactors are persisted in the order they were first touched.
Opened(m, r) ==
  [m EXCEPT !.batch.opened = TRUE,
            !.batch.touched = IF r \in {@[k] : k \in DOMAIN @} THEN @
                              ELSE Append(@, r)]

\* An event sent and consumed in one batch never gets a row.
Consumed(m, seq) ==
  [m EXCEPT !.mail = Tail(@), !.batch.born = @ \ {seq},
            !.batch.consumed = IF seq \in m.batch.born THEN @
                               ELSE Append(@, seq)]

Turn(outcomes) ==
  /\ mem' \in outcomes
  /\ UNCHANGED <<db, taken, crashes, plan>>

Deliver ==
  /\ mem.mail # <<>>
  /\ LET head == Head(mem.mail)
     IN Turn(React(Opened(Consumed(mem, head.seq), head.event.to), head.event))

RunLegs == {d \in IssuedBy(mem, Run) : mem.dele[d].state = "running"}

\* The run's envelope and record are staged with its first delegation.
StartRun ==
  /\ mem.used.dele = 0 /\ plan.dele > 0
  /\ Turn({Delegate(Stage(Opened(mem, "api"), "putRun", Run), Run, "api",
                    "core")})

CancelRun ==
  plan.cancel /\ \E d \in RunLegs :
    Turn({Send(Outcome(Opened(mem, "api"), "cancelling"),
               Event("terminate", d, "api", "core"), NoOne)})

\* The user answers an open question of a run that is alive, once.
AnswerEscalation ==
  \E e \in DOMAIN mem.esc :
    /\ mem.esc[e].to = "api" /\ mem.esc[e].request = "ask"
    /\ Alive(mem, mem.esc[e].raiser) /\ Live(mem, mem.esc[e].delegation)
    /\ \A k \in DOMAIN mem.mail : mem.mail[k].event.escalation # e
    /\ Turn({Answered(Audit(Opened(mem, "api"), e, TRUE), e,
                      mem.esc[e].delegation, "api", "core")})

\* A transport works for a committed call only (durable first).
CallReports ==
  \E i \in DOMAIN mem.inst \cap DOMAIN db.calls :
    /\ mem.inst[i].phase # "awaitingAnswer"
    /\ Turn(CallCompletes(Opened(mem, "call"), i))

\* A handler produces a file before it answers.
Produce ==
  \E i \in DOMAIN mem.inst \cap DOMAIN db.calls :
    /\ mem.inst[i].phase = "running" /\ <<"blob", i>> \notin DOMAIN mem.kept
    /\ Turn({Register(Opened(mem, "call"), <<"blob", i>>, i)})

(***************************************************************************)
(* What a reactor writes of its turns (persist).                           *)
(***************************************************************************)
Seqd(op, args) ==
  LET list == SetToSeq(args) IN [k \in DOMAIN list |-> W(op, list[k])]

Envelope(i, kind, delegation, caller, run, status) ==
  [id |-> i, kind |-> kind, delegation |-> delegation, caller |-> caller,
   run |-> run, status |-> status]

DelegationRows(m, r) ==
  {[id |-> d, caller |-> m.dele[d].caller, from |-> r, to |-> m.dele[d].to,
    state |-> m.dele[d].state] :
     d \in {x \in m.batch.dirtyDele \cap DOMAIN m.dele : m.dele[x].from = r}}
FlushDelegations(m, r) ==
  Seqd("putDelegation", DelegationRows(m, r))
    \o Seqd("deleteDelegation", {x[2] : x \in {y \in m.batch.retiredDele : y[1] = r}})

\* Mutant: an escalation whose raiser is dropped in this batch is written too.
Open_All(m, r, drops) ==
  {e \in m.batch.dirtyEsc \cap DOMAIN m.esc : m.esc[e].from = r}

\* The escalation of a raiser dropped in this batch nets to no row.
Open(m, r, drops) ==
  {e \in m.batch.dirtyEsc \cap DOMAIN m.esc :
     m.esc[e].from = r /\ m.esc[e].raiser \notin drops}

FlushEscalations(m, r, drops) ==
  Seqd("putEscalation", {[id |-> e] @@ m.esc[e] : e \in Open(m, r, drops)})
    \o Seqd("deleteEscalation", {x[2] : x \in {y \in m.batch.retiredEsc : y[1] = r}})

\* Envelopes, edges, drops: the order the foreign keys need.
PersistBase(m, r, envelopes, drops) ==
  Seqd("putInstanceEnvelope", envelopes) \o FlushDelegations(m, r)
    \o FlushEscalations(m, r, drops) \o Seqd("dropInstance", drops)

ApiOrder == <<"putRun", "setRunOutcome", "putRunEscalationAudit",
              "putExclusiveTask", "setExclusiveTaskDelegation",
              "deleteExclusiveTask">>
Staged(m, op) == SelectSeq(m.batch.writes, LAMBDA w : w.op = op)
PersistApi(m) ==
  LET runs == {Staged(m, "putRun")[k].arg : k \in DOMAIN Staged(m, "putRun")}
      own == {Envelope(i, "api", NoOne, NoOne, IF i = Run THEN Run ELSE NoOne,
                       "running") : i \in runs \cup {ApiRoot}}
  IN PersistBase(m, "api", own, {})
       \o FoldLeft(LAMBDA acc, op : acc \o Staged(m, op), <<>>, ApiOrder)

\* serializeCoreInstance: the threads (what each waits for) and the rest.
SerializeCoreInstance(m, i) ==
  [id |-> i, engine |-> m.inst[i].made,
   threads |-> {<<"delegate", d>> : d \in m.inst[i].proxies}
                 \cup {<<"escalate", e, m.inst[i].asks[e]>> :
                         e \in DOMAIN m.inst[i].asks}]
MortalEnvelope(m, i, kind, status) ==
  Envelope(i, kind, m.inst[i].delegation, m.inst[i].caller, Run, status)
PersistCore(m) ==
  LET present == m.batch.cores \cap DOMAIN m.inst
  IN PersistBase(m, "core",
                 {MortalEnvelope(m, i, "core", m.inst[i].status) : i \in present},
                 m.batch.cores \ present)
       \o Seqd("putCoreInstance", {SerializeCoreInstance(m, i) : i \in present})

\* The envelope says running while the call waits for an answer.
PersistCall(m) ==
  LET status(i) == IF m.inst[i].phase = "cancelling" THEN "cancelling"
                   ELSE "running"
  IN PersistBase(m, "call",
                 {MortalEnvelope(m, i, "call", status(i)) : i \in m.batch.calls},
                 m.batch.gone)
       \o Seqd("putCall", {[id |-> i, phase |-> m.inst[i].phase] :
                             i \in m.batch.calls})
       \o Seqd("putRoute", {[token |-> i, id |-> i] : i \in m.batch.calls})

PersistOf(m, r) ==
  CASE r = "api" -> PersistApi(m) [] r = "core" -> PersistCore(m)
    [] r = "call" -> PersistCall(m)

\* The pool: what it still keeps is written, what it lost is deleted.
PersistPool(m) ==
  LET rows(kind) == {[id |-> k[2], owner |-> m.kept[k]] :
                       k \in {x \in m.batch.moved \cap DOMAIN m.kept : x[1] = kind}}
      lost(kind) == {k[2] : k \in {x \in m.batch.moved \ DOMAIN m.kept :
                                     x[1] = kind}}
  IN Seqd("putScope", rows("scope")) \o Seqd("deleteScope", lost("scope"))
       \o Seqd("putBlob", rows("blob")) \o Seqd("dropBlob", lost("blob"))

Unsent(m) == SelectSeq(m.mail, LAMBDA x : x.seq \in m.batch.born)

\* Mutant: the pool is written before the reactors.
BatchWrites_PoolFirst(m) ==
  PersistPool(m)
    \o FoldLeft(LAMBDA acc, r : acc \o PersistOf(m, r), <<>>, m.batch.touched)
    \o [k \in DOMAIN m.batch.consumed |-> W("consumeOutbox", m.batch.consumed[k])]
    \o <<W("produceOutbox", Unsent(m)), W("appendEvents", m.batch.trace)>>

\* commitBatch: the reactors, the pool, the events handled, those left over,
\* the trace.
BatchWrites(m) ==
  FoldLeft(LAMBDA acc, r : acc \o PersistOf(m, r), <<>>, m.batch.touched)
    \o PersistPool(m)
    \o [k \in DOMAIN m.batch.consumed |-> W("consumeOutbox", m.batch.consumed[k])]
    \o <<W("produceOutbox", Unsent(m)), W("appendEvents", m.batch.trace)>>

\* A dropped instance takes along what it still owns (markInstanceDropped).
Swept == Reclaim(mem, mem.batch.gone)
Written == DbStore!Transaction(db, BatchWrites(Swept))

(***************************************************************************)
(* What a reactivation reads (load).                                       *)
(***************************************************************************)
ById(rows) == [i \in {r.id : r \in rows} |-> CHOOSE r \in rows : r.id = i]

\* Mutant: who summoned a reloaded instance is read of core's own calls only.
Summoner_OwnCalls(reads, d) ==
  LET found == {r \in reads.summoning : r.id = d /\ r.from = "core"}
  IN IF found = {} THEN NoOne ELSE (CHOOSE r \in found : TRUE).caller

\* The summoner is read from every delegation to core, whoever issued it.
Summoner(reads, d) ==
  LET found == {r \in reads.summoning : r.id = d}
  IN IF found = {} THEN NoOne ELSE (CHOOSE r \in found : TRUE).caller

\* acceptDelegation again: of each instance that still has its delegation.
LoadHandled(reads, inst) ==
  LET summoned == {i \in DOMAIN inst : inst[i].delegation # NoOne}
  IN [d \in {inst[i].delegation : i \in summoned} |->
        LET i == CHOOSE x \in summoned : inst[x].delegation = d
        IN [instance |-> i, caller |-> inst[i].caller,
            summoner |-> IF inst[i].kind = "core" THEN Summoner(reads, d)
                         ELSE NoOne]]

\* loadBase: the edges, without their keys.
LoadDelegations(rows) ==
  LET r == ById(rows)
  IN [d \in DOMAIN r |-> [caller |-> r[d].caller, from |-> r[d].from,
                          to |-> r[d].to, state |-> r[d].state]]
LoadEscalations(rows) ==
  LET r == ById(rows)
  IN [e \in DOMAIN r |-> [raiser |-> r[e].raiser, from |-> r[e].from,
                          to |-> r[e].to, delegation |-> r[e].delegation,
                          request |-> r[e].request]]
LoadKept(reads) ==
  [k \in {<<"scope", s.id>> : s \in reads.scopes} |->
     ById(reads.scopes)[k[2]].owner]
  @@ [k \in {<<"blob", b.id>> : b \in reads.blobs} |->
        ById(reads.blobs)[k[2]].owner]

Load(rows) ==
  LET reads == DbStore!Reads(rows)
      loaded == ById(reads.engine \cup reads.calls)
      inst == [i \in DOMAIN loaded |-> Db!Cut(loaded[i], {"id"})]
  IN [NoMemory EXCEPT
        !.inst = inst, !.handled = LoadHandled(reads, inst),
        !.dele = LoadDelegations(reads.delegations),
        !.esc = LoadEscalations(reads.raised), !.kept = LoadKept(reads),
        !.tasks = reads.tasks, !.mail = reads.pending, !.used = taken]

(***************************************************************************)
(* Commit, crash, and the system.                                          *)
(***************************************************************************)
\* A refused transaction is rolled back; memory, ahead of the rows, is
\* dropped, and the rows are loaded again.
Commit ==
  LET rows == Written IN
  /\ mem.batch.opened
  /\ IF Db!Refusals(rows) = {}
     THEN /\ db' = rows /\ taken' = mem.used
          /\ mem' = [Swept EXCEPT !.batch = NoBatch]
     ELSE mem' = Load(db) /\ UNCHANGED <<db, taken>>
  /\ UNCHANGED <<crashes, plan>>

Crash ==
  /\ crashes < plan.crashes
  /\ crashes' = crashes + 1 /\ mem' = Load(db)
  /\ UNCHANGED <<db, taken, plan>>

Init ==
  /\ mem = NoMemory /\ db = Db!NoRows
  /\ taken = [dele |-> 0, esc |-> 0] /\ crashes = 0
  /\ plan \in Plans

Next == \/ Deliver \/ StartRun \/ CancelRun \/ AnswerEscalation \/ CallReports
        \/ Produce \/ Commit \/ Crash

Spec == Init /\ [][Next]_vars

(***************************************************************************)
(* Properties.                                                             *)
(***************************************************************************)
InstanceIds == Mortal \cup {ApiRoot, Run}
Reactors == DbStore!Reactors

Owner == InstanceIds \cup {NoOne}
Delegations == Mortal \cup {NoOne}
Escalations == 1..plan.esc

InstancesRow ==
  [id : InstanceIds, kind : Reactors, delegation : Delegations,
   caller : Reactors \cup {NoOne}, run : {Run, NoOne},
   status : {"running", "cancelling"}]
CoreInstancesRow == [id : Mortal, engine : Nat]
ThreadsRow ==
  ({"delegate"} \X Mortal)
    \cup ({"escalate"} \X Escalations \X ((0..plan.dele) \X (0..plan.esc)))
ExternalCallRow ==
  [id : Mortal, phase : {"running", "cancelling", "awaitingAnswer"}]
DelegationsRow ==
  [id : Mortal, caller : InstanceIds, from : Reactors, to : {"core", "call"},
   state : {"running", "cancelling"}]
EscalationsRow ==
  [id : Escalations, raiser : Mortal, from : {"core", "call"},
   to : {"api", "core"}, delegation : Mortal, request : Requests]
ScopesRow == [id : Mortal, owner : Owner]
BlobsRow == [id : Mortal, owner : Owner]
OutboxRow ==
  [seq : Nat,
   event : [kind : {"delegate", "delegateAck", "terminate", "terminateAck",
                    "escalate", "escalateAck"},
            delegation : Mortal, from : Reactors, to : Reactors, caller : Owner,
            escalation : 0..plan.esc, request : Requests \cup {"none"},
            carried : SUBSET ({"scope", "blob"} \X Mortal)]]
RunsRow == [state : {"running", "cancelling", "done", "error", "cancelled"},
            completed : BOOLEAN]
AuditRow == {Run} \X Escalations
ExclusiveTasksRow ==
  [escalation : Escalations, run : {Run}, leg : Mortal, section : Delegations]

Keyed(table, rows) ==
  \A k \in DOMAIN table : table[k] \in rows /\ table[k].id = k
Listed(table, rows) == \A k \in DOMAIN table : table[k] \in rows

\* Every table holds rows of its type, under their keys; a run is stamped
\* completed exactly when its state is one it does not leave.
TypeOK ==
  /\ Keyed(db.envelopes, InstancesRow) /\ Keyed(db.cores, CoreInstancesRow)
  /\ Keyed(db.calls, ExternalCallRow) /\ Keyed(db.delegations, DelegationsRow)
  /\ Keyed(db.escalations, EscalationsRow)
  /\ Keyed(db.scopes, ScopesRow) /\ Keyed(db.blobs, BlobsRow)
  /\ Listed(db.threads, SUBSET ThreadsRow) /\ Listed(db.tasks, ExclusiveTasksRow)
  /\ Listed(db.outbox, OutboxRow) /\ Listed(db.runs, RunsRow)
  /\ DOMAIN db.audits \subseteq AuditRow
  /\ \A r \in DOMAIN db.runs :
       db.runs[r].completed <=> db.runs[r].state \in DbStore!Terminal
  /\ db.refused = {} /\ crashes \in 0..plan.crashes

\* What a commit may refuse: the envelope of an instance that is alive though
\* the api reactor retired its delegation, before the row of either was
\* written (a run or a section abandoned in the batch that starts it, a
\* section abandoned before core has taken it).
Abandoned == {i \in DOMAIN mem.inst : ~Live(mem, mem.inst[i].delegation)}
Accepted(rows) ==
  \A k \in Db!Refusals(rows) : k[1] = "delegation" /\ k[2] \in Abandoned

\* Apart from the delegation an envelope lost.
Recorded(rows) ==
  [rows EXCEPT !.envelopes =
     [i \in DOMAIN @ |-> [@[i] EXCEPT !.delegation =
        IF @ \in DOMAIN rows.delegations THEN @ ELSE NoOne]]]
TwinAgrees(rows) ==
  LET twin == TwinStore!Transaction(db, BatchWrites(Swept))
  IN Db!Refusals(rows) = {} =>
       /\ Recorded(twin) = Recorded(rows)
       /\ TwinStore!Reads(rows) = DbStore!Reads(rows)

\* The transaction of every batch is one PostgreSQL accepts, whatever turns
\* it holds (the rows of the edges are written in an order the foreign keys
\* allow), and the in-memory twin makes the same rows of it
\* and reads them the same (reactor.ts persistBase, substrate.ts commitBatch, row-store.ts).
Commits ==
  LET rows == Written
  IN mem.batch.opened => Accepted(rows) /\ TwinAgrees(rows)

\* What a reactivation must find again.
Durable(m) ==
  LET known == {i \in DOMAIN m.inst : Live(m, m.inst[i].delegation)}
      asked == {e \in DOMAIN m.esc : Alive(m, m.esc[e].raiser)}
  IN [inst |-> [i \in known |-> m.inst[i]],
      handled |-> [i \in known |->
                     LET edge == m.handled[m.inst[i].delegation]
                     IN IF m.inst[i].kind = "core" THEN edge
                        ELSE [edge EXCEPT !.summoner = NoOne]],
      dele |-> m.dele, esc |-> [e \in asked |-> m.esc[e]],
      tasks |-> m.tasks, kept |-> m.kept, mail |-> m.mail]

\* Nothing memory holds is lost by a crash between two batches: the rows give
\* back every edge, instance, call, queued section, owner and undelivered
\* event, in the same order (the load of each reactor).
Reloads == ~mem.batch.opened => Durable(Load(db)) = Durable(mem)

\* Both ends of a delegation meet: its callee is there, or a message about it
\* is on its way, or its failure is being asked about; and an instance is
\* called for by a live delegation, or is going down.
OnItsWay(d, kinds) ==
  \E k \in DOMAIN mem.mail : /\ mem.mail[k].event.delegation = d
                             /\ mem.mail[k].event.kind \in kinds
EdgesMeet ==
  /\ \A d \in DOMAIN mem.dele :
       \/ HandledBy(mem, d) # NoOne
       \/ OnItsWay(d, {"delegate", "delegateAck", "terminate", "terminateAck"})
       \/ \E e \in DOMAIN mem.esc : mem.esc[e].delegation = d
  /\ \A i \in DOMAIN mem.inst :
       \/ mem.inst[i].delegation = NoOne
       \/ Live(mem, mem.inst[i].delegation)
       \/ OnItsWay(mem.inst[i].delegation, {"terminate"})
       \/ mem.inst[i].kind = "core" /\ mem.inst[i].status = "cancelling"
       \/ mem.inst[i].kind = "call" /\ mem.inst[i].phase = "cancelling"

\* Set null when its delegation's row is dropped, "which only happens after
\* this instance has already self-deleted" (db/tables/execution.ts).
OutlivedByDelegation ==
  \A i \in Mortal \cap DOMAIN db.envelopes : db.envelopes[i].delegation # NoOne
=============================================================================
