------------------------------ MODULE RowStore ------------------------------
(***************************************************************************)
(* The turn-commit logic both backends share (row-store.ts), over the port *)
(* a backend supplies: one operator per method of RowStore.                *)
(*                                                                         *)
(* A write is a record: the method of PersistenceTx ("op") and its         *)
(* argument ("arg").  A transaction is the fold of its writes in the order *)
(* the reactors issue them; this layer never reorders.                     *)
(***************************************************************************)
EXTENDS Integers, Sequences, SequencesExt

CONSTANTS PutInstance(_, _), DeleteInstance(_, _),
          PutDelegation(_, _), DeleteDelegation(_, _),
          InsertEscalation(_, _), DeleteEscalation(_, _),
          PutCore(_, _), ReplaceThreads(_, _, _), PutExternalCall(_, _),
          PutRoute(_, _, _), PutScope(_, _), DeleteScope(_, _),
          PutBlob(_, _), DeleteBlob(_, _), InsertRun(_, _),
          UpdateRun(_, _, _), InsertAudit(_, _), InsertExclusiveTask(_, _),
          UpdateExclusiveTaskDelegation(_, _, _), DeleteExclusiveTask(_, _),
          DeleteOutbox(_, _), InsertOutbox(_, _), AppendJournal(_, _),
          DelegationsFrom(_, _), DelegationsTo(_, _), EscalationsFrom(_, _),
          CoreInstances(_), Threads(_, _), Scopes(_), Blobs(_),
          ExternalCalls(_), ExclusiveTasks(_), PendingOutbox(_),
          NoOne

W(op, arg) == [op |-> op, arg |-> arg]

\* The states a run does not leave.
Terminal == {"done", "error", "cancelled"}

\* BaseTx: what every reactor writes of its generic half.
BaseOps == {"putInstanceEnvelope", "putDelegation", "deleteDelegation",
            "putEscalation", "deleteEscalation", "dropInstance"}
Base(rows, w) ==
  CASE w.op = "putInstanceEnvelope" -> PutInstance(rows, w.arg)
    [] w.op = "putDelegation"       -> PutDelegation(rows, w.arg)
    [] w.op = "deleteDelegation"    -> DeleteDelegation(rows, w.arg)
    [] w.op = "putEscalation"       -> InsertEscalation(rows, w.arg)
    [] w.op = "deleteEscalation"    -> DeleteEscalation(rows, w.arg)
    [] w.op = "dropInstance"        -> DeleteInstance(rows, w.arg)

\* CoreTx: the extension row, then the whole thread tree.
PutCoreInstance(rows, serialized) ==
  ReplaceThreads(PutCore(rows, [id |-> serialized.id,
                                engine |-> serialized.engine]),
                 serialized.id, serialized.threads)

\* Mutant: the outcome of a run is stamped only when it is done.
SetRunOutcome_DoneOnly(rows, o) ==
  UpdateRun(rows, o.run, [state |-> o.state, completed |-> o.state = "done"])

\* completedAt is stamped at a terminal state only.
SetRunOutcome(rows, o) ==
  UpdateRun(rows, o.run, [state |-> o.state,
                          completed |-> o.state \in Terminal])

\* ApiTx: the run's record, its audit, its critical sections.
ApiOps == {"putRun", "setRunOutcome", "putRunEscalationAudit",
           "putExclusiveTask", "setExclusiveTaskDelegation",
           "deleteExclusiveTask"}
Api(rows, w) ==
  CASE w.op = "putRun"                -> InsertRun(rows, w.arg)
    [] w.op = "setRunOutcome"         -> SetRunOutcome(rows, w.arg)
    [] w.op = "putRunEscalationAudit" -> InsertAudit(rows, w.arg)
    [] w.op = "putExclusiveTask"      -> InsertExclusiveTask(rows, w.arg)
    [] w.op = "setExclusiveTaskDelegation" ->
         UpdateExclusiveTaskDelegation(rows, w.arg[1], w.arg[2])
    [] w.op = "deleteExclusiveTask"   -> DeleteExclusiveTask(rows, w.arg)

\* PoolTx: scopes and blobs, written after every reactor.
PoolOps == {"putScope", "deleteScope", "putBlob", "dropBlob"}
Pool(rows, w) ==
  CASE w.op = "putScope"    -> PutScope(rows, w.arg)
    [] w.op = "deleteScope" -> DeleteScope(rows, w.arg)
    [] w.op = "putBlob"     -> PutBlob(rows, w.arg)
    [] w.op = "dropBlob"    -> DeleteBlob(rows, w.arg)

\* One write of a transaction.
Write(rows, w) ==
  CASE w.op \in BaseOps         -> Base(rows, w)
    [] w.op \in ApiOps          -> Api(rows, w)
    [] w.op \in PoolOps         -> Pool(rows, w)
    [] w.op = "putCoreInstance" -> PutCoreInstance(rows, w.arg)
    [] w.op = "putCall"         -> PutExternalCall(rows, w.arg)
    [] w.op = "putRoute"        -> PutRoute(rows, w.arg.token, w.arg.id)
    [] w.op = "consumeOutbox"   -> DeleteOutbox(rows, w.arg)
    [] w.op = "produceOutbox"   -> InsertOutbox(rows, w.arg)
    [] w.op = "appendEvents"    -> AppendJournal(rows, w.arg)

Transaction(rows, writes) == FoldLeft(Write, rows, writes)

(***************************************************************************)
(* What a reactivation reads (storeLoader).                                *)
(***************************************************************************)
Reactors == {"api", "core", "call"}

\* deserializeProject: the threads say what the instance waits for.
DeserializeCore(rows, e) ==
  LET threads == Threads(rows, e.id)
      waits == {t \in threads : t[1] = "escalate"}
  IN [id |-> e.id, kind |-> "core", delegation |-> e.delegation,
      caller |-> e.caller, status |-> e.status, made |-> e.engine,
      proxies |-> {t[2] : t \in threads \ waits},
      asks |-> [a \in {t[2] : t \in waits} |->
                  (CHOOSE t \in waits : t[2] = a)[3]]]
Engine(rows) == {DeserializeCore(rows, e) : e \in CoreInstances(rows)}

\* A call whose envelope lost its delegation is not a loadable call.
ExternalInstances(rows) ==
  {[id |-> c.id, kind |-> "call", delegation |-> c.delegation,
    caller |-> c.caller, phase |-> c.phase] :
     c \in {x \in ExternalCalls(rows) : x.delegation # NoOne}}

\* Of delegations and escalations each reactor reads those it issued; core
\* also reads who issued those addressed to it.
Reads(rows) ==
  [delegations |-> UNION {DelegationsFrom(rows, r) : r \in Reactors},
   raised |-> UNION {EscalationsFrom(rows, r) : r \in Reactors},
   summoning |-> DelegationsTo(rows, "core"),
   engine |-> Engine(rows), calls |-> ExternalInstances(rows),
   scopes |-> Scopes(rows), blobs |-> Blobs(rows),
   tasks |-> ExclusiveTasks(rows), pending |-> PendingOutbox(rows)]
=============================================================================
