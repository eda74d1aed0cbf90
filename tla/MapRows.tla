------------------------------ MODULE MapRows ------------------------------
(***************************************************************************)
(* The in-memory twin of the project's rows (storing-persistence.ts): the  *)
(* backend the recovery tests of the repository run against, one map per   *)
(* table.  It has no foreign keys: what they do is imitated method by      *)
(* method, and only the raiser of an escalation is checked.                *)
(***************************************************************************)
EXTENDS Integers, Sequences, TLC, SequencesExt

Set(map, key, row) == (key :> row) @@ map
Delete(map, keys) == [k \in DOMAIN map \ keys |-> map[k]]
Merge(map, row, Kept(_)) ==
  Set(map, row.id, IF row.id \in DOMAIN map THEN Kept(map[row.id]) ELSE row)

PutInstance(rows, row) ==
  [rows EXCEPT !.envelopes =
     Merge(@, row, LAMBDA old : [old EXCEPT !.status = row.status])]

\* Mutant: the imitated cascade forgets the delegations the instance issued.
DeleteInstance_Lenient(rows, id) ==
  [rows EXCEPT
     !.envelopes = Delete(@, {id}), !.cores = Delete(@, {id}),
     !.threads = Delete(@, {id}), !.calls = Delete(@, {id}),
     !.routes = Delete(@, {t \in DOMAIN @ : @[t] = id}),
     !.scopes = Delete(@, {s \in DOMAIN @ : @[s].owner = id})]

\* The one place that imitates ON DELETE CASCADE.
DeleteInstance(rows, id) ==
  [rows EXCEPT
     !.envelopes = Delete(@, {id}), !.cores = Delete(@, {id}),
     !.threads = Delete(@, {id}), !.calls = Delete(@, {id}),
     !.routes = Delete(@, {t \in DOMAIN @ : @[t] = id}),
     !.scopes = Delete(@, {s \in DOMAIN @ : @[s].owner = id}),
     !.blobs = Delete(@, {b \in DOMAIN @ : @[b].owner = id}),
     !.delegations = Delete(@, {d \in DOMAIN @ : @[d].caller = id}),
     !.escalations = Delete(@, {e \in DOMAIN @ : @[e].raiser = id}),
     !.runs = Delete(@, {id}), !.trace = @ \ {id},
     !.audits = Delete(@, {k \in DOMAIN @ : k[1] = id}),
     !.tasks = SelectSeq(@, LAMBDA t : t.run # id)]

PutDelegation(rows, row) ==
  [rows EXCEPT !.delegations =
     Merge(@, row, LAMBDA old : [old EXCEPT !.state = row.state])]
DeleteDelegation(rows, id) == [rows EXCEPT !.delegations = Delete(@, {id})]

\* The one foreign key the twin enforces.
InsertEscalation(rows, row) ==
  IF row.id \in DOMAIN rows.escalations THEN rows
  ELSE IF row.raiser \notin DOMAIN rows.envelopes
       THEN [rows EXCEPT !.refused = @ \cup {<<"raiser", row.id>>}]
       ELSE [rows EXCEPT !.escalations = Set(@, row.id, row)]
DeleteEscalation(rows, id) == [rows EXCEPT !.escalations = Delete(@, {id})]

PutCore(rows, row) ==
  [rows EXCEPT !.cores =
     Merge(@, row, LAMBDA old : [old EXCEPT !.engine = row.engine])]
ReplaceThreads(rows, id, threads) == [rows EXCEPT !.threads = Set(@, id, threads)]
PutExternalCall(rows, row) == [rows EXCEPT !.calls = Set(@, row.id, row)]
PutRoute(rows, token, id) ==
  IF token \in DOMAIN rows.routes THEN rows
  ELSE [rows EXCEPT !.routes = Set(@, token, id)]

PutScope(rows, row) == [rows EXCEPT !.scopes = Set(@, row.id, row)]
DeleteScope(rows, id) == [rows EXCEPT !.scopes = Delete(@, {id})]
PutBlob(rows, row) ==
  [rows EXCEPT !.blobs =
     Merge(@, row, LAMBDA old : [old EXCEPT !.owner = row.owner])]
DeleteBlob(rows, id) == [rows EXCEPT !.blobs = Delete(@, {id})]

InsertRun(rows, run) ==
  IF run \in DOMAIN rows.runs THEN rows
  ELSE [rows EXCEPT !.runs = Set(@, run, [state |-> "running",
                                          completed |-> FALSE])]
UpdateRun(rows, run, patch) ==
  IF run \notin DOMAIN rows.runs THEN rows
  ELSE [rows EXCEPT !.runs[run].state = patch.state,
                    !.runs[run].completed = @ \/ patch.completed]
InsertAudit(rows, row) ==
  IF <<row.run, row.escalation>> \in DOMAIN rows.audits THEN rows
  ELSE [rows EXCEPT !.audits = Set(@, <<row.run, row.escalation>>, row.answered)]

Queued(rows, escalation) ==
  \E k \in DOMAIN rows.tasks : rows.tasks[k].escalation = escalation
InsertExclusiveTask(rows, row) ==
  IF Queued(rows, row.escalation) THEN rows
  ELSE [rows EXCEPT !.tasks = Append(@, row)]
UpdateExclusiveTaskDelegation(rows, escalation, delegation) ==
  [rows EXCEPT !.tasks =
     [k \in DOMAIN @ |-> IF @[k].escalation = escalation
                         THEN [@[k] EXCEPT !.section = delegation] ELSE @[k]]]
DeleteExclusiveTask(rows, escalation) ==
  [rows EXCEPT !.tasks = SelectSeq(@, LAMBDA t : t.escalation # escalation)]

DeleteOutbox(rows, seq) ==
  [rows EXCEPT !.outbox = SelectSeq(@, LAMBDA m : m.seq # seq)]
\* storeOutboxRow: each message is stamped with the next ordinal.
InsertOutbox(rows, messages) ==
  FoldLeft(LAMBDA r, m : [r EXCEPT !.outbox = Append(@, m)], rows, messages)
AppendJournal(rows, runs) == [rows EXCEPT !.trace = @ \cup runs]

\* Reads: every one filters the values of a map.
Values(map) == {map[k] : k \in DOMAIN map}
DelegationsFrom(rows, from) == {d \in Values(rows.delegations) : d.from = from}
DelegationsTo(rows, to) == {d \in Values(rows.delegations) : d.to = to}
EscalationsFrom(rows, from) == {e \in Values(rows.escalations) : e.from = from}

\* An envelope without its extension is passed over.
Extended(rows, kind, extensions) ==
  {e \in Values(rows.envelopes) : e.kind = kind /\ e.id \in DOMAIN extensions}
CoreInstances(rows) ==
  {[engine |-> rows.cores[e.id].engine] @@ e :
     e \in Extended(rows, "core", rows.cores)}
ExternalCalls(rows) ==
  {[phase |-> rows.calls[e.id].phase] @@ e :
     e \in Extended(rows, "call", rows.calls)}
Threads(rows, id) == IF id \in DOMAIN rows.threads THEN rows.threads[id] ELSE {}
Scopes(rows) == Values(rows.scopes)
Blobs(rows) == Values(rows.blobs)
ExclusiveTasks(rows) == rows.tasks
PendingOutbox(rows) == rows.outbox
=============================================================================
