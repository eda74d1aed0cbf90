------------------------------- MODULE DbRows -------------------------------
(***************************************************************************)
(* The rows of one project in PostgreSQL, and the one statement of each    *)
(* method of db-persistence.ts.                                            *)
(*                                                                         *)
(* A database is a record of tables; a table is a function from its key.   *)
(* What the statements of the reactors depend on is kept: which columns an *)
(* upsert may change, the foreign keys and when each is checked, and what  *)
(* ON DELETE does.  A violated immediate key is noted in "refused": the    *)
(* transaction it occurs in is rolled back.                                *)
(***************************************************************************)
EXTENDS Integers, Sequences, FiniteSets, TLC, SequencesExt

CONSTANTS NoOne    \* NULL

\* A table of rows and its edits.
Put(table, key, row) == (key :> row) @@ table
Cut(table, keys) == [k \in DOMAIN table \ keys |-> table[k]]
KeysWhere(table, Test(_)) == {k \in DOMAIN table : Test(table[k])}

NoRows ==
  [envelopes |-> <<>>, cores |-> <<>>, threads |-> <<>>, calls |-> <<>>,
   routes |-> <<>>, delegations |-> <<>>, escalations |-> <<>>,
   scopes |-> <<>>, blobs |-> <<>>, runs |-> <<>>, audits |-> <<>>,
   tasks |-> <<>>, outbox |-> <<>>, trace |-> {}, refused |-> {}]

Refused(db, key) == [db EXCEPT !.refused = @ \cup {key}]

\* A foreign key checked by the statement itself: the row must exist.
Checked(db, key, exists, write) == IF exists THEN write ELSE Refused(db, key)

(***************************************************************************)
(* Instances, and what goes with them.                                     *)
(***************************************************************************)
\* Only the status of an envelope changes once it is written.
PutInstance(db, row) ==
  [db EXCEPT !.envelopes =
     Put(@, row.id, IF row.id \in DOMAIN @
                    THEN [@[row.id] EXCEPT !.status = row.status] ELSE row)]

\* instances.delegation_id, ON DELETE SET NULL: at once, though the check
\* of that key waits for the commit.
SetNull(envelopes, gone) ==
  [i \in DOMAIN envelopes |->
     IF envelopes[i].delegation \in gone
     THEN [envelopes[i] EXCEPT !.delegation = NoOne] ELSE envelopes[i]]

DeleteDelegations(db, gone) ==
  [db EXCEPT !.delegations = Cut(@, gone), !.envelopes = SetNull(@, gone)]

\* A run's record goes with its instance, and all that is keyed by the run.
DeleteRunRows(db, run) ==
  [db EXCEPT !.runs = Cut(@, {run}), !.trace = @ \ {run},
             !.audits = Cut(@, {k \in DOMAIN @ : k[1] = run}),
             !.tasks = SelectSeq(@, LAMBDA t : t.run # run)]

\* The foreign keys cascade from an instance to all that belongs to it.
DeleteInstance(db, id) ==
  LET owned(table) == KeysWhere(table, LAMBDA r : r.owner = id)
      issued == KeysWhere(db.delegations, LAMBDA d : d.caller = id)
      raised == KeysWhere(db.escalations, LAMBDA e : e.raiser = id)
      routed == KeysWhere(db.routes, LAMBDA i : i = id)
      rest == [db EXCEPT !.envelopes = Cut(@, {id}), !.cores = Cut(@, {id}),
                         !.threads = Cut(@, {id}), !.calls = Cut(@, {id}),
                         !.routes = Cut(@, routed),
                         !.scopes = Cut(@, owned(@)),
                         !.blobs = Cut(@, owned(@)),
                         !.escalations = Cut(@, raised)]
  IN DeleteRunRows(DeleteDelegations(rest, issued), id)

(***************************************************************************)
(* Delegations and escalations.                                            *)
(***************************************************************************)
\* Only the state of a delegation changes once it is written.
PutDelegation(db, row) ==
  [db EXCEPT !.delegations =
     Put(@, row.id, IF row.id \in DOMAIN @
                    THEN [@[row.id] EXCEPT !.state = row.state] ELSE row)]

DeleteDelegation(db, id) == DeleteDelegations(db, {id})

\* An open escalation never changes; its raiser's key is checked at once.
InsertEscalation(db, row) ==
  IF row.id \in DOMAIN db.escalations THEN db
  ELSE Checked(db, <<"raiser", row.id>>, row.raiser \in DOMAIN db.envelopes,
               [db EXCEPT !.escalations = Put(@, row.id, row)])

DeleteEscalation(db, id) == [db EXCEPT !.escalations = Cut(@, {id})]

(***************************************************************************)
(* The extensions of an instance.                                          *)
(***************************************************************************)
\* What a core instance runs is fixed; its engine state is replaced.
PutCore(db, row) ==
  Checked(db, <<"core", row.id>>, row.id \in DOMAIN db.envelopes,
          [db EXCEPT !.cores =
             Put(@, row.id, IF row.id \in DOMAIN @
                            THEN [@[row.id] EXCEPT !.engine = row.engine]
                            ELSE row)])

ReplaceThreads(db, id, rows) ==
  Checked(db, <<"threads", id>>, rows = {} \/ id \in DOMAIN db.envelopes,
          [db EXCEPT !.threads = Put(@, id, rows)])

PutExternalCall(db, row) ==
  Checked(db, <<"call", row.id>>, row.id \in DOMAIN db.envelopes,
          [db EXCEPT !.calls = Put(@, row.id, row)])

PutRoute(db, token, id) ==
  IF token \in DOMAIN db.routes THEN db
  ELSE Checked(db, <<"route", token>>, id \in DOMAIN db.envelopes,
               [db EXCEPT !.routes = Put(@, token, id)])

(***************************************************************************)
(* What the resource pool keeps.                                           *)
(***************************************************************************)
OwnerExists(db, row) == row.owner \in DOMAIN db.envelopes \cup {NoOne}

PutScope(db, row) ==
  Checked(db, <<"scope", row.id>>, OwnerExists(db, row),
          [db EXCEPT !.scopes = Put(@, row.id, row)])
DeleteScope(db, id) == [db EXCEPT !.scopes = Cut(@, {id})]

\* A blob is named by its content: only its owner changes.
PutBlob(db, row) ==
  Checked(db, <<"blob", row.id>>, OwnerExists(db, row),
          [db EXCEPT !.blobs =
             Put(@, row.id, IF row.id \in DOMAIN @
                            THEN [@[row.id] EXCEPT !.owner = row.owner]
                            ELSE row)])
DeleteBlob(db, id) == [db EXCEPT !.blobs = Cut(@, {id})]

(***************************************************************************)
(* Runs, their audit and their critical sections.                          *)
(***************************************************************************)
InsertRun(db, run) ==
  IF run \in DOMAIN db.runs THEN db
  ELSE Checked(db, <<"run", run>>, run \in DOMAIN db.envelopes,
               [db EXCEPT !.runs = Put(@, run, [state |-> "running",
                                                completed |-> FALSE])])

\* A terminal state stamps the run; no other patch unstamps it.
UpdateRun(db, run, patch) ==
  IF run \notin DOMAIN db.runs THEN db
  ELSE [db EXCEPT !.runs[run] = [state |-> patch.state,
                                 completed |-> @.completed \/ patch.completed]]

InsertAudit(db, row) ==
  Checked(db, <<"audit", row.run>>, row.run \in DOMAIN db.runs,
          [db EXCEPT !.audits = @ @@ (<<row.run, row.escalation>> :> row.answered)])

InsertExclusiveTask(db, row) ==
  IF \E k \in DOMAIN db.tasks : db.tasks[k].escalation = row.escalation THEN db
  ELSE Checked(db, <<"task", row.escalation>>, row.run \in DOMAIN db.runs,
               [db EXCEPT !.tasks = Append(@, row)])

UpdateExclusiveTaskDelegation(db, escalation, delegation) ==
  [db EXCEPT !.tasks =
     [k \in DOMAIN @ |-> IF @[k].escalation = escalation
                         THEN [@[k] EXCEPT !.section = delegation] ELSE @[k]]]

DeleteExclusiveTask(db, escalation) ==
  [db EXCEPT !.tasks = SelectSeq(@, LAMBDA t : t.escalation # escalation)]

(***************************************************************************)
(* The outbox, in the order of its serial, and the trace.                  *)
(***************************************************************************)
DeleteOutbox(db, seq) ==
  [db EXCEPT !.outbox = SelectSeq(@, LAMBDA m : m.seq # seq)]
InsertOutbox(db, messages) == [db EXCEPT !.outbox = @ \o messages]

AppendJournal(db, runs) ==
  Checked(db, <<"trace", runs>>, runs \subseteq DOMAIN db.runs,
          [db EXCEPT !.trace = @ \cup runs])

(***************************************************************************)
(* Reads.                                                                  *)
(***************************************************************************)
RowsWhere(table, Test(_)) == {table[k] : k \in KeysWhere(table, Test)}

\* A delegation whose caller was nulled has no owner left to load it.
SelectDelegations(db, Match(_)) ==
  RowsWhere(db.delegations, LAMBDA d : d.caller # NoOne /\ Match(d))
DelegationsFrom(db, from) == SelectDelegations(db, LAMBDA d : d.from = from)
DelegationsTo(db, to) == SelectDelegations(db, LAMBDA d : d.to = to)

EscalationsFrom(db, from) == RowsWhere(db.escalations, LAMBDA e : e.from = from)

\* Envelope and extension, joined: a row without either is not read.
CoreInstances(db) ==
  {db.envelopes[i] @@ [engine |-> db.cores[i].engine] :
     i \in {k \in DOMAIN db.cores : db.envelopes[k].kind = "core"}}
Threads(db, id) == IF id \in DOMAIN db.threads THEN db.threads[id] ELSE {}
ExternalCalls(db) ==
  {[phase |-> db.calls[i].phase] @@ db.envelopes[i] :
     i \in {k \in DOMAIN db.calls : db.envelopes[k].kind = "call"}}
Scopes(db) == RowsWhere(db.scopes, LAMBDA s : TRUE)
Blobs(db) == RowsWhere(db.blobs, LAMBDA b : TRUE)
ExclusiveTasks(db) == db.tasks
PendingOutbox(db) == db.outbox

(***************************************************************************)
(* One transaction.                                                        *)
(***************************************************************************)
\* The two keys of the cycle caller, delegation, callee wait for the commit.
Dangling(db) ==
  {<<"delegation", i>> : i \in KeysWhere(db.envelopes,
     LAMBDA e : e.delegation \notin DOMAIN db.delegations \cup {NoOne})}
  \cup {<<"caller", d>> : d \in KeysWhere(db.delegations,
          LAMBDA r : r.caller \notin DOMAIN db.envelopes)}

\* What the commit of these edits would refuse.
Refusals(db) == db.refused \cup Dangling(db)
=============================================================================
