# Katari: TLA+ models and proofs

Katari is a language for durable, effectful workflows: a Haskell tool chain compiles a program to IR, and a
TypeScript runtime executes it. This directory holds TLA+ modules for the runtime, the TLC configurations that
check them on small instances, and TLAPS proofs of what the bus and the api, ffi, time and region reactors promise for
every instance. Paths are relative to the repository; `actor/`, `engine/` and `external/` are short for the
directories under `typescript/runtime/src/runtime/`.

## 1. The system

One process serves one database (an advisory lock keeps a second one out). Every project has one **actor**.
An actor is a set of **reactors** that exchange events over a **substrate**: a serial mailbox, a durable outbox
and one atomic commit per batch of turns. The reactors keep warm state in memory that mirrors durable rows;
after any failure the warm state is thrown away and reloaded.

The events are few: `delegate` / `delegateAck` (call and result), `terminate` / `terminateAck` (cancel and
confirmation), `escalate` / `escalateAck` (an effect or failure that goes up, and its answer).

| Component | State it keeps | Hard behaviour | What makes it correct | Modules |
|---|---|---|---|---|
| Substrate (`actor/substrate.ts`, `project-actor.ts`) | mailbox, load gate, retry counters, open batch; rows of `outbox`, `run_events` | failing turns, commits and loads; answers in doubt; crashes; work arriving during every await | each event takes effect once and in order; callers hear only of durable work and always hear something; a bad event costs itself only | `Substrate`, `EventDelivery` |
| Reactor base (`actor/reactor.ts`) and persistence (`db-persistence.ts`, `storing-persistence.ts`, `row-store.ts`) | delegation rows owned by the caller, escalation rows by the raiser, received edges; the tables | result, cancel and failure of one call race; one transaction carries a causal chain | both ends of a delegation meet; every batch commits; a reload finds everything | `Rows`, `RowStore`, `DbRows`, `MapRows` |
| Api reactor (`actor/api-reactor.ts`) | run delegations, open escalations, promises; the FIFO of critical sections | cancel against result against failure; store answers outside the loop; teardown of sections | a run's outcome is final; one section at a time, each once; answers agree with rows | `ApiReactor`, `RunOutcome` |
| Core reactor, thread engine (`actor/core-reactor.ts`, `engine/*`) | threads, routes, handlers, finalizers | cancellation of a tree while results ascend; jumps through open children | the tree stays a tree; finalizers run last and once; a termination completes | `Engine` |
| Scopes, blobs (`actor/resource-pool.ts`, `engine/gc.ts`, `facade.ts`) | owners; rows; bytes outside the database | ownership changes in two steps; a sweep per turn | nothing in use is taken, nothing is kept for nobody | `Ownership` |
| External calls (`actor/external-call-reactor.ts`) | calls, relays, inner calls, held outcomes | completion against cancel; crash with work in flight; parks | one answer per call, after all its children | `CallReactor`, `Parking` |
| FFI (`ffi-reactor.ts`, `external/snapshot-transport.ts`, `subprocess-runner.ts`, sidecar) | routes, processes | death of a process, late messages | a handler runs once and none outlives its call | `Ffi` |
| HTTP, time, webhook reactors | requests, timers, tokens, waiters | deadlines during downtime; deliveries across a restart | an occurrence fires once; a request gets its own outcome | `Http`, `Time`, `Webhook` |
| MCP, OAuth (`mcp-reactor.ts`, `oauth-reactor.ts`, `external/mcp-transport.ts`, `credentials.ts`, `authorization-flow.ts`) | scopes of tools, parked calls, clients, tokens, logins | a login against a call that parks; concurrent refreshes | a tool runs once; the latest deposit stands | `Mcp`, `OAuth`, `McpTransport`, `Credentials` |
| Region (`actor/region-reactor.ts`) | nurseries, fibers, mailbox, watches | fiber end against cancel; reload order of calls | no fiber outlives its nursery; asks reach a watch in order | `Region` |
| Registry, facade, boot; instance lock | warm actors; one advisory lock | what a restart wakes; a lock whose connection is lost | every unfinished run resumes; one process per database | parts of `Substrate`, `Ownership` |
| REST, web, CLI, LSP, Haskell compiler and project tool | none of their own, or pure | none beyond the above | | none |

`PROJECT.json` lists the components with what is and is not modelled of each, and the hazards, each at its line.

## 2. How the modules fit together

```
EventDelivery <== refines == Substrate            RunOutcome <== refines == ApiReactor
  (proved, for every workload)                      (proved, for every program)
  SubstrateProofs                                   ApiReactorProofs

SequenceLemmas <-- every proof module
CallReactorProofs <-- FfiProofs, TimeProofs, NurseryProofs <-- RegionProofs

Rows == INSTANCE ==> RowStore over DbRows   and   RowStore over MapRows

CallReactor <-- Ffi, Region, Time, Webhook, Http, Parking <-- OAuth, Mcp
Credentials <-- McpTransport
Engine, Ownership: one instance of the program; a chain of instances
```

`Substrate` is the base of the argument. It shows that turns are serial, that a batch is durable in one step,
and that an event is replayed until it is handled, once. The other modules take that as given and have one of
two shapes. In `CallReactor`, `Rows` and their users, `warm` / `mem` is what the actor holds, `rows` / `db`
what is committed, and a failure or a crash goes back from the first to the second. In `ApiReactor`, `Engine`
and `Ownership` a turn is one step and a reload (where there is one) loses what only memory has.

Plans. Most modules have a constant `Plans`, a set of records that bound a behaviour: which calls are made, which
of them are cancelled, how many failures, crashes, asks there are. `Init` picks one. So each plan puts a few
actors and misfortunes together that can disturb each other, and one run covers them all; a product of everything
with everything would only repeat the same encounters. The comments of the `MC` modules say what a plan is for.

## 3. Plan

Done: the bus and the api, ffi, time and region reactors, with proofs of every safety property their runs check; calls
and all the reactors that own them; parks, credentials and the MCP client; the thread engine; ownership and sweeps; the
rows.

Left, in this order:

1. Proofs. The other reactors over `CallReactorProofs` (`Http`, `Webhook`). `Rows`: type correctness, `EdgesMeet`.
   `Engine`: type correctness, and the shape of the tree for programs without the nestings of section 13.
   `Ownership`: bytes and rows. `Credentials`: `DepositStands`.
2. An abstract call (at most once, at most one answer, after its children) that `CallReactor` refines for every
   reactor, and an abstract delegation that `Engine` and `Rows` refine.
3. `InstanceLock` with two processes on one database; eviction of an idle actor; `Resolve` (dependency
   resolution and lockfile of the project tool).

## 4. The bus: `Substrate`, `EventDelivery`

### State and actions

| TLA+ | Code |
|---|---|
| `mailbox` | `Substrate.mailbox` |
| `pump` | where the one active `pump()` stands: `idle` = `pumping` is false, `loading` / `replaying` = inside `reactivate`, `reacting` = the react loop, `committing` / `committed` = around the transaction, `deadEvent` = inside `consumeDeadEvent`, `exited` = no process |
| `limit` | `firstBatchLimit` / `MAX_BATCH_TURNS` |
| `loaded`, `retries`, `batch` | `loaded`, `commitRetries`, `Batch` (`position` counts its turns) |
| `warm` | the reactors' warm state: the turns it reflects, in order |
| `history` | the committed rows, in the same terms |
| `outbox`, `ordinal`, `journal` | the rows of `outbox`, their `ordinal`, the rows of `run_events` |
| `dead` | events whose row was deleted by `consumeDeadEvent` |
| `timers` | backoff delays that have not fired |
| `promise`, `submitted`, `notified` | the awaiters of commands, completions that arrived, events whose `afterCommit` ran |
| `unhandled` | a promise without handler was rejected |

A **turn** is an event, a command, an originated completion, the failure of a run (`failRun`) or the turn a load
schedules. What a turn computes is abstracted to the events it sends (`Sends`) and to whether it throws
deterministically (`Poison`): no property of the bus depends on more. Every await of the code is a boundary
between actions, so commands, completions and crashes fall between any two of them; a turn is one step because
`react` runs against state nobody else writes. `CommitFails` is both the commit that was rolled back and the one
that happened with its answer lost. A transient failure can hit a load, a turn, a commit, the consumption of a
dead event and a post-commit side effect.

Helpers stand for the code's own: `Shifted` is the produce/consume cancellation, `DropWarm` is `dropWarm`,
`RetryableFailure`, `MidBatchFailure`, `ReactFailure` and `ConsumeDeadEvent` are the failure policies,
`CommitBatch` is the transaction, `Wipe` what a dead process forgets. The definitions named `X_...` before some
`X` are its plausible mis-implementations, each of which some property must catch.

`EventDelivery` is what a reactor's author may assume: a batch is one step that handles events which were sent
and not yet handled, and sends others; an event may be given up only if its turn is poison. It knows no mailbox,
no load, no retry and no crash. `Substrate!DeliverySpec` maps `done` to the committed turns and `sent` to the
journal, and the implementation shows that failures, replays and restarts are invisible.

Properties: `BusInv` (the inductive invariant, whose conjuncts imply `AppliedOnce`, `NothingLost`,
`EveryRowScheduled`, `ResolvedIsDurable`, `JournalIsTrace`, `NotifiedIsDurable`, `OnlyPoisonDropped` and
`WarmIsDurable`, see section 12), `HandledInOrder`, the refinement `DeliverySpec`, and two liveness properties:
`ReplayEnds` (a row is eventually consumed, or the actor is dormant after giving up) and `CallsSettle` (every
awaiter is settled).

**Workload and bounds** (`MCSubstrate`). A command sends a burst of two events; the first goes on to a third, so
that a batch both consumes rows and cancels events of its own; a completion sends a fourth; failing a run sends
a fifth. Two runs, two commands. Poison: the second event of the burst, which stands *behind* a good turn of its
batch; the completion's event, which stands first; and a command, which has no row. `MaxBatchTurns = 2` is the
least bound at which a batch has a position behind the first and still leaves turns for a later batch.
`MaxCommitRetries = 1` and `MaxFaults = 2` reach a retry, its success and its exhaustion (the actor giving up
with rows in the outbox), and a failure inside the handling of a failure. `MaxCrashes = 1` puts a restart at
every point; a second would start from a state the first already explores up to `warm = << >>`. Loads schedule no
turn of their own in the run (`LoadKind = "none"`); the proofs cover those that do, and need none of the bounds.

## 5. The api reactor: `ApiReactor`, `RunOutcome`

| TLA+ | Code |
|---|---|
| `api.run`, `promise` | the `runs` row, `runResolvers`, `runRejecters` |
| `api.rows` | the delegation rows the reactor owns: roots of runs and sections |
| `api.open`, `raised` | answerable escalations in memory; the rows, which their raiser owns |
| `api.queue`, `api.tasks`, `api.fence` | `exclusiveTasks` (rows), `exclusiveTaskDelegations`, `abandonedTaskDelegations` (warm only) |
| `bus`, `outbox` | turns that wait, and what is left of them after `dropWarm` |
| `io` | store answers that are computed outside the serial loop |
| `core` | the instances behind the delegations, reduced to what they may send |

A run's program is a sequence of requests: a store operation, a question, a failure, an exclusive section with a
program of its own, waited for or raised in a parallel branch. The program of a section asks no user: the entry of a
section handles `io` itself, and only the store's requests leave it (`InSection`). `DropWarm` and `Load` are the
reload, with the re-drive of open store rows and the kick of the head section; `DropsPoison` drops an event and fails
its run.

`OutcomeIsFinal` says that the runs implement `RunOutcome`: each is started once, reaches one outcome whichever of
result, cancel and failure comes first, and `cancelled` only when it was asked to. `SectionsKept`: one section at a
time, and a section is never started twice. `NothingLeaks`: after everything is quiet no section or root of an ended
run works on and no question of it is open. `AnswersAgree`: what the program got is what the audit says (while no
event was dropped: a dropped answer is in the audit and reaches nobody), a program suspended under a question can be
answered, one suspended under a store request of a live run has its answer in the making or on its way through any
reload, and the in-process promise says what the row says. `FollowedEnds`: a cancelled run comes to its outcome and its awaiter hears
of it; an enqueued section leaves the queue.

**Bounds.** Six runs: a section beside a question (`ra`), a section that fails (`rb`), one store section (`rc`),
a section followed by a store request (`rd`), a section in a section (`rw`), a section beside a store request
(`rh`). Two runs are enough for two sections to meet; each plan has one or two misfortunes.

## 6. One instance: `Engine`

`inst` is one core instance: its threads with status, frame, routes of asks and handler bodies; the exits that are
due; the finalizers armed and run; its callees as seen by their proxies; the queue of internal events. A turn puts
events in the queue, `Step*` drains it, and the environment moves only when it is empty, as in `drive.ts`. The
handlers of `thread-ops.ts` are operators from instance to instance: `Create`, `CallAck`, `Ask`, `AskAck`,
`Cancel`, `CancelAck`, `HandleNext`, `Jump`, and the teardown of `common.ts` (`BeginCancel`, `NoteChildGone`,
`FinishCancel`). Values are left out; a `match` chooses. A sequence's `delegate` operation becomes one of four plans
(`DelegatePlan`): a request of the sequence's own thread, a value that is constructed on the spot, a primitive that
runs inline, or a proxy to another instance, which an external tool is dispatched through as well; the first three
settle without an event, so that the sequence goes on within the turn.

`TreeKept`: no handler meets a state it takes for impossible; a live thread has a live parent; an answer goes
down through the thread that asked; nothing outlives the instance; a cancelled subtree only shrinks; a sequential
handle serves in order and never the requests of its own bodies. `FinalizersKept`: finalizers start when the user
tree is gone, one at a time, last armed first, each once, and not in a failed instance. `TerminateCompletes`: a
terminated instance acknowledges.

**Bounds.** Seven programs, one per kind of nesting: deferred calls under a handle left by a throw, handlers in
both modes with externals that ask, loops in both modes with jumps to inner and outer targets, finalizers that
ask. Each allows two or three asks, a termination sent once or twice, 12 or 16 threads.

## 7. Calls: `CallReactor`, `Ffi`, `Http`, `Time`, `Webhook`, `Region`

An external call reaches a call reactor as a `delegate` from core, runs a handler in a sidecar process, and is
answered by a result, a failure that goes up as an escalation, or the confirmation of a cancel. The handler may
itself call agents (inner delegations), whose asks are raised again under the call. `CallReactor` is the base
that all call reactors share; `Ffi` extends it with the ffi reactor, `SnapshotFfiTransport`,
`SubprocessFfiTransport` and the port inside the sidecar, for the calls of one snapshot (one process).

| TLA+ | Code |
|---|---|
| `warm.status`, `settled`, `held` | `Call.status`, `transportSettled`, `pendingOutcome` (`"gone"`: dropped) |
| `warm.relays`, `bridge`, `staged` | `Call.relays` (an outer ask is named by its child), `innerCalls`, `pendingDeliveries` |
| `warm.edge` | the caller-owned `delegations` rows of the inner delegations |
| `warm.proxy`, `asked`, `callee` | core: the proxy thread that issued the call, the asks a handler holds, the instance that runs an inner delegation |
| `warm.mail` | the mailbox: events, completions, requests of handlers |
| `rows` | the same state as committed, its mail being the outbox |
| `phase`, `after` | between batches, in one, committed with `afterCommit` due, or down until the next load |
| `routed`, `process`, `chained` | `delegationSnapshot`, the entry of `perSnapshot`, what was chained to its promise |
| `handler`, `waiting` | `Sidecar.inFlight` (with the abort signal) and `pendingCalls` |

The handlers (`OnDelegate`, `OnTerminate`, `OnEscalate`, `OnEscalateAck`, `OnChildAck`, `Complete`,
`MaybeSettle`, ...) are functions of the warm state, one per method; `HandleEvent`, `CompleteTurn` and
`InnerDelegate` run them as turns. What Substrate establishes is taken as given: turns are serial, a batch
becomes durable in one step, an event is replayed until it does. A batch may end after any turn, since the turns
of other reactors fill batches too. Core is reduced to what it may send (`CoreCalls`, `CoreCancels`,
`CoreAnswers`, `CalleeReturns`, `CalleeAsks`); these are turns as well.

The process is not part of a turn: a reply, a callback, a death, a spawn that ends or fails happens at any
moment, also while the actor is down. `Fail` is any failure that makes the actor reload, `CommitInDoubt` the
commit whose answer was lost, `Crash` the end of the runtime. `Reload` is a load that succeeds, with `recover`
and `abort` for every call that was in flight. What arrived while the actor was down is queued first, then what
the load schedules, then the outbox, as in the code. A handler may reply with inner calls pending. The exit of a
sidecar may overtake its last replies. A handler that goes on after the runtime is gone, with its pipes closed,
is not followed: nothing it does can be heard.

**The other reactors** add their own state to the same base.

- `Http`: one request per call, no process; a download puts bytes, registers their row by a command turn, and
  answers after that commit.
- `Time`: a clock that passes, deadlines and watch cursors in rows, timers armed again by a load.
- `Webhook`: tokens and waiters in memory, subscribers and deliveries as inner delegations.
- `Region`: the provide's mailbox, running set and watches; forks, `cancel_by_id` and roster as calls; what other
  reactors get from a transport comes back as a turn the reactor schedules after a commit. The registry of a scope is
  in memory (`OpenScope`, `CloseScope`, `RegisterWatch`, `UnregisterWatches`): a reset forgets it and a load builds it
  again from the rows of the provide and of the watches, read in any order.

`MCCallers` and `MCAuthorized` run several modules side by side, one in a behaviour (`reactor` says which); the
variables of the others keep a fixed value. So a property `P` of the run is `reactor = ... => P` of each.

Properties. `HandlersServed` and `NothingOutlives` (ffi: routes lead to handlers, a handler runs once, inner asks
move, what a handler is told is durable; no handler or child outlives its call). `CallsKept` (no sleep ends early;
the occurrences of a watch lie on its grid, come once and do not overlap; a request is answered by the delivery
opened for it; a request is sent at most once, and a downloaded body has its row before its handle is used).
`Driven` (whatever runs has something that will move it). `FibersKept` and `MailboxKept` (region: asks are raised in
their order, and the report of a failed fiber stays in the mailbox until a watch raised it). `CallsEnd` in
each run: the call a plan follows comes to its end.

## 8. Credentials: `Parking`, `OAuth`, `Mcp`, `Credentials`, `McpTransport`

`Parking` is the credential park of the call base: an authorize ask, an answer, a run from the start. `OAuth` is
the reactor of `oauth.token` with logins that deposit a credential and then answer whoever waits. `Mcp` is the
client side of the mcp reactor: provide, listing, the continuation, tools under the scope. `McpTransport` over
`Credentials` is what both rest on: cached clients with a baked-in token, a 401 that costs one silent refresh and
one retry, refreshes shared within a store and written back under the generation they loaded.

`OnceOnly`: the server runs a tool call once and a provide delegates its continuation once, over parks and
crashes; one revocation costs an operation that is alone no human. `HumanDecides`: a parked call is not run behind
its back, and the latest deposit stands. `Driven`, `CallsEnd` as above.

**Bounds.** One credential; up to three generations of it; a provide of no and one of two servers; a minted and a
static tool; two operations and an oauth call on the same credential.

## 9. What instances own: `Ownership`

A run of a chain of core instances. A thread is reduced to where it stands and what it holds, a value to the scopes
and blobs it carries and the blob ids that are spelled out in its text. Events carry values: what goes up is released
by its sender and re-owned by its receiver, what nobody carries is hoisted, and every turn of an instance ends in a
sweep of the scopes it owns (`gc.ts`): `Sweep` takes what `Marked` and `Retained` do not reach. The program is any
sequence of operations that the plan's budget of each kind allows.

`EnvironmentsKept`: the scope a thread stands in exists, and so do the scopes it needs. `ResourcesKept`: a blob
that an instance, an event or the run was told of exists, nothing is without an owner or a carrier, bytes belong
to a blob or an upload, and the rows follow. Scopes that the two known divergences of this part touch (section 13)
are followed by `astray` and exempted, so that the rest is still checked beside them.

**Bounds.** Three instances (an event must be able to climb through one that neither made nor keeps a value),
eight scopes, two blobs; eleven plans, each a budget for one kind of program.

## 10. Memory and rows: `Rows`, `RowStore`, `DbRows`, `MapRows`

`DbRows` has the one statement of each method of `db-persistence.ts`, with what an upsert may change, the foreign
keys, when each is checked, and what `ON DELETE` does. `MapRows` is the in-memory twin the repository's recovery
tests run against. `RowStore` is the layer they share; it is instantiated twice. `Rows` drives both: an api
reactor, a core reactor and an external-call reactor record the edges of the delegation tree in memory, persist
them at the end of a batch (`persistBase` and each reactor's own `persist`, in the code's order) and read them
back.

`Commits`: PostgreSQL accepts the transaction of every batch, whatever turns it holds, and the twin makes the same
rows of it and reads them the same. It is checked in every state in which a batch is open, so it ranges over all
batches, not only those that are committed. `Reloads`: after a commit, what a load makes of the rows is what
memory holds. `EdgesMeet`: the callee of a live delegation is there, or a message about it is on its way, or its
failure is being asked about; and an instance is called for or going down.

**Bounds.** Seven shapes of program: two to four delegations, one or two escalations, one or two moves in a turn,
at most one crash. Two delegations put an instance between the run and a call; three put a section beside them.

## 11. Runs

| Run | Checks | Distinct states |
|---|---|---|
| `bus` | `TypeOK`, `BusInv`, `HandledInOrder`, `DeliverySpec`, `ReplayEnds`, `CallsSettle` | 151,000 |
| `ffi` | `TypeOK`, `HandlersServed`, `NothingOutlives`, `CallsEnd` | 139,000 |
| `callers` | `TypeOK`, `CallsKept`, `Driven`, `CallsEnd` | 106,000 |
| `authorized` | `TypeOK`, `Driven`, `OnceOnly`, `HumanDecides`, `CallsEnd` | 191,000 |
| `region` | `TypeOK`, `FibersKept`, `MailboxKept`, `CallsEnd` | 164,000 |
| `api` | `TypeOK`, `NothingLeaks`, `AnswersAgree`, `OutcomeIsFinal`, `SectionsKept`, `FollowedEnds` | 147,000 |
| `engine` | `TypeOK`, `TreeKept`, `FinalizersKept`, `TerminateCompletes` | 65,000 |
| `ownership` | `TypeOK`, `EnvironmentsKept`, `ResourcesKept` | 194,000 |
| `rows` | `TypeOK`, `Commits`, `Reloads`, `EdgesMeet` | 130,000 |
| `api_isolation` | `SectionIsolation`, violated | |
| `ownership_sweep` | `HeldOnly`, violated | |
| `rows_setnull` | `OutlivedByDelegation`, violated | |

Deadlock checking is off in all of them: an actor with nothing to do, and a program that ended, stop.

The definitions named `X_...` before some `X` are its plausible mis-implementations: for every property of every
passing run `PROJECT.json` names one that the property must catch.

**Fairness.** In every module the serial loop goes on, a pending backoff fires, and an actor that is down is
loaded again, because the deployment restarts the process and `activateInFlightProjects` wakes the project
(`Loop`, `LoopStep`, `Drive`, `Turn \/ Load`). Faults, crashes, commands of users and the arrival of work are
never fair. Beyond that:

- `Substrate`: weak fairness of `LoopStep` only. `ReplayEnds` may end in dormancy, which is what the `stop` outcome
  and a failed load leave behind until the project is used again.
- `ApiReactor`: an instance below goes on (raises, returns or stops), a store answer being computed arrives.
- `Engine`: a callee that is terminated acknowledges, and an ask of a finalizer is answered; that the program's own
  calls return is not assumed.
- `Ffi`: a spawn ends, a handler that awaits nothing replies; strong fairness of core's answer to each ask and of
  the end of each inner agent, since reloads and the open batch disable them for a while.
- `MCCallers`, `MCAuthorized`, `Region`: time passes, a transport that was asked answers, a resolution and a login
  that began go on, a callee returns; strong fairness where a reload may interrupt.

That a handler, a program or a human ends is not the runtime's to guarantee: the liveness properties say that the
runtime is never what a call waits for.

## 12. Proofs

### The bus

`SubstrateProofs` proves, for every workload, every set of poison turns and all values of the bounds:

| Theorem | Property |
|---|---|
| `BusInvariant` | `Spec => []BusInv` |
| `TypeCorrect` | `TypeOK` |
| `ExactlyOnce` | `AppliedOnce` |
| `NoEventLost` | `NothingLost` |
| `ResolvedDurable`, `NotifiedDurable` | `ResolvedIsDurable`, `NotifiedIsDurable` |
| `JournalComplete` | `JournalIsTrace` |
| `DropsOnlyPoison` | `OnlyPoisonDropped` |
| `NoRowStranded` | `EveryRowScheduled` |
| `WarmMatchesRows` | `WarmIsDurable` |
| `BusImplementsDelivery` | `Spec => DeliverySpec` |

**Assumptions.** `Sends` maps turns to sequences of events and each event is sent by one turn at one place
(`FreshEvents`: `newOutboxSeq` mints a fresh id per send); the scheduled load turn sends nothing of its own;
failures of runs are not poison (their turn is a lookup, a row and a send); the set of events is finite (used
for the permutation that `ReplayOutbox` picks); the bounds are naturals and a batch holds at least one turn
(the code clamps it).

**Argument.** None of the properties is inductive: whether a commit keeps `NothingLost` depends on what the
open batch says of the rows it consumed, which depends on what the mailbox held when they were shifted, which
depends on what the load put there. `BusInv` states these links, and each part is there because the next needs
it:

- `LoopShape` ties the loop's place to `loaded`, `batch` and `doomed`;
- `MailAccount` says that the events in the mailbox are exactly the rows not consumed by the open batch plus
  the pending events of that batch; this is why nothing is replayed twice and no row is stranded;
- `BatchAccount` says that the batch's lists are the difference between warm state and rows: consumed rows are
  rows, the batch's journal is what the new warm turns sent, and what they handled is consumed or cancelled;
- `FreshTurns` and `Issued` say that a turn waiting in the mailbox is neither in the rows nor in the warm state;
- `WarmAhead` says that warm state contains the rows and, outside a batch, equals them;
- `SettleAccount` says that awaiters and side effects of the batch belong to warm turns, so that they are
  durable once it commits;
- `RowsConsistent` is what the properties say of the durable rows.

One lemma per action shows that it keeps `BusInv`; `CommitRows` is the lemma that both outcomes of a commit
share. Where a failure discards everything, `ForgetKeeps` shows at once that an empty mailbox and an empty batch
satisfy every account. The refinement then takes one step: a commit is a `Perform`, a consumed dead row is a
`GiveUp`, every other action leaves `done`, `sent` and `dead` alone. `SequenceLemmas` holds the facts about
`ToSet`, injectivity, head and tail, and concatenation.

**Order.** `SubstrateProofs` proves `EventsInOrder`: `Spec => []HandledInOrder`. `OrderInv` adds to `BusInv` what
the places of events have to do with each other: a row's ordinal is the place of its event in the journal
(`RowsInPlace`); what is still a row was sent behind all that is handled (`HandledAhead`), so a replay never brings up
an event that should have come before; and the warm turns followed by the mailbox are in the order of `Line`, the
journal with what the open batch adds. The last is not the property of the rows: it is what a commit makes into one.

### The api reactor

`ApiReactorProofs` proves, for any runs, programs, answers and plans:

| Theorem | Property |
|---|---|
| `ApiTypeCorrect` | `TypeOK` |
| `OutcomeFixed` | `Spec => OutcomeIsFinal`, the refinement of `RunOutcome` |
| `SectionsHold` | `Spec => []SectionsKept` |
| `AnswersHold` | `Spec => []AnswersAgree` |
| `NothingLeft` | `Spec => []NothingLeaks` |

**Assumptions.** A program is a sequence of requests, and a section's own a sequence of requests that have no body
(`ProgramAssumption`: a section in a section is raised, and refused). The bounds of a plan are naturals. Nothing
is assumed of how many sections, reloads or dropped events there are, nor of what the program does.

**Argument.** That an outcome stands does not follow from the guard on the live row alone: a start could revive a
run that ended, a late `terminateAck` could call a run cancelled that nobody cancelled, and a failure of a section
goes to its run, whatever became of it. `IInv` closes these ways:

- `RootsLive`: the row of a root is there only while its run is alive, so what retires it moves an open outcome;
- `SecRows`: the row of a section is that of a routed task which the queue says was spawned; so a live delegation
  that is no task is a root;
- `StopsMeant`: a root is told to stop, is stopping or acknowledges it only if its run was marked or has ended; so
  the acknowledgement of a live root finds `cancelling`;
- `StartsOnce`: at most one start waits for each run, and the run has not started.

`Keeps` says what a part of a turn may do to the reactor (`SpawnTask`, `Cleanup`, `CompleteTask`, `Enqueue` each
have a lemma), `Turned` what a whole turn may do; `TurnKeeps` is the one place where a commit meets the queue. The
steps of users, of the store, of the instances below, of a reload and of a dropped event go through `StillKeeps`.
`NextKeeps` gives the invariant and the refinement step together.

**Sections.** That two sections never work at a time is not a fact about `api.tasks`: a section that was abandoned may
still be at work when the reactor forgets it, because the fence is warm only. `SInv` therefore keeps the account in two
places. `Held` and `Waits` say what the reactor holds: at most one spawned or fenced section, and no trace below of one
that waits. `Ends`, `Lined` and `Guarded` speak of the line of committed events (`Line`: the mailbox, or while the actor
is down the outbox): of two sections that are at work or about to be, the terminate of one stands ahead of the delegate
of the other, so that the first is told to stop before the second starts. A reload then needs no fence: it keeps the
line. `Shrinks` and `Thins` are the two ways in which the line may lose events, and the account survives the second;
under the first, a dropped terminate, only the parts outside `Lined` and `Guarded` do, which is why the property says
`spent.drops = 0`.

**Answers.** `AInv` relates what the reactor knows to what is below. A root or section without a row was told to stop or
its answer is on the line (`RootAnswers`, `Torn`); a question that is open belongs to a program that waits or to one
whose last word is on the line and will close it (`Opened`, `LastWord`); a program suspended under a live root has its
question open, on its way up, or answered (`Reach`); and of several answers to one question, which a double resolve and
a reload can produce, the audited one leads the others (`Audited`), so it is the one the program gets. `Follows` is what
the parts of a turn may do between them (spawning, completing, cleaning up: a root loses its row only by a failure of
its run, and with a terminate); it is transitive, so a turn is one `Follows` step after the few lines that touch a
question. `NothingLeft` is then read off an empty line.

**Store requests.** `Fetched` stands beside `AInv`: a request that was not reached has no row, and one whose raiser
works under a live root is being computed, in the outbox or on the line. A load drives again every request it finds
open (`ReloadFetches`); a store that fails takes the row of the root (`StoreFailsRoot`), since by `Torn` what works
below a live root is still routed to it (`WorkerRouted`). With `AInv` this gives `StoreReachable`, the third part of
`AnswersAgree`.

### Calls: the base and the ffi reactor

`CallReactorProofs` proves of every operation of the base, for any reactor that extends it, that it leads from a
consistent state to a consistent one; `FfiProofs` proves, for any calls, inner calls, plans and bounds:

| Theorem | Property |
|---|---|
| `FfiTypes` | `Spec => []TypeOK` |
| `Served` | `Spec => []HandlersServed` |
| `Outlives` | `Spec => []NothingOutlives` |

**Assumptions.** Calls are finitely many and no call is an inner call (`CallAssumption`): a load goes through the calls
in some order, which has to exist, and ids of delegations are minted fresh. Inner calls are numbered in the order of
their minting. The bounds of a plan are naturals.

**Argument.** `Consistent` ties the four ends of a delegation together: what the caller's proxy believes, what the call's
status and edges say, what the callee does, and what is in the mail. Its parts are about one call (`CallOk`, `HeldOk`)
or one inner call (`InnerOk`, `Wound`, `AskOk`), and each speaks of which letters are in the mail and which stands ahead
of which: a delegate comes once and ahead of its terminate, an acknowledgement means that the callee is done. Since a
turn touches one call, most operations are a `SteadyBut` step: they leave all calls but one, and the letters of all
others, as they were, and only the one that moves has to be looked at. `FInv` lifts this to two copies of the state:

- `Phases`: the warm state and the rows are both consistent; they are the same outside an open batch, save for what is
  still in memory (held outcomes, staged deliveries, what the transport put in the mail);
- `Route`: the process, what is chained to its promise, and the routes of handlers agree;
- `MailWork`, `Minting`: what is not an event came from the transport, and a token opens one delegation, whatever is
  rolled back;
- `Retiring`: what was delivered to a handler is retired in the rows, not only in memory;
- `Once`: a handler that ran, or is about to, ran for a call whose start is durable; so a reload, which starts nothing,
  and a commit in doubt, which may hand the start over twice, do not run it again;
- `Quieted`: a call with an outcome, held, on its way or told, has no handler at work and none about to start.

A failure or a crash goes back to the rows, and `Phases` is why that is a step into the invariant again.

### The time reactor

`TimeProofs` proves what the run `callers` checks of the time reactor (its parts of `TypeOK`, `CallsKept` and `Driven`
there), for any calls, spans, plans and bounds:

| Theorem | Property of `Time` |
|---|---|
| `TimeTypes` | `TypeOK` |
| `NoSleepEarly` | `NeverEarly` |
| `EachOccurrenceOnce` | `OccurrencesOnce` |
| `OneDelivery` | `Serialized` |
| `DrivenByOne` | `WatchIsDriven` |

**Assumptions.** `TimeAssumption`: a call is of one kind, a span is a natural and the period of a watch is positive (the
reactor refuses others), and a timer's reach (`MaxDelay`) is positive. With it the assumptions of the base.

**Argument.** `TInv` puts on each of the two copies of the state, rows and memory, that it is `Timely`: consistent in the
sense of the base; a sleep that was opened is due when its span is over, and ended no earlier (`SleepOk`); what a watch
delivered and what is due lie on the grid of its period, in order (`TicksOk`, `OnGrid`); a watch has one open delivery at
most, of which the transport knows (`WatchOk`). In memory, an alarm in the mail never rings early (`MailOk`), a timer is
armed for what is due (`TimersOk`), and a watch that runs has exactly one of an armed timer, a ringing alarm, a staged
outcome and an open delivery, unless its start waits for the commit (`MovedOnce`). This is why no occurrence fires twice:
each of the four is handed on to the next within one turn or one effect of a commit, and a failure, which loses all of
them, goes back to rows from which `Rearmed` builds one again. The letters go through the lemmas of the base, which say
of each call whether it stays, winds down or gets a delivery back (`Stays`, `Winds`, `ComesBack`).

### The region reactor

`NurseryProofs` states the invariant of a nursery and proves what each operation of the reactor and each event does to
it; `RegionProofs` adds the scheduled turns, commits, loads and failures. For any forks, fibers, watches, cancels and
rosters, any plan and any bounds:

| Theorem | Property |
|---|---|
| `RegionTypes` | `Spec => []TypeOK` |
| `FibersOfNursery` | `Spec => []FibersKept` |
| `MailboxOfNursery` | `Spec => []MailboxKept` |

**Assumptions.** `RegionAssumption`: a call is of one kind; every inner delegation is one of the provide's; a fork makes
a fiber of its own (`newDelegationId` mints it); a plan speaks of fibers and of calls that there are. With it the
assumptions of the base. That there is one nursery is an assumption of the model: a scope's registry, mailbox and
watches are its own in the code too.

**Argument.** The base knows a call's inner asks by their child. Here an ask is buffered, raised again at one of several
watches, and a failure is an ask of its own. `Plain` maps a nursery to a state of the base: it leaves out the asks, the
relays and the two kinds of letters about them, and takes a fiber that asks for one that runs. So `Consistent(Plain(w))`
is the base's invariant of the life of calls and delegations, and its lemmas are used as they stand; what is said of asks
is this reactor's own. `RInv` consists of:

- `Kept`, of rows and memory alike: the plain state is consistent; a bridge is there for what runs (`Bridged`); a told
  cancel was told the truth (`Truthful`); only a provide holds an outcome (`Childless`); what arrived is in the mailbox
  or was raised, in its order (`InPlace`); what a watch raised dies with it (`Raising`); and the ask of a fiber that runs
  is `Heard` (`AsksKept`);
- `Committed`, of the rows: nothing of the routing, nothing held or staged, and no work in the mail but events. A load
  starts from there;
- `Routed`, of memory: the running set, the waiters and the watches agree with the rows. It is what `recover` builds
  again, and does not hold within a turn: between the drop of a call and `onDropCall` it names calls that are gone
  (`RoutedBut`, `DropCallKeeps`);
- `Due`: with a mailbox and a watch that would take it, a pump is scheduled;
- `WorkOk`, `BatchOk`: what the reactor scheduled for itself had an origin (a start belongs to a call that was made, a
  retirement to a fiber that ended), and a provide that was delegated in this batch has not begun. Without them a stale
  turn could start a call twice or retire a fiber that runs.

`Poised` is what a turn starts from when its letter is out of the mail: the ask it spoke of may be missed for a moment.
`Good` is what it leaves. `MailboxOfNursery` and `FibersOfNursery` are then read off `Kept` and `Routed`.

**Changes the proofs asked for.** A section's program was allowed to ask the user, which no section can: the account of
questions failed on it, and the source agrees (`InSection`). `AuditIsAnswer` held in the model as run but not in general:
with one more dropped event the audit keeps an answer that nobody gets, the divergence of `substrate.ts:351`. In
`CallReactor`, the answer to an ask at a call that was deleted meanwhile did not look the call up first, as the code does
(`OnEscalateAck`). In `Region`, a load read its calls in one order, while the code gets its rows in any; and
two forks could share a fiber, which the code mints for each.

### What is only model-checked

Liveness is beyond the prover: `CallsEnd`, `FollowedEnds`, `ReplayEnds`, `CallsSettle` and `TerminateCompletes`. Of the
safety properties:

- `MCCallers` and `MCAuthorized` put reactors side by side; what is proved of one of them is proved of its module
  (`TimeProofs`). `AnswerIsOwn` of the webhook reactor does not hold for every plan (section 13), and `Http`, `OAuth`,
  `Mcp` and `McpTransport` are next in the plan.
- `Engine`: `TreeKept` and `FinalizersKept` hold of the seven programs, not of all: `Orphans`, `Overtakes`,
  `CatchesItself` and `JumpsTwice` are programs that break a part of them.
- `Ownership`: `ResourcesKept` does not hold for every budget either (`NothingStranded`, section 13). What a sweep
  reaches is a closure computed by iteration, so what it takes for every input is an induction over data.
- `Rows`: a commit and a load are folds over the writes of a batch; that they agree for every batch is an induction
  over data as well.

## 13. Known divergences

Three runs show one each. The others were met the same way, while a property was being written: the property in
the last column, or the scenario if it is none of the modules', fails in the model; the passing runs leave the
case out by a plan or state it as an exemption. `MCEngine` and `MCCallers` have the plans named here.

| Code | What happens | Formula |
|---|---|---|
| `api-reactor.ts:426` | a store write of an abandoned section lands while the next section works (run `api_isolation`) | `SectionIsolation` |
| `api-reactor.ts:441` | a run failed by its store has outcome `error`, its awaiter is told that it was cancelled, or gets a value | `PromiseAgrees` without its exemption |
| `api-reactor.ts:677` | a load drives an open store request again although its first answer is on its way: the earlier write lands over a later one | `ApiReactor!WriteStands` in the plans of the `api` run (`{rd}` with one reload) |
| `api-reactor.ts:638` | when the terminate of an abandoned section is dropped as poison, the reload lifts the fence and the section works on beside the next | `OneSection` without `spent.drops = 0` |
| `api-reactor.ts:699` | the kick of the head section is enqueued without a `catch`: a failure that rejects it is an unhandled rejection, which ends the process | `Substrate!NoUnhandledRejection`, `LoadKind = "command"` |
| `substrate.ts:411` | a load that schedules a turn of its own takes the place of the bounded prefix: the poison event is again behind a good turn, and the replay never ends | `Substrate!ReplayEnds`, `LoadKind = "submit"` |
| `substrate.ts:351` | the turn that fails the run of a dropped event is in memory only: one more failure and the run stays `running` | `Substrate!DroppedRunFails` |
| `project-actor.ts:367` | `context.call` waits in the mailbox, which a failed batch clears; the recovery leaves the handler alone, and it awaits for ever | `Ffi!CallEnds` without `faults = 0` |
| `external-call-reactor.ts:653` | a reply queued while the actor was down and the refusal of `recover` both complete the call: it fails twice | `Ffi!FailsOnce` |
| `snapshot-transport.ts:102` | `abort`, `recover` and deliveries chain to a pending spawn without a handler: a failed spawn can end the process | `Ffi!SpawnFailureContained` |
| `thread-ops.ts:1133` | `next` frees the handler slot before the body is gone: a request overtakes those that queue | `SerialFifo`, plan `Overtakes` |
| `thread-ops.ts:1056` | a body that is being torn down after `next` has its requests caught by its own handle | `NoSelfCatch`, plan `CatchesItself` |
| `thread-ops.ts:1128` | two `next`s of parallel elements of one body: the second hits an assertion and throws out of the turn | `NoEngineFault`, plan `JumpsTwice` |
| `thread-ops.ts:1008` | a handle completes with its body although a handler still runs: finalizers run beside it | `FinalizersLast`, plan `Orphans` |
| `common.ts:165` | a finalizer's panic in a termination goes to a summoner that ignores it: the termination never completes | `TerminateCompletes`, plan `FinalizerFails` |
| `core-reactor.ts:288` | a result refused by the output schema becomes a panic at a proxy whose delegation is retired: a later cancel waits for an ack that finds no row | `TerminateCompletes`, plan `ResultRefused` |
| `execution.ts:82`, `api-reactor.ts:357` | a failed run deletes its delegation row while the callee lives: after a reload core acknowledges the terminate as if it were gone and leaves it running (run `rows_setnull`) | `OutlivedByDelegation` |
| `api-reactor.ts:357` | a run that is started and failed (or a section spawned and abandoned) in one batch: the envelope of its instance names a delegation that was never inserted, and the deferred key refuses the batch | `Commits` without `Abandoned` |
| `gc.ts:97` | an owner sweeps a scope that a closure held by the instance it called captures (run `ownership_sweep`) | `HeldOnly` |
| `gc.ts:97` | an owner sweeps a scope in which a closure is being carried up: the nested scope that the closure captures stays in transit and belongs to nobody | `NothingStranded`, a budget of two asks, two closures, a handler and a cancel |
| `core-reactor.ts:463` | a turn writes through a borrowed scope, but flushes its own only | `Ownership!TouchedIsFlushed` |
| `gc.ts:133` | the values a `forever` carries and a pending jump's value are not among the roots | `EnvironmentsKept` without `astray` |
| `persistence-codec.ts:292` | the next scope id is computed from the rows of the loaded scopes: an id still named elsewhere may come again | |
| `facade.ts:491` | a registration whose commit is in doubt is taken as failed and its bytes are deleted, though the row may be there | |
| `region-reactor.ts:903` | the continuation's outcome is in memory between two turns: a reload loses it and the provide never settles | |
| `region-reactor.ts:927` | a `cancel_by_id` from outside a nursery that ends meanwhile waits for ever | |
| `region-reactor.ts:932` | a crash leaves the name of a settled fiber in the provide's row | |
| `region-reactor.ts:995` | an ask sent before its fiber was cancelled is still raised at the watch | |
| `webhook-reactor.ts:166` | deliveries are numbered from 1 again after a restart: an old outcome answers a new request | `Webhook!AnswerIsOwn`, plan `CrashingEndpoint` |
| `substrate.ts:440` | a failed batch clears the turns of a delivery: its HTTP request is never answered | `Webhook!RequestAnswered` with a fault |
| `webhook-reactor.ts:215` | a reload before the subscriber's delegation is opened, or after its outcome was scheduled, loses it | `Webhook!EndpointSettled` with a fault |
| `project-actor.ts:255` | a download whose call is gone at registration leaves bytes behind, or takes the bytes of a row that was committed in doubt | `Http!NoOrphanBytes` beyond its plan |
| `mcp-reactor.ts:1237` | a tool call in flight over a reset is reloaded without its dispatch: when it parks, its answer only throws after the commit | `Mcp!ParkIsRerunnable`, with a fault |
| `mcp-reactor.ts:1085` | a call that was cancelled or failed while its arguments were read still reaches the server | `Mcp!DeadCallStaysHome` |
| `mcp-reactor.ts:1144` | the continuation's outcome is in memory between two turns (as in region) | `Mcp!EndsOrAsks` with a fault |
| `oauth-reactor.ts:115` | `recover` resolves again beside the resolution in flight: the call parks twice, one ask stays open | `OAuth!OneAsk`, with a fault |
| `authorization-flow.ts:446` | asks are listed once, after the deposit: a call that read the store before and asks after waits for another login | `OAuth!AskAnswered` |
| `credentials.ts:292` | a resolution that loaded before a refresh ended starts a second grant with the spent refresh token | `NobodyIsAsked` with two operations |
| `facade.ts:226` | the mcp transport and the oauth reactor have a store instance each, and refresh side by side | `OneGrant` |
| `mcp-transport.ts:488` | the hint of a 401 is the newest client's token, which may be fresh | `McpTransport!HintIsRejected` |

## 14. Not modelled

- Values: primitives, schemas, codecs, sealing of secrets; which request a name resolves to is a choice.
- In calls: several snapshots side by side, framing of the pipes, the endpoints of `mcp.serve` (as those of
  `Webhook`), several credentials at once.
- In rows: the rows of reactors other than api, core and one call reactor; projections and the module tables.
- I/O: `fetch`, timers, the pipes, the bytes; what they promise their reactor is in its module.
- The instance lock: every module has one process. Eviction of idle actors.
- REST handlers and front ends, which keep no state of their own; the compiler, a pure function of its input; the
  dependency resolution of the project tool, which is in the plan.
- Lengths of time: a pending backoff may end at any moment; only `Time` has a clock.
