------------------------------ MODULE Substrate ------------------------------
(***************************************************************************)
(* The bus of one project actor (runtime/actor/substrate.ts): the serial   *)
(* mailbox, the lazy load gate, the react loop that folds turns into one   *)
(* batch, the single atomic commit per batch, and what happens when a      *)
(* turn, a commit or a load fails.                                         *)
(*                                                                         *)
(* What a turn computes is abstracted to the events it sends (Sends) and   *)
(* to the fact that it ran (its place in warm / history): the reactors are *)
(* modelled elsewhere.  Events are identified by their production, so an   *)
(* event sent again by a replay of its sender is the same Event: a row of  *)
(* the rolled-back attempt never existed for anybody to see.               *)
(***************************************************************************)
EXTENDS Naturals, FiniteSets, SequencesExt

CONSTANTS
  Event,            \* external events, each sent by at most one turn
  Command,          \* api commands: an awaiter is settled after the commit
  Completion,       \* originated work with no awaiter (FFI completion, timer, delivery)
  Run,              \* runs, the trace context every event carries
  RunOf,            \* [Event -> Run]: event.run
  Sends,            \* [Turn -> Seq(Event)]: what a turn's react sends, in order
  Poison,           \* turns whose react throws deterministically (a bug)
  Opens,            \* turns that open work every later load schedules a turn for
  LoadKind,         \* how a load schedules that turn: "none", "submit" or "command"
  MaxBatchTurns,    \* MAX_BATCH_TURNS
  MaxCommitRetries, \* MAX_COMMIT_RETRIES
  MaxFaults,        \* bound: transient failures of the infrastructure
  MaxCrashes        \* bound: process crashes

EventTurn(e)      == [kind |-> "event", id |-> e]
CommandTurn(c)    == [kind |-> "command", id |-> c]
CompletionTurn(k) == [kind |-> "completion", id |-> k]
FailTurn(r)       == [kind |-> "fail", id |-> r]
LoadTurn          == [kind |-> "load", id |-> "load"]

Turn == {EventTurn(e) : e \in Event} \cup {CommandTurn(c) : c \in Command}
          \cup {CompletionTurn(k) : k \in Completion}
          \cup {FailTurn(r) : r \in Run} \cup {LoadTurn}

ASSUME SendsAssumption ==
  /\ Sends \in [Turn -> Seq(Event)]
  /\ Sends[LoadTurn] = << >>
ASSUME FreshEvents ==
  \A t, u \in Turn : \A i \in DOMAIN Sends[t], j \in DOMAIN Sends[u] :
     Sends[t][i] = Sends[u][j] => t = u /\ i = j
ASSUME EventAssumption == IsFiniteSet(Event)
ASSUME RunAssumption == RunOf \in [Event -> Run]
ASSUME PoisonAssumption ==
  Poison \subseteq {t \in Turn : t.kind \in {"event", "command", "completion"}}
ASSUME OpensAssumption == Opens \subseteq Turn
ASSUME LoadKindAssumption == LoadKind \in {"none", "submit", "command"}
ASSUME BoundsAssumption ==
  /\ MaxBatchTurns \in Nat \ {0}
  /\ MaxCommitRetries \in Nat
  /\ MaxFaults \in Nat
  /\ MaxCrashes \in Nat

-----------------------------------------------------------------------------
VARIABLES
  \* durable
  outbox,     \* events with an outbox row
  ordinal,    \* the bigserial value of each event's row
  history,    \* turns whose effects the committed rows hold, in order
  journal,    \* the run-trace journal, in order
  dead,       \* events consumed without having been processed
  \* in the process
  mailbox,    \* the serial inbox
  pump,       \* where the serial loop stands
  limit,      \* the turn bound of the current batch
  loaded,     \* whether warm was rebuilt from the durable rows
  warm,       \* turns the reactors' warm state reflects, in order
  batch,      \* what the current batch has accumulated
  doomed,     \* the event being consumed as dead
  retries,    \* commitRetries, by origin event
  timers,     \* pending backoff delays, each ending in a pump
  promise,    \* the awaiter of each command
  submitted,  \* completions that have arrived
  notified,   \* events whose afterCommit ran
  unhandled,  \* a promise without a handler was rejected: Node ends the process
  \* budgets
  faults, crashes

durable == <<outbox, ordinal, history, journal, dead>>
process == <<mailbox, pump, limit, loaded, warm, batch, doomed, retries, timers>>
callers == <<promise, submitted, notified, unhandled>>
budgets == <<faults, crashes>>
vars == <<durable, process, callers, budgets>>

NoBatch == [position |-> 0, consumed |-> << >>, pending |-> {},
            journal |-> << >>, afterCommits |-> {}, settles |-> {}]

Init ==
  /\ outbox = {} /\ ordinal = [e \in Event |-> 0]
  /\ history = << >> /\ journal = << >> /\ dead = {}
  /\ mailbox = << >> /\ pump = "idle" /\ limit = MaxBatchTurns
  /\ loaded = FALSE /\ warm = << >> /\ batch = NoBatch /\ doomed = {}
  /\ retries = [e \in Event |-> 0] /\ timers = 0
  /\ promise = [c \in Command |-> "none"]
  /\ submitted = {} /\ notified = {} /\ unhandled = FALSE
  /\ faults = 0 /\ crashes = 0

Fault == faults < MaxFaults /\ faults' = faults + 1

-----------------------------------------------------------------------------
(* Getting work into the mailbox.                                          *)

\* pump() with no batch bound; a no-op while another pump drains the mailbox.
Wake ==
  /\ pump' = IF pump = "idle" THEN "loading" ELSE pump
  /\ limit' = IF pump = "idle" THEN MaxBatchTurns ELSE limit

EnqueueCommand(c) ==
  /\ pump # "exited"
  /\ promise[c] = "none"
  /\ promise' = [promise EXCEPT ![c] = "pending"]
  /\ mailbox' = Append(mailbox, CommandTurn(c))
  /\ Wake
  /\ UNCHANGED <<durable, loaded, warm, batch, doomed, retries, timers,
                 submitted, notified, unhandled, budgets>>

Submit(k) ==
  /\ pump # "exited"
  /\ k \notin submitted
  /\ submitted' = submitted \cup {k}
  /\ mailbox' = Append(mailbox, CompletionTurn(k))
  /\ Wake
  /\ UNCHANGED <<durable, loaded, warm, batch, doomed, retries, timers,
                 promise, notified, unhandled, budgets>>

\* A use of a dormant project that brings no work of its own.
Activate ==
  /\ pump = "idle" /\ ~loaded
  /\ Wake
  /\ UNCHANGED <<durable, mailbox, loaded, warm, batch, doomed, retries, timers,
                 callers, budgets>>

BackoffElapsed ==
  /\ pump # "exited"
  /\ timers > 0 /\ timers' = timers - 1
  /\ Wake
  /\ UNCHANGED <<durable, mailbox, loaded, warm, batch, doomed, retries, callers, budgets>>

-----------------------------------------------------------------------------
(* Failure: reject what waits, forget what is not durable.                 *)

\* The load turn of kind "command" is enqueued with `void`, so nobody handles
\* its rejection (api-reactor.ts:699).
Unhandled(turns) == LoadKind = "command" /\ LoadTurn \in turns

Reject(turns) ==
  /\ promise' = [c \in Command |-> IF CommandTurn(c) \in turns THEN "rejected" ELSE promise[c]]
  /\ unhandled' = (unhandled \/ Unhandled(turns))

\* Mutants: the actor still counts as loaded; the discarded mailbox survives;
\* only the batch's own awaiters are rejected.
DropWarm_StaysLoaded(turns, queue, next) ==
  /\ Reject(turns \cup batch.settles \cup ToSet(mailbox))
  /\ mailbox' = queue /\ batch' = NoBatch /\ doomed' = {}
  /\ pump' = IF unhandled' THEN "exited" ELSE next
  /\ UNCHANGED <<loaded, warm, submitted, notified>>

DropWarm_KeepsMailbox(turns, queue, next) ==
  /\ Reject(turns \cup batch.settles \cup ToSet(mailbox))
  /\ mailbox' = mailbox \o queue /\ loaded' = FALSE /\ batch' = NoBatch /\ doomed' = {}
  /\ pump' = IF unhandled' THEN "exited" ELSE next
  /\ UNCHANGED <<warm, submitted, notified>>

DropWarm_ForgetsCallers(turns, queue, next) ==
  /\ Reject(turns \cup batch.settles)
  /\ mailbox' = queue /\ loaded' = FALSE /\ batch' = NoBatch /\ doomed' = {}
  /\ pump' = IF unhandled' THEN "exited" ELSE next
  /\ UNCHANGED <<warm, submitted, notified>>

\* Everything that was queued or batched is rejected; `queue` is what the
\* mailbox holds afterwards, `next` where the loop goes on.
DropWarm(turns, queue, next) ==
  /\ Reject(turns \cup batch.settles \cup ToSet(mailbox))
  /\ mailbox' = queue
  /\ loaded' = FALSE
  /\ batch' = NoBatch
  /\ doomed' = {}
  /\ pump' = IF unhandled' THEN "exited" ELSE next
  /\ UNCHANGED <<warm, submitted, notified>>

Reload(turns, nextBatchLimit) ==
  /\ DropWarm(turns, << >>, "loading")
  /\ limit' = nextBatchLimit
  /\ UNCHANGED <<retries, timers>>

\* Mutant: one retry more than MAX_COMMIT_RETRIES.
RetryableFailure_OneTooMany(turns, consumed) ==
  IF consumed = << >>
  THEN Reload(turns, MaxBatchTurns)
  ELSE /\ DropWarm(turns, << >>, "idle")
       /\ IF retries[consumed[1]] <= MaxCommitRetries
          THEN /\ retries' = [retries EXCEPT ![consumed[1]] = @ + 1]
               /\ timers' = timers + 1
          ELSE /\ retries' = [retries EXCEPT ![consumed[1]] = 0]
               /\ UNCHANGED timers
       /\ UNCHANGED limit

RetryableFailure(turns, consumed) ==
  IF consumed = << >>
  THEN Reload(turns, MaxBatchTurns)
  ELSE LET origin   == consumed[1]
           attempts == retries[origin] + 1
       IN /\ DropWarm(turns, << >>, "idle")
          /\ IF attempts <= MaxCommitRetries
             THEN /\ retries' = [retries EXCEPT ![origin] = attempts]
                  /\ timers' = timers + 1
             ELSE /\ retries' = [retries EXCEPT ![origin] = 0]
                  /\ UNCHANGED timers
          /\ UNCHANGED limit

-----------------------------------------------------------------------------
(* Loading.                                                                *)

SkipLoad ==
  /\ pump = "loading" /\ loaded
  /\ pump' = "reacting"
  /\ UNCHANGED <<durable, mailbox, limit, loaded, warm, batch, doomed, retries, timers,
                 callers, budgets>>

\* The reactors rebuild their warm state from the rows; open work may schedule a turn.
LoadReactors ==
  /\ pump = "loading" /\ ~loaded
  /\ warm' = history
  /\ mailbox' = IF LoadKind # "none" /\ ToSet(history) \cap Opens # {}
                THEN Append(mailbox, LoadTurn) ELSE mailbox
  /\ pump' = "replaying"
  /\ UNCHANGED <<durable, limit, loaded, batch, doomed, retries, timers, callers, budgets>>

\* Mutant: the undrained rows are read without ORDER BY.
InOrdinalOrder_Any(s) == Len(s) = Cardinality(outbox)

InOrdinalOrder(s) == \A i, j \in DOMAIN s : i < j => ordinal[s[i]] < ordinal[s[j]]

EventTurns(s) == [i \in 1..Len(s) |-> EventTurn(s[i])]

ReplayOutbox ==
  /\ pump = "replaying"
  /\ \E s \in SetToSeqs(outbox) :
       /\ InOrdinalOrder(s)
       /\ mailbox' = mailbox \o EventTurns(s)
  /\ loaded' = TRUE
  /\ pump' = "reacting"
  /\ UNCHANGED <<durable, limit, warm, batch, doomed, retries, timers, callers, budgets>>

LoadFails ==
  /\ pump \in {"loading", "replaying"} /\ ~loaded
  /\ Fault
  /\ Reject(ToSet(mailbox))
  /\ mailbox' = << >>
  /\ pump' = IF unhandled' THEN "exited" ELSE "idle"
  /\ UNCHANGED <<durable, limit, loaded, warm, batch, doomed, retries, timers,
                 submitted, notified, crashes>>

-----------------------------------------------------------------------------
(* The react loop.                                                         *)

Ready == pump = "reacting" /\ mailbox # << >> /\ batch.position < limit

\* Mutant: an in-batch event is taken for a durable row.
Shifted_NoCancel(t) ==
  IF t.kind # "event" THEN batch ELSE [batch EXCEPT !.consumed = Append(@, t.id)]

\* An event of this very batch has no row: consuming it cancels its produce.
Shifted(t) ==
  IF t.kind # "event" THEN batch
  ELSE IF t.id \in batch.pending
       THEN [batch EXCEPT !.pending = @ \ {t.id}]
       ELSE [batch EXCEPT !.consumed = Append(@, t.id)]

\* failRun leaves a run that already failed alone; the scheduled load turn
\* finds its work already under way.
Effective(t) == t.kind # "load" /\ (t.kind = "fail" => t \notin ToSet(warm))

React ==
  /\ Ready
  /\ LET t     == Head(mailbox)
         b     == Shifted(t)
         sends == IF Effective(t) THEN Sends[t] ELSE << >>
     IN /\ t \notin Poison
        /\ warm' = IF Effective(t) THEN Append(warm, t) ELSE warm
        /\ mailbox' = Tail(mailbox) \o EventTurns(sends)
        /\ batch' = [b EXCEPT !.position = @ + 1,
                              !.pending = @ \cup ToSet(sends),
                              !.journal = @ \o sends,
                              !.afterCommits = @ \cup (IF t.kind = "event" THEN {t.id} ELSE {}),
                              !.settles = @ \cup (IF t.kind = "event" THEN {} ELSE {t})]
  /\ UNCHANGED <<durable, pump, limit, loaded, doomed, retries, timers, callers, budgets>>

\* Mutant: the replay is not cut down to the good prefix.
MidBatchFailure_NoPrefix ==
  /\ Ready /\ batch.position > 0
  /\ \/ Head(mailbox) \in Poison /\ UNCHANGED faults
     \/ Head(mailbox) \notin Poison /\ Fault
  /\ Reload({}, MaxBatchTurns)
  /\ UNCHANGED <<durable, crashes>>

\* A throw behind the first turn: drop everything, replay the good prefix alone.
MidBatchFailure ==
  /\ Ready /\ batch.position > 0
  /\ \/ Head(mailbox) \in Poison /\ UNCHANGED faults
     \/ Head(mailbox) \notin Poison /\ Fault
  /\ Reload({}, batch.position)
  /\ UNCHANGED <<durable, crashes>>

\* A transient throw of the first turn goes the way of a failed commit.
TransientReactFailure ==
  /\ Ready /\ batch.position = 0
  /\ Head(mailbox) \notin Poison
  /\ Fault
  /\ RetryableFailure({}, Shifted(Head(mailbox)).consumed)
  /\ UNCHANGED <<durable, crashes>>

\* Mutant: a transient throw is taken for a deterministic one.
ReactFailure_AnyThrow ==
  /\ Ready /\ batch.position = 0
  /\ (Head(mailbox) \in Poison /\ UNCHANGED faults) \/ Fault
  /\ IF Head(mailbox).kind = "event"
     THEN /\ pump' = "deadEvent"
          /\ doomed' = {Head(mailbox).id}
          /\ mailbox' = Tail(mailbox)
          /\ warm' = Append(warm, Head(mailbox))
          /\ UNCHANGED <<limit, loaded, batch, retries, timers, callers>>
     ELSE Reload({}, MaxBatchTurns)
  /\ UNCHANGED <<durable, crashes>>

\* A deterministic throw of the first turn: an originated turn is dropped, an
\* event is first consumed as dead (ConsumeDeadEvent).
ReactFailure ==
  /\ Ready /\ batch.position = 0
  /\ Head(mailbox) \in Poison
  /\ IF Head(mailbox).kind = "event"
     THEN /\ pump' = "deadEvent"
          /\ doomed' = {Head(mailbox).id}
          /\ mailbox' = Tail(mailbox)
          /\ warm' = Append(warm, Head(mailbox))
          /\ UNCHANGED <<limit, loaded, batch, retries, timers, callers>>
     ELSE Reload({}, MaxBatchTurns)
  /\ UNCHANGED <<durable, budgets>>

\* Consume the dead row in a commit of its own (which may fail: the row then
\* survives), drop the warm state and enqueue the failure of the event's run.
ConsumeDeadEvent ==
  /\ pump = "deadEvent"
  /\ \/ /\ outbox' = outbox \ doomed
        /\ dead' = dead \cup doomed
        /\ retries' = [e \in Event |-> IF e \in doomed THEN 0 ELSE retries[e]]
        /\ UNCHANGED faults
     \/ Fault /\ UNCHANGED <<outbox, dead, retries>>
  /\ \E e \in doomed : DropWarm({}, <<FailTurn(RunOf[e])>>, "loading")
  /\ limit' = MaxBatchTurns
  /\ UNCHANGED <<ordinal, history, journal, timers, crashes>>

-----------------------------------------------------------------------------
(* The commit.                                                             *)

GoIdle ==
  /\ pump = "reacting" /\ mailbox = << >> /\ batch.position = 0
  /\ pump' = "idle"
  /\ UNCHANGED <<durable, mailbox, limit, loaded, warm, batch, doomed, retries, timers,
                 callers, budgets>>

EndReactLoop ==
  /\ pump = "reacting" /\ batch.position > 0
  /\ mailbox = << >> \/ batch.position >= limit
  /\ pump' = "committing"
  /\ UNCHANGED <<durable, mailbox, limit, loaded, warm, batch, doomed, retries, timers,
                 callers, budgets>>

Place(e) == CHOOSE i \in DOMAIN batch.journal : batch.journal[i] = e

\* Mutants: the consumed rows stay; only events with a row are journaled.
CommitBatch_KeepsConsumed ==
  /\ history' = warm
  /\ outbox' = outbox \cup batch.pending
  /\ ordinal' = [e \in Event |-> IF e \in batch.pending THEN Len(journal) + Place(e)
                                                        ELSE ordinal[e]]
  /\ journal' = journal \o batch.journal
  /\ UNCHANGED dead

CommitBatch_JournalsRows ==
  /\ history' = warm
  /\ outbox' = (outbox \ ToSet(batch.consumed)) \cup batch.pending
  /\ ordinal' = [e \in Event |-> IF e \in batch.pending THEN Len(journal) + Place(e)
                                                        ELSE ordinal[e]]
  /\ journal' = journal \o SelectSeq(batch.journal, LAMBDA e : e \in batch.pending)
  /\ UNCHANGED dead

\* One transaction: the reactors' rows, the consumed and the produced outbox
\* rows, the journal.  Rows are inserted in production order.
CommitBatch ==
  /\ history' = warm
  /\ outbox' = (outbox \ ToSet(batch.consumed)) \cup batch.pending
  /\ ordinal' = [e \in Event |-> IF e \in batch.pending THEN Len(journal) + Place(e)
                                                        ELSE ordinal[e]]
  /\ journal' = journal \o batch.journal
  /\ UNCHANGED dead

CommitSucceeds ==
  /\ pump = "committing"
  /\ CommitBatch
  /\ retries' = [e \in Event |-> IF e \in ToSet(batch.consumed) THEN 0 ELSE retries[e]]
  /\ pump' = "committed"
  /\ UNCHANGED <<mailbox, limit, loaded, warm, batch, doomed, timers, callers, budgets>>

\* Mutant: the error is swallowed and the batch taken for durable.
CommitFails_Swallowed ==
  /\ pump = "committing" /\ pump' = "committed"
  /\ Fault
  /\ UNCHANGED <<durable, mailbox, limit, loaded, warm, batch, doomed, retries, timers,
                 callers, crashes>>

\* Rolled back, or committed with the answer lost: the process cannot tell.
CommitFails ==
  /\ pump = "committing"
  /\ Fault
  /\ CommitBatch \/ UNCHANGED durable
  /\ RetryableFailure({}, batch.consumed)
  /\ UNCHANGED crashes

\* The post-commit side effects; a throwing one is only logged.
AfterCommit ==
  /\ pump = "committed"
  /\ \/ notified' = notified \cup batch.afterCommits /\ UNCHANGED faults
     \/ \E e \in batch.afterCommits :
          Fault /\ notified' = notified \cup (batch.afterCommits \ {e})
  /\ promise' = [c \in Command |-> IF CommandTurn(c) \in batch.settles THEN "resolved"
                                                                       ELSE promise[c]]
  /\ batch' = NoBatch
  /\ limit' = MaxBatchTurns
  /\ pump' = "reacting"
  /\ UNCHANGED <<durable, mailbox, loaded, warm, doomed, retries, timers,
                 submitted, unhandled, crashes>>

-----------------------------------------------------------------------------
(* The process.                                                            *)

\* Nothing in memory survives the process, its callers included.
Wipe ==
  /\ mailbox' = << >> /\ limit' = MaxBatchTurns
  /\ loaded' = FALSE /\ warm' = << >> /\ batch' = NoBatch /\ doomed' = {}
  /\ retries' = [e \in Event |-> 0] /\ timers' = 0
  /\ promise' = [c \in Command |-> IF promise[c] = "pending" THEN "lost" ELSE promise[c]]
  /\ unhandled' = FALSE
  /\ UNCHANGED <<durable, submitted, notified>>

Crash ==
  /\ pump # "exited" /\ pump' = "exited"
  /\ crashes < MaxCrashes /\ crashes' = crashes + 1
  /\ Wipe
  /\ UNCHANGED faults

\* A new process (activateInFlightProjects).
Boot ==
  /\ pump = "exited" /\ pump' = "loading"
  /\ Wipe
  /\ UNCHANGED budgets

\* The steps of the serial loop and of the process that runs it.
LoopStep ==
  \/ SkipLoad \/ LoadReactors \/ ReplayOutbox
  \/ React \/ MidBatchFailure \/ ReactFailure \/ ConsumeDeadEvent
  \/ GoIdle \/ EndReactLoop \/ CommitSucceeds \/ AfterCommit
  \/ BackoffElapsed \/ Boot

Next ==
  \/ LoopStep
  \/ LoadFails \/ TransientReactFailure \/ CommitFails
  \/ Activate \/ Crash
  \/ \E c \in Command : EnqueueCommand(c)
  \/ \E k \in Completion : Submit(k)

Spec == Init /\ [][Next]_vars
FairSpec == Spec /\ WF_vars(LoopStep)
-----------------------------------------------------------------------------
(* Properties.                                                             *)

PumpState == {"idle", "loading", "replaying", "reacting", "committing", "committed",
              "deadEvent", "exited"}

\* Every variable holds a value of its kind, and the batch stays within its bound.
TypeOK ==
  /\ outbox \subseteq Event /\ ordinal \in [Event -> Nat]
  /\ history \in Seq(Turn) /\ journal \in Seq(Event) /\ dead \subseteq Event
  /\ mailbox \in Seq(Turn) /\ pump \in PumpState /\ limit \in Nat \ {0}
  /\ loaded \in BOOLEAN /\ warm \in Seq(Turn)
  /\ batch \in [position : Nat, consumed : Seq(Event), pending : SUBSET Event,
                 journal : Seq(Event), afterCommits : SUBSET Event, settles : SUBSET Turn]
  /\ doomed \subseteq Event
  /\ retries \in [Event -> 0..MaxCommitRetries] /\ timers \in Nat
  /\ promise \in [Command -> {"none", "pending", "resolved", "rejected", "lost"}]
  /\ submitted \subseteq Completion /\ notified \subseteq Event
  /\ unhandled \in BOOLEAN
  /\ faults \in 0..MaxFaults /\ crashes \in 0..MaxCrashes

\* What the events of a durable history are: those its turns sent.
SentBy(turns) == UNION {ToSet(Sends[t]) : t \in turns}
HandledBy(turns) == {e \in Event : EventTurn(e) \in turns}
Handled == HandledBy(ToSet(history))

\* Exactly once: whatever batches roll back, are answered ambiguously or replay
\* after a crash, no turn's effects are in the committed rows twice.
AppliedOnce == IsInjective(history)

\* No event is lost or conjured: an event sent by a committed turn is either
\* still an outbox row, or committed as handled, or was consumed as dead, and
\* never two of these.
NothingLost ==
  /\ SentBy(ToSet(history)) = outbox \cup Handled \cup dead
  /\ outbox \cap Handled = {} /\ outbox \cap dead = {} /\ Handled \cap dead = {}

\* No lost wake-up: while the actor is loaded every outbox row has its turn in
\* the mailbox or in the batch under way, so no row waits for a restart.
EveryRowScheduled ==
  loaded /\ pump # "exited" =>
    \A e \in outbox : \/ EventTurn(e) \in ToSet(mailbox)
                      \/ e \in ToSet(batch.consumed)
                      \/ e \in doomed

\* A command's awaiter hears of success only once its effects are durable.
ResolvedIsDurable ==
  \A c \in Command : promise[c] = "resolved" => CommandTurn(c) \in ToSet(history)

\* The run trace holds exactly the events of the committed turns, in the order
\* those turns sent them: also those that never touched the outbox.
JournalIsTrace ==
  /\ ToSet(journal) = SentBy(ToSet(history))
  /\ IsInjective(journal)

\* Events take effect in the order in which they were sent, over batch seams,
\* replays and restarts.
HandledInOrder ==
  \A i, j \in DOMAIN history : \A k, l \in DOMAIN journal :
    /\ i < j /\ history[i] = EventTurn(journal[k]) /\ history[j] = EventTurn(journal[l])
    => k < l

\* Side effects run for committed work only.
NotifiedIsDurable == notified \subseteq Handled

\* Only a deterministic throw costs an event: no transient failure, and no
\* poison elsewhere in its batch, makes the bus discard it.
OnlyPoisonDropped == \A e \in dead : EventTurn(e) \in Poison

\* The warm store runs ahead of the rows only inside an open batch.
WarmIsDurable ==
  loaded /\ (pump = "idle" \/ (pump = "reacting" /\ batch.position = 0)) => warm = history

\* Why the above holds: how the mailbox, the open batch and the warm store
\* relate to the committed rows at every point of the loop.
LoopShape ==
  /\ pump \in {"reacting", "committing", "committed", "deadEvent"} => loaded
  /\ pump = "replaying" => ~loaded
  /\ pump \notin {"reacting", "committing", "committed"} => batch.position = 0
  /\ batch.position = 0 => batch = NoBatch
  /\ pump \in {"committing", "committed"} => batch.position > 0
  /\ IF pump = "deadEvent"
     THEN \E e \in outbox : doomed = {e} /\ EventTurn(e) \in Poison
     ELSE doomed = {}

RowsConsistent ==
  /\ AppliedOnce /\ NothingLost /\ JournalIsTrace /\ OnlyPoisonDropped
  /\ ToSet(history) \cap Poison = {}

\* The turns that are issued at most once; the others find nothing left to do.
OnceKind == {"event", "command", "completion"}
WarmValid == loaded /\ pump # "deadEvent"

\* Only what a caller issued is anywhere in the system.
Issued(turns) ==
  /\ \A c \in Command : CommandTurn(c) \in turns => promise[c] # "none"
  /\ \A k \in Completion : CompletionTurn(k) \in turns => k \in submitted

OnceEach(s) == \A i, j \in DOMAIN s : s[i] = s[j] /\ s[i].kind \in OnceKind => i = j

FreshTurns ==
  /\ OnceEach(mailbox)
  /\ \A t \in ToSet(mailbox) : t.kind \in OnceKind =>
       t \notin ToSet(history) /\ (WarmValid => t \notin ToSet(warm))
  /\ Issued(ToSet(mailbox) \cup ToSet(history))
  /\ WarmValid => Issued(ToSet(warm))

WarmAhead ==
  /\ pump = "replaying" => warm = history
  /\ WarmValid =>
       /\ IsInjective(warm)
       /\ ToSet(warm) \cap Poison = {}
       /\ ToSet(history) \subseteq ToSet(warm)
       /\ batch.position = 0 \/ pump = "committed" => warm = history

MailEvents == HandledBy(ToSet(mailbox))

BatchAccount ==
  /\ batch.pending \subseteq ToSet(batch.journal)
  /\ WarmValid /\ pump # "committed" =>
       /\ ToSet(batch.consumed) \subseteq outbox
       /\ IsInjective(batch.journal)
       /\ ToSet(batch.journal) \cap ToSet(journal) = {}
       /\ SentBy(ToSet(warm)) = SentBy(ToSet(history)) \cup ToSet(batch.journal)
       /\ HandledBy(ToSet(warm)) =
            Handled \cup ToSet(batch.consumed) \cup (ToSet(batch.journal) \ batch.pending)

MailAccount ==
  MailEvents = IF ~loaded THEN {}
               ELSE IF pump = "deadEvent" THEN outbox \ doomed
               ELSE IF pump = "committed" THEN outbox
               ELSE (outbox \ ToSet(batch.consumed)) \cup batch.pending

SettleAccount ==
  /\ ResolvedIsDurable /\ NotifiedIsDurable
  /\ WarmValid =>
       /\ \A c \in Command :
            CommandTurn(c) \in batch.settles => CommandTurn(c) \in ToSet(warm)
       /\ batch.afterCommits \subseteq HandledBy(ToSet(warm))

BusInv == /\ TypeOK /\ LoopShape /\ RowsConsistent /\ FreshTurns /\ WarmAhead
          /\ BatchAccount /\ MailAccount /\ SettleAccount

\* The durable rows implement EventDelivery: a batch is one step of it, and
\* every failure, replay and restart is invisible.
Delivery == INSTANCE EventDelivery WITH
  TurnOf <- [e \in Event |-> EventTurn(e)],
  done   <- ToSet(history),
  sent   <- ToSet(journal)
DeliverySpec == Delivery!Spec

\* No promise nobody handles is rejected (substrate.ts:198 says of a commit or
\* load error that it "is never an unhandled rejection").
NoUnhandledRejection == ~unhandled

\* A run whose event was dropped as dead is failed, or its failure is queued
\* (substrate.ts:71: "so the run does not hang unobserved").
DroppedRunFails ==
  pump # "exited" =>
  \A e \in dead : FailTurn(RunOf[e]) \in ToSet(warm) \cup ToSet(mailbox)

\* The actor has given up until somebody uses the project again.
Dormant == pump = "idle" /\ ~loaded /\ timers = 0

\* Every outbox row is eventually consumed, unless the actor goes dormant: the
\* replays that follow a failure come to an end (substrate.ts:401 "bounded").
ReplayEnds == \A e \in Event : e \in outbox ~> e \notin outbox \/ Dormant

\* No caller of a command waits for ever.
CallsSettle == \A c \in Command : promise[c] = "pending" ~> promise[c] # "pending"
=============================================================================
