----------------------------- MODULE ApiReactor -----------------------------
(***************************************************************************)
(* The management end of the bus (api-reactor.ts over reactor.ts): runs    *)
(* and their outcomes, the questions a run leaves open for a user, the     *)
(* store requests answered outside the serial loop, and the project-wide   *)
(* FIFO of critical sections (`store.exclusive`).                          *)
(*                                                                         *)
(* A delegation is a path: <<r>> is the run's own, <<r, k>> the section of *)
(* its k-th request.  A request is the path of its raiser and its place in *)
(* the raiser's program, so the section of an exclusive has its name.  One *)
(* turn is one commit; Core stands for the reactors below.                 *)
(***************************************************************************)
EXTENDS Integers, Sequences, FiniteSets, SequencesExt

CONSTANTS
  Runs,
  Program,      \* what each run raises in turn: [kind, wait, body]
  Answers,      \* what a user may answer
  Plans         \* bounds: what may happen in one behaviour, one record each

\* The runs that are started, how often the warm state is dropped, a poisonous
\* event dropped, a cancel or an answer commanded, whether store rows may fail,
\* and the run or section whose end it is about.
ASSUME ApiBounds ==
  \A p \in Plans :
    /\ p.runs \subseteq Runs /\ p.storeFails \in BOOLEAN /\ p.follow \in Seq(Runs \cup Nat)
    /\ {p.reloads, p.drops, p.cancels, p.answers} \subseteq Nat

Kinds == {"store", "user", "failure", "exclusive"}
\* The row of a section is fixed to the store operations: it asks no user.
InSection == [kind : Kinds \ {"user"}, wait : BOOLEAN, body : {<<>>}]
InRun == [kind : Kinds, wait : BOOLEAN, body : Seq(InSection)]
ASSUME ProgramAssumption == Program \in [Runs -> Seq(InRun)]

VARIABLES
  api,      \* the reactor; rows, queue and run are durable too, and equal after a commit
  promise,  \* the in-process result of each run
  loaded,   \* the warm state is there
  bus,      \* events and commands, in the order of their turns
  outbox,   \* the committed events, while the warm state is not there
  core,     \* the instance of each delegation
  raised,   \* open escalation rows: the raiser's
  io,       \* store answers being computed
  log,      \* observed: writes that landed, audits, and what the program got
  spent     \* bounds: [plan, reloads, drops, cancels, answers]
vars == <<api, promise, loaded, bus, outbox, core, raised, io, log, spent>>

Raiser(ask) == Front(ask)
RunOf(path) == path[1]
Body(d) == IF Len(d) = 1 THEN Program[d[1]] ELSE Program[d[1]][d[2]].body
Request(ask) == Body(Raiser(ask))[Last(ask)]
RunRequests == UNION {{<<r, k>> : k \in DOMAIN Program[r]} : r \in Runs}
Sections == {e \in RunRequests : Request(e).kind = "exclusive"}
Delegations == {<<r>> : r \in Runs} \cup Sections
Asks == RunRequests \cup UNION {{Append(e, k) : k \in DOMAIN Request(e).body} : e \in Sections}
Of(kind) == {a \in Asks : Request(a).kind = kind}

Terminal == {"done", "cancelled", "error"}
Dead == {"absent", "gone"}
Ev(k, d) == [k |-> k, d |-> d]
AskEv(k, a) == [k |-> k, d |-> Raiser(a), ask |-> a]
Ack(a, value) == [k |-> "escalateAck", d |-> Raiser(a), ask |-> a, value |-> value]
Events == {"delegate", "terminate", "escalateAck", "delegateAck", "terminateAck", "escalate"}
IsEvent(i) == i.k \in Events

Init ==
  /\ api = [run |-> [r \in Runs |-> "none"], rows |-> {}, open |-> {}, queue |-> {}, seq |-> 1,
            tasks |-> {}, fence |-> {}, out |-> <<>>]
  /\ promise = [r \in Runs |-> "none"]
  /\ loaded = TRUE /\ bus = <<>> /\ outbox = <<>>
  /\ core = [d \in Delegations |-> [state |-> "absent", pc |-> 1]]
  /\ raised = {} /\ io = [a \in Asks |-> 0]
  /\ log = [writes |-> <<>>, audit |-> [a \in Asks |-> "none"], got |-> [a \in Asks |-> "none"]]
  /\ \E p \in Plans : spent = [plan |-> p, reloads |-> 0, drops |-> 0, cancels |-> 0, answers |-> 0]

-----------------------------------------------------------------------------
(* Parts of a turn: operators from the reactor to the reactor.             *)

Send(A, event) == [A EXCEPT !.out = Append(@, event)]
Retire(A, d) == [A EXCEPT !.rows = @ \ {d}]
Live(A, d) == d \in A.rows
Outcome(A, r, state) == [A EXCEPT !.run[r] = state]
Queued(A) == {t.ask : t \in A.queue}
Spawned(A) == {t.ask : t \in {x \in A.queue : x.spawned}}
Heads(A) == {t \in A.queue : \A u \in A.queue : t.seq <= u.seq}

SpawnTask(A, ask) ==
  Send([A EXCEPT !.queue = {IF t.ask = ask THEN [t EXCEPT !.spawned = TRUE] ELSE t : t \in @},
                 !.tasks = @ \cup {ask},
                 !.rows = @ \cup {ask}],
       Ev("delegate", ask))

\* Mutant: the teardown of an abandoned section does not hold the domain.
SpawnHeadIfIdle_NoFence(A) ==
  IF A.tasks # {} \/ Heads(A) = {} THEN A ELSE SpawnTask(A, (CHOOSE t \in Heads(A) : TRUE).ask)

SpawnHeadIfIdle(A) ==
  IF A.tasks \cup A.fence # {} \/ Heads(A) = {} THEN A
  ELSE SpawnTask(A, (CHOOSE t \in Heads(A) : TRUE).ask)

\* Mutant: a running section is forgotten without being terminated.
Cleanup_LeavesRunning(A, r) ==
  LET its == {t \in A.queue : RunOf(t.ask) = r}
      gone == {t.ask : t \in {x \in its : x.spawned}}
  IN IF its = {} THEN A
     ELSE SpawnHeadIfIdle([A EXCEPT !.queue = @ \ its, !.tasks = @ \ gone, !.rows = @ \ gone,
                                    !.fence = @ \cup gone])

\* A run's terminal takes its sections with it, the queued and the running (one
\* at most runs).
Cleanup(A, r) ==
  LET its == {t \in A.queue : RunOf(t.ask) = r}
      gone == {t.ask : t \in {x \in its : x.spawned}}
      terminate == IF gone = {} THEN <<>> ELSE <<Ev("terminate", CHOOSE d \in gone : TRUE)>>
  IN IF its = {} THEN A
     ELSE SpawnHeadIfIdle([A EXCEPT !.queue = @ \ its, !.tasks = @ \ gone, !.rows = @ \ gone,
                                    !.fence = @ \cup gone, !.out = @ \o terminate])

\* The terminal a failure gives the run that d belongs to, once.
Fail(A, d) ==
  IF Live(A, d) THEN Send(Outcome(Retire(A, d), RunOf(d), "error"), Ev("terminate", d)) ELSE A

FailTask(A, ask) == Cleanup(Fail(A, Raiser(ask)), RunOf(ask))

FailDelegation(A, d) ==
  IF d \in A.tasks THEN (IF d \in Queued(A) THEN FailTask(A, d) ELSE A)
  ELSE IF Live(A, d) THEN Cleanup(Fail(A, d), RunOf(d))
  ELSE A

CompleteTask(A, ask) ==
  LET A1 == [A EXCEPT !.tasks = @ \ {ask}]
  IN SpawnHeadIfIdle(
       IF ask \in Queued(A)
       THEN Send([A1 EXCEPT !.queue = {t \in @ : t.ask # ask}], Ack(ask, "done"))
       ELSE A1)

Enqueue(A, ask) ==
  IF ask \in Queued(A) THEN A
  ELSE SpawnHeadIfIdle([A EXCEPT !.queue = @ \cup {[ask |-> ask, spawned |-> FALSE, seq |-> A.seq]},
                                 !.seq = @ + 1])

Exclusive(A, ask) ==
  IF Raiser(ask) \in A.tasks THEN FailTask(A, Raiser(ask))  \* nested
  ELSE IF Live(A, Raiser(ask)) THEN Enqueue(A, ask)
  ELSE A

-----------------------------------------------------------------------------
(* Turns of the api reactor.                                               *)

At(k) == loaded /\ bus # <<>> /\ bus[1].k = k
Commit(A) ==
  /\ api' = [A EXCEPT !.out = <<>>]
  /\ bus' = Tail(bus) \o A.out
  /\ UNCHANGED <<loaded, outbox, core, raised, spent>>

\* After the commit: the promise, and the questions the run leaves behind.
Settle(r, how) ==
  promise' = [promise EXCEPT ![r] = IF @ = "pending" THEN how ELSE @]
Closed(A, r) == [A EXCEPT !.open = {a \in @ : RunOf(a) # r}]

StartRun ==
  /\ At("start")
  /\ LET d == bus[1].d
     IN Commit(Send([Outcome(api, RunOf(d), "running") EXCEPT !.rows = @ \cup {d}], Ev("delegate", d)))
  /\ UNCHANGED <<promise, io, log>>

\* Mutant: the row is marked, the root is not told.
CancelRun_NoTerminate ==
  /\ At("cancel")
  /\ LET d == bus[1].d
     IN Commit(IF Live(api, d)
               THEN Outcome(api, RunOf(d), "cancelling")
               ELSE api)
  /\ UNCHANGED <<promise, io, log>>

CancelRun ==
  /\ At("cancel")
  /\ LET d == bus[1].d
     IN Commit(IF Live(api, d)
               THEN Send(Outcome(api, RunOf(d), "cancelling"), Ev("terminate", d))
               ELSE api)
  /\ UNCHANGED <<promise, io, log>>

FailRun ==
  /\ At("failRun")
  /\ LET d == bus[1].d
     IN Commit(IF Live(api, d) THEN Cleanup(Fail(api, d), RunOf(d)) ELSE api)
  /\ UNCHANGED <<promise, io, log>>

\* Mutant: the audit row is an upsert.
AnswerEscalation_Overwrites ==
  /\ At("answer")
  /\ LET a == bus[1].ask
     IN IF a \in api.open
        THEN /\ Commit(Send([api EXCEPT !.open = @ \ {a}], Ack(a, bus[1].value)))
             /\ log' = [log EXCEPT !.audit[a] = bus[1].value]
        ELSE Commit(api) /\ UNCHANGED log
  /\ UNCHANGED <<promise, io>>

\* The audit row is inserted on conflict do nothing.
AnswerEscalation ==
  /\ At("answer")
  /\ LET a == bus[1].ask
     IN IF a \in api.open
        THEN /\ Commit(Send([api EXCEPT !.open = @ \ {a}], Ack(a, bus[1].value)))
             /\ log' = [log EXCEPT !.audit[a] = IF @ = "none" THEN bus[1].value ELSE @]
        ELSE Commit(api) /\ UNCHANGED log
  /\ UNCHANGED <<promise, io>>

StoreAnswered ==
  /\ At("stored")
  /\ Commit(Send(api, Ack(bus[1].ask, "stored")))
  /\ UNCHANGED <<promise, io, log>>

FailRunForStore ==
  /\ At("unstored")
  /\ Commit(FailDelegation(api, bus[1].d))
  /\ UNCHANGED <<promise, io, log>>

SpawnHead ==
  /\ At("kick")
  /\ Commit(SpawnHeadIfIdle(api))
  /\ UNCHANGED <<promise, io, log>>

\* Mutant: a section's result settles the promise of its run.
DelegateAck_Unmarked ==
  /\ At("delegateAck")
  /\ LET d == bus[1].d
         A == Retire(api, d)
         r == RunOf(d)
     IN IF d \in api.tasks THEN Commit(CompleteTask(A, d)) /\ Settle(r, "done")
        ELSE IF d \in api.fence
        THEN Commit(SpawnHeadIfIdle([A EXCEPT !.fence = @ \ {d}])) /\ UNCHANGED promise
        ELSE LET A1 == Cleanup(A, r)
             IN /\ Commit(Closed(IF Live(api, d) THEN Outcome(A1, r, "done") ELSE A1, r))
                /\ Settle(r, "done")
  /\ UNCHANGED <<io, log>>

\* A section's result, the late result of an abandoned one, or a run's.
DelegateAck ==
  /\ At("delegateAck")
  /\ LET d == bus[1].d
         A == Retire(api, d)
         r == RunOf(d)
     IN IF d \in api.tasks THEN Commit(CompleteTask(A, d)) /\ UNCHANGED promise
        ELSE IF d \in api.fence
        THEN Commit(SpawnHeadIfIdle([A EXCEPT !.fence = @ \ {d}])) /\ UNCHANGED promise
        ELSE LET A1 == Cleanup(A, r)
             IN /\ Commit(Closed(IF Live(api, d) THEN Outcome(A1, r, "done") ELSE A1, r))
                /\ Settle(r, "done")
  /\ UNCHANGED <<io, log>>

\* Mutant: the outcome is recorded whether or not the row was live.
TerminateAck_NotSticky ==
  /\ At("terminateAck")
  /\ LET d == bus[1].d
         A == Retire(api, d)
         r == RunOf(d)
     IN IF d \in api.tasks \cup api.fence
        THEN /\ Commit(SpawnHeadIfIdle([A EXCEPT !.tasks = @ \ {d}, !.fence = @ \ {d}]))
             /\ UNCHANGED promise
        ELSE LET A1 == Cleanup(A, r)
             IN /\ Commit(Closed(Outcome(A1, r, "cancelled"), r))
                /\ Settle(r, "cancelled")
  /\ UNCHANGED <<io, log>>

\* Mutant: the awaiter of a cancelled run is not told.
TerminateAck_Silent ==
  /\ At("terminateAck")
  /\ LET d == bus[1].d
         A == Retire(api, d)
         r == RunOf(d)
     IN IF d \in api.tasks \cup api.fence
        THEN /\ Commit(SpawnHeadIfIdle([A EXCEPT !.tasks = @ \ {d}, !.fence = @ \ {d}]))
             /\ UNCHANGED promise
        ELSE LET A1 == Cleanup(A, r)
             IN /\ Commit(Closed(IF Live(api, d) THEN Outcome(A1, r, "cancelled") ELSE A1, r))
                /\ UNCHANGED promise
  /\ UNCHANGED <<io, log>>

\* Mutant: the fence is not lifted.
TerminateAck_KeepsFence ==
  /\ At("terminateAck")
  /\ LET d == bus[1].d
         A == Retire(api, d)
         r == RunOf(d)
     IN IF d \in api.tasks \cup api.fence
        THEN /\ Commit(SpawnHeadIfIdle([A EXCEPT !.tasks = @ \ {d}]))
             /\ UNCHANGED promise
        ELSE LET A1 == Cleanup(A, r)
             IN /\ Commit(Closed(IF Live(api, d) THEN Outcome(A1, r, "cancelled") ELSE A1, r))
                /\ Settle(r, "cancelled")
  /\ UNCHANGED <<io, log>>

TerminateAck ==
  /\ At("terminateAck")
  /\ LET d == bus[1].d
         A == Retire(api, d)
         r == RunOf(d)
     IN IF d \in api.tasks \cup api.fence
        THEN /\ Commit(SpawnHeadIfIdle([A EXCEPT !.tasks = @ \ {d}, !.fence = @ \ {d}]))
             /\ UNCHANGED promise
        ELSE LET A1 == Cleanup(A, r)
             IN /\ Commit(Closed(IF Live(api, d) THEN Outcome(A1, r, "cancelled") ELSE A1, r))
                /\ Settle(r, "cancelled")
  /\ UNCHANGED <<io, log>>

Escalate ==
  /\ At("escalate")
  /\ LET a == bus[1].ask
         kind == Request(a).kind
     IN /\ Commit(CASE kind = "store" -> api
                    [] kind = "exclusive" -> Exclusive(api, a)
                    [] kind = "user" -> [api EXCEPT !.open = @ \cup {a}]
                    [] kind = "failure" -> Closed(FailDelegation(api, Raiser(a)), RunOf(a)))
        /\ io' = IF kind = "store" THEN [io EXCEPT ![a] = @ + 1] ELSE io
        /\ IF kind = "failure" THEN Settle(RunOf(a), "error") ELSE UNCHANGED promise
  /\ UNCHANGED log

-----------------------------------------------------------------------------
(* Outside the loop: users, and the store rows.                            *)

Submit(command) == bus' = Append(bus, command)

UserStarts(r) ==
  /\ r \in spent.plan.runs /\ promise[r] = "none"
  /\ promise' = [promise EXCEPT ![r] = "pending"]
  /\ Submit(Ev("start", <<r>>))
  /\ UNCHANGED <<api, loaded, outbox, core, raised, io, log, spent>>

UserCancels(r) ==
  /\ r \in spent.plan.runs /\ spent.cancels < spent.plan.cancels
  /\ Submit(Ev("cancel", <<r>>))
  /\ spent' = [spent EXCEPT !.cancels = @ + 1]
  /\ UNCHANGED <<api, promise, loaded, outbox, core, raised, io, log>>

\* A user sees the open rows.
UserAnswers(a, value) ==
  /\ spent.answers < spent.plan.answers
  /\ a \in raised
  /\ Submit([k |-> "answer", d |-> Raiser(a), ask |-> a, value |-> value])
  /\ spent' = [spent EXCEPT !.answers = @ + 1]
  /\ UNCHANGED <<api, promise, loaded, outbox, core, raised, io, log>>

\* The rows are written, then the reply is queued; or they fail.
StoreLands(a) ==
  /\ io[a] > 0
  /\ io' = [io EXCEPT ![a] = @ - 1]
  /\ \/ Submit(AskEv("stored", a)) /\ log' = [log EXCEPT !.writes = Append(@, a)]
     \/ spent.plan.storeFails /\ Submit(AskEv("unstored", a)) /\ UNCHANGED log
  /\ UNCHANGED <<api, promise, loaded, outbox, core, raised, spent>>

-----------------------------------------------------------------------------
(* Core: what the reactors below do with a delegation.                     *)

CoreTurn(sends) ==
  /\ bus' = sends
  /\ UNCHANGED <<api, promise, loaded, outbox, io, spent>>
RaisedBy(d) == {a \in raised : Raiser(a) = d}
To(d, state) == [core EXCEPT ![d].state = state]

CoreStarts ==
  /\ At("delegate")
  /\ core' = [core EXCEPT ![bus[1].d] = [state |-> "running", pc |-> 1]]
  /\ CoreTurn(Tail(bus)) /\ UNCHANGED <<raised, log>>

\* The next request; `wait` says whether the raiser is suspended under it.
CoreRaises(d) ==
  /\ loaded /\ core[d].state = "running" /\ core[d].pc <= Len(Body(d))
  /\ LET a == Append(d, core[d].pc)
     IN /\ core' = [core EXCEPT ![d] = [state |-> IF Request(a).wait THEN "asking" ELSE "running",
                                        pc |-> @.pc + 1]]
        /\ raised' = raised \cup {a}
        /\ CoreTurn(Append(bus, AskEv("escalate", a)))
  /\ UNCHANGED log

CoreReturns(d) ==
  /\ loaded /\ core[d].state = "running" /\ core[d].pc > Len(Body(d))
  /\ core' = To(d, "gone") /\ raised' = raised \ RaisedBy(d)
  /\ CoreTurn(Append(bus, Ev("delegateAck", d)))
  /\ UNCHANGED log

\* A delegation that is not there is acknowledged at once.
CoreTerminates ==
  /\ At("terminate")
  /\ LET d == bus[1].d
     IN IF core[d].state \in Dead
        THEN CoreTurn(Append(Tail(bus), Ev("terminateAck", d))) /\ UNCHANGED core
        ELSE CoreTurn(Tail(bus)) /\ core' = To(d, "stopping")
  /\ UNCHANGED <<raised, log>>

CoreStops(d) ==
  /\ loaded /\ core[d].state = "stopping"
  /\ core' = To(d, "gone") /\ raised' = raised \ RaisedBy(d)
  /\ CoreTurn(Append(bus, Ev("terminateAck", d)))
  /\ UNCHANGED log

CoreIsAnswered ==
  /\ At("escalateAck")
  /\ LET a == bus[1].ask
         d == Raiser(a)
         heard == a \in raised /\ core[d].state \in {"running", "asking"}
     IN /\ raised' = raised \ {a}
        /\ core' = IF heard /\ core[d].state = "asking" /\ Last(a) = core[d].pc - 1
                   THEN To(d, "running") ELSE core
        /\ log' = IF heard THEN [log EXCEPT !.got[a] = bus[1].value] ELSE log
  /\ CoreTurn(Tail(bus))

-----------------------------------------------------------------------------
(* The warm state is dropped and read back from the rows.                  *)

PoisonRunPromises ==
  promise' = [r \in Runs |-> IF promise[r] = "pending" THEN "dropped" ELSE promise[r]]

\* The rows of a sequence of events and commands: its events, in order.
RowsOf(items) ==
  LET places == {i \in DOMAIN items : IsEvent(items[i])}
      N == Cardinality(places)
      Rising(f) == \A i, j \in 1..N : i < j => f[i] < f[j]
  IN {[i \in 1..N |-> items[f[i]]] : f \in {g \in [1..N -> places] : Rising(g)}}

\* Commands and promises die with it; what was committed stays.
DropWarm(events) ==
  /\ loaded' = FALSE
  /\ outbox' \in RowsOf(events)
  /\ PoisonRunPromises
  /\ UNCHANGED <<api, core, raised, log>>

\* A failed commit; a crash also ends what runs outside the loop.
Reloads ==
  /\ loaded /\ spent.reloads < spent.plan.reloads
  /\ spent' = [spent EXCEPT !.reloads = @ + 1]
  /\ DropWarm(bus)
  /\ bus' = <<>>
  /\ \/ UNCHANGED io
     \/ io' = [a \in Asks |-> 0]

\* A reactor throws on an event: it is dropped, and its run is to fail.
DropsPoison ==
  /\ loaded /\ spent.drops < spent.plan.drops
  /\ bus # <<>> /\ IsEvent(bus[1])
  /\ spent' = [spent EXCEPT !.drops = @ + 1]
  /\ DropWarm(Tail(bus))
  /\ bus' = <<Ev("failRun", <<RunOf(bus[1].d)>>)>>
  /\ UNCHANGED io

\* Mutant: the open questions are not read back.
Load_ForgetsQuestions ==
  /\ ~loaded
  /\ loaded' = TRUE
  /\ api' = [api EXCEPT !.open = {},
                        !.tasks = Spawned(api),
                        !.fence = {}]
  /\ io' = [a \in Asks |-> IF a \in raised \cap Of("store") THEN io[a] + 1 ELSE io[a]]
  /\ bus' = bus \o (IF api.queue # {} THEN <<Ev("kick", <<>>)>> ELSE <<>>) \o outbox
  /\ outbox' = <<>>
  /\ UNCHANGED <<promise, core, raised, log, spent>>

\* Mutant: the queue is read back as queued, not as running.
Load_RedrivesSections ==
  /\ ~loaded
  /\ loaded' = TRUE
  /\ api' = [api EXCEPT !.open = raised \cap Of("user"),
                        !.tasks = {}, !.queue = {[t EXCEPT !.spawned = FALSE] : t \in @},
                        !.fence = {}]
  /\ io' = [a \in Asks |-> IF a \in raised \cap Of("store") THEN io[a] + 1 ELSE io[a]]
  /\ bus' = bus \o (IF api.queue # {} THEN <<Ev("kick", <<>>)>> ELSE <<>>) \o outbox
  /\ outbox' = <<>>
  /\ UNCHANGED <<promise, core, raised, log, spent>>

\* Mutant: the replayed events are replayed again.
Load_KeepsOutbox ==
  /\ ~loaded
  /\ loaded' = TRUE
  /\ api' = [api EXCEPT !.open = raised \cap Of("user"),
                        !.tasks = Spawned(api),
                        !.fence = {}]
  /\ io' = [a \in Asks |-> IF a \in raised \cap Of("store") THEN io[a] + 1 ELSE io[a]]
  /\ bus' = bus \o (IF api.queue # {} THEN <<Ev("kick", <<>>)>> ELSE <<>>) \o outbox
  /\ outbox' = outbox
  /\ UNCHANGED <<promise, core, raised, log, spent>>

\* Mutant: the store requests that are open are not driven again.
Load_NoRedrive ==
  /\ ~loaded
  /\ loaded' = TRUE
  /\ api' = [api EXCEPT !.open = raised \cap Of("user"),
                        !.tasks = Spawned(api),
                        !.fence = {}]
  /\ bus' = bus \o (IF api.queue # {} THEN <<Ev("kick", <<>>)>> ELSE <<>>) \o outbox
  /\ outbox' = <<>>
  /\ UNCHANGED <<promise, io, core, raised, log, spent>>

Load ==
  /\ ~loaded
  /\ loaded' = TRUE
  /\ api' = [api EXCEPT !.open = raised \cap Of("user"),
                        !.tasks = Spawned(api),
                        !.fence = {}]
  /\ io' = [a \in Asks |-> IF a \in raised \cap Of("store") THEN io[a] + 1 ELSE io[a]]
  /\ bus' = bus \o (IF api.queue # {} THEN <<Ev("kick", <<>>)>> ELSE <<>>) \o outbox
  /\ outbox' = <<>>
  /\ UNCHANGED <<promise, core, raised, log, spent>>

-----------------------------------------------------------------------------
Turn ==
  \/ StartRun \/ CancelRun \/ FailRun \/ AnswerEscalation \/ StoreAnswered \/ FailRunForStore
  \/ SpawnHead \/ DelegateAck \/ TerminateAck \/ Escalate
  \/ CoreStarts \/ CoreTerminates \/ CoreIsAnswered
CoreStep == \E d \in Delegations : CoreRaises(d) \/ CoreReturns(d) \/ CoreStops(d)
StoreStep == \E a \in Asks : StoreLands(a)
User ==
  \/ \E r \in Runs : UserStarts(r) \/ UserCancels(r)
  \/ \E a \in Of("user"), value \in Answers : UserAnswers(a, value)

Next == Turn \/ CoreStep \/ StoreStep \/ User \/ Load \/ Reloads \/ DropsPoison

\* The loop takes what is queued, the instances below go on, the store answers.
Spec ==
  /\ Init /\ [][Next]_vars
  /\ WF_vars(Turn \/ Load)
  /\ \A d \in Delegations : WF_vars(CoreRaises(d) \/ CoreReturns(d) \/ CoreStops(d))
  /\ \A a \in Of("store") : WF_vars(StoreLands(a))
-----------------------------------------------------------------------------
(* Properties.                                                             *)

Commands == {"start", "cancel", "failRun", "answer", "stored", "unstored", "kick"}
States == {"none", "running", "cancelling"} \cup Terminal

Roots == {<<r>> : r \in Runs}
\* What may be queued: a command of a run, a store's answer, an event.
Item ==
  [k : {"start", "cancel", "failRun"}, d : Roots] \cup [k : {"kick"}, d : {<<>>}]
    \cup {AskEv(k, a) : k \in {"stored", "unstored", "escalate"}, a \in Asks}
    \cup {[k |-> k, d |-> Raiser(a), ask |-> a, value |-> v] :
             k \in {"answer", "escalateAck"}, a \in Asks, v \in Answers \cup {"done", "stored"}}
    \cup [k : {"delegate", "terminate", "delegateAck", "terminateAck"}, d : Delegations]
Reactor ==
  [run : [Runs -> States], rows : SUBSET Delegations, open : SUBSET Of("user"),
   queue : SUBSET [ask : Sections, spawned : BOOLEAN, seq : Nat], seq : Nat,
   tasks : SUBSET Sections, fence : SUBSET Sections, out : Seq(Item)]

\* Type invariant.
TypeOK ==
  /\ api \in Reactor /\ api.out = <<>>
  /\ promise \in [Runs -> {"none", "pending", "dropped"} \cup Terminal]
  /\ loaded \in BOOLEAN /\ bus \in Seq(Item) /\ outbox \in Seq(Item)
  /\ \A i \in DOMAIN outbox : IsEvent(outbox[i]) /\ ~loaded
  /\ core \in [Delegations -> [state : Dead \cup {"running", "asking", "stopping"}, pc : Nat \ {0}]]
  /\ raised \subseteq Asks /\ io \in [Asks -> Nat]

InFlight == ToSet(bus) \cup ToSet(outbox)
Working(d) == core[d].state \in {"running", "asking"}
Undisturbed == spent.reloads = 0 /\ spent.drops = 0

\* A run reaches one outcome and keeps it, whichever of its result, its
\* cancellation and a failure arrives first; `cancelled` only on request
\* (the `settled` guards on retireDelegation).
Outcomes == INSTANCE RunOutcome WITH outcome <- api.run
OutcomeIsFinal == Outcomes!Spec

\* One critical section at a time in the whole project, while no terminate is
\* dropped.  A dropped warm state lifts the fence, but a section being torn
\* down is all that may overlap.
OneSection ==
  /\ spent.drops = 0 => Cardinality({s \in Sections : Working(s)}) <= 1
  /\ Undisturbed => Cardinality({s \in Sections : core[s].state \notin Dead}) <= 1

\* A critical section is started at most once, whatever is reloaded: its row
\* is the proof that it has not finished.
SectionOnce ==
  [][\A s \in Sections : core[s].state # "absent" =>
       /\ core'[s].state # "absent" /\ core'[s].pc >= core[s].pc
       /\ core[s].state = "gone" => core'[s].state = "gone"]_vars

\* No section of a run that reached its outcome is left running, no root of it
\* either, and no question of it is left open, once nothing is in flight.
NothingLeaks ==
  loaded /\ bus = <<>> /\ spent.drops = 0 =>
    /\ \A d \in Delegations : Working(d) => d \in api.rows /\ api.run[RunOf(d)] \notin Terminal
    /\ \A a \in api.open : api.run[RunOf(a)] \notin Terminal \/ core[<<RunOf(a)>>].state \notin Dead

\* The answer in a run's history is the one its program got, however often
\* the question was answered and its row read back, while no answer is dropped.
AuditIsAnswer ==
  spent.drops = 0 =>
    \A a \in Of("user") : log.got[a] # "none" => log.got[a] = log.audit[a]

\* A program suspended under a question can be answered: the question is in
\* the answerable set, or on its way there, or its answer is on its way back.
QuestionReachable ==
  \A a \in raised \cap Of("user") :
    loaded /\ Working(Raiser(a)) /\ {Raiser(a), <<RunOf(a)>>} \subseteq api.rows =>
      \/ a \in api.open
      \/ \E i \in ToSet(bus) : i.k \in {"escalate", "escalateAck"} /\ i.ask = a

\* A program suspended under a store request hears of it: the request is on its
\* way, or computed, or its reply is queued, also where the load drove it again
\* while the escalate that was replayed did.
StoreReachable ==
  \A a \in raised \cap Of("store") :
    loaded /\ Working(Raiser(a)) /\ <<RunOf(a)>> \in api.rows =>
      \/ io[a] > 0
      \/ \E i \in ToSet(bus) :
           i.k \in {"escalate", "stored", "unstored", "escalateAck"} /\ i.ask = a

\* The promise of a run tells what its row tells; a run that its store, a nested
\* section or a poisonous event failed tells who awaits it what its root answers.
PromiseAgrees ==
  \A r \in Runs : promise[r] \in Terminal => promise[r] = api.run[r] \/ api.run[r] = "error"

\* No store write of one section lands while another section works.
SectionIsolation ==
  [][\A s \in Sections : \A t \in Sections \ {s} :
       Working(t) => \A a \in Asks : Raiser(a) = s /\ io'[a] < io[a] => log'.writes = log.writes]_vars

\* A write of a program that waits for it does not land over a later one of the
\* program.  It fails: a request that a load drives again, while its first answer
\* is on its way, is written a second time when the program is past it.
WriteStands ==
  \A m, n \in DOMAIN log.writes :
    LET a == log.writes[m]
        b == log.writes[n]
    IN m < n /\ RunOf(a) = RunOf(b) /\ Program[RunOf(b)][b[2]].wait => a[2] <= b[2]

\* Sections run one at a time, each once.
SectionsKept == []OneSection /\ SectionOnce

\* What a user answers, and what one who awaits a run is told, is what the rows say.
AnswersAgree == AuditIsAnswer /\ QuestionReachable /\ StoreReachable /\ PromiseAgrees

\* A run asked to stop reaches an outcome, and who awaits a run in process hears
\* of it; an enqueued section leaves the queue, served or torn down with its run.
FollowedOpen ==
  LET d == spent.plan.follow
  IN IF Len(d) = 2 THEN d \in Queued(api)
     ELSE Len(d) = 1
          /\ (api.run[d[1]] = "cancelling" \/ (api.run[d[1]] \in Terminal /\ promise[d[1]] = "pending"))
FollowedEnded ==
  LET d == spent.plan.follow
  IN IF Len(d) = 2 THEN d \notin Queued(api)
     ELSE Len(d) = 1 => api.run[d[1]] \in Terminal /\ promise[d[1]] # "pending"
FollowedEnds == FollowedOpen ~> FollowedEnded
=============================================================================
