---------------------------- MODULE CallReactor ----------------------------
(***************************************************************************)
(* What the reactors that own external callee calls share                  *)
(* (runtime/actor/external-call-reactor.ts on top of reactor.ts): the      *)
(* running / cancelling / awaitingAnswer lifecycle of a call, the inner    *)
(* delegations it opens, the proxying of their asks, and the barrier that  *)
(* holds a call's answer back until its children drained.                  *)
(*                                                                         *)
(* `warm` is what the actor holds in memory, `rows` what is committed.  A  *)
(* batch of turns moves warm; a commit copies it to rows; a failure or a   *)
(* crash restores it from rows.  That the bus does exactly this, in order  *)
(* and exactly once, is what Substrate establishes; here a batch ends at   *)
(* any point, because the turns of other reactors fill batches too.        *)
(*                                                                         *)
(* The caller of the calls and the callees of the inner delegations are    *)
(* core instances, reduced to what they may send.                          *)
(***************************************************************************)
EXTENDS Naturals, FiniteSets, SequencesExt

CONSTANTS
  Call,       \* delegations that reach this reactor
  Inner,      \* the inner delegations the calls may open, in the order of their minting
  ParentOf,   \* [Inner -> Call]
  Plans       \* bounds: what the surroundings may do in one behaviour, one record each

ASSUME InnerAssumption == Inner \subseteq Nat \ {0} /\ IsFiniteSet(Inner)
ASSUME CallAssumption == IsFiniteSet(Call) /\ Call \cap Inner = {}
ASSUME ParentAssumption == ParentOf \in [Inner -> Call]
PlanBounds ==
  \A p \in Plans :
    /\ p.calls \cup p.abandons \subseteq Call /\ p.asks \subseteq Inner
    /\ p.faults \in Nat /\ p.crashes \in Nat
ASSUME PlanAssumption == PlanBounds

VARIABLES
  warm,     \* the reactor's state, the mailbox, and the state of its peers in core
  rows,     \* the same, as committed; its mail is the outbox
  phase,    \* "down", "idle", "batch" (uncommitted turns) or "post" (committed)
  after,    \* the events of the batch whose afterCommit is due, in order
  faults, crashes,
  plan      \* the member of Plans this behaviour keeps to

callVars == <<warm, rows, phase, after, faults, crashes, plan>>

Own == 0   \* the escalation a call raises for itself; a child's ask is named by the child

Children(c) == {i \in Inner : ParentOf[i] = c}

Event(k, d, x)    == [k |-> k, d |-> d, x |-> x, o |-> "none"]
Completion(c, o)  == [k |-> "complete", d |-> c, x |-> Own, o |-> o]
Work(k, d)        == [k |-> k, d |-> d, x |-> Own, o |-> "none"]

\* A finite set of numbers in order: inner delegations in that of their minting.
Ascending(S) == [k \in 1..Cardinality(S) |-> CHOOSE x \in S : Cardinality({y \in S : y <= x}) = k]

\* The elements of a sequence at some of its places, in their order.
Picked(s, N) == LET places == Ascending(N) IN [k \in DOMAIN places |-> s[places[k]]]

EventKind == {"delegate", "delegateAck", "terminate", "terminateAck", "escalate", "escalateAck"}
IsEvent(t) == t.k \in EventKind
EventsOf(mail) == Picked(mail, {n \in DOMAIN mail : IsEvent(mail[n])})

InitialWarm ==
  [status  |-> [c \in Call |-> "none"],     \* calls: "none" before the delegate, "gone" after the drop
   settled |-> [c \in Call |-> FALSE],      \* transportSettled
   held    |-> [c \in Call |-> "nothing"],  \* pendingOutcome
   relays  |-> {},                          \* <<call, child>>: the child's ask was raised again under the call
   edge    |-> [i \in Inner |-> "none"],    \* the caller-owned delegation rows
   bridge  |-> {},                          \* innerCalls: <<inner delegation, transport token>>
   staged  |-> << >>,                       \* pendingDeliveries
   raised  |-> [c \in Call |-> 0],          \* failures the call raised for itself
   proxy   |-> [c \in Call |-> "idle"],     \* core: the thread that issued the call
   asked   |-> {},                          \* core: <<call, escalation>> awaiting a handler
   callee  |-> [i \in Inner |-> "none"],    \* core: the instance that runs the inner delegation
   mail    |-> << >>]                       \* events and originated work, in turn order

\* The same with what a reactor keeps of its own beside it.
WarmWith(own) ==
  [f \in DOMAIN InitialWarm \cup DOMAIN own |->
     IF f \in DOMAIN own THEN own[f] ELSE InitialWarm[f]]

\* Mutant: the relays are in memory only.
Durable_ForgetsRelays(w) ==
  [w EXCEPT !.settled = [c \in Call |-> FALSE],
            !.held = [c \in Call |-> "nothing"],
            !.relays = {},
            !.staged = << >>,
            !.mail = EventsOf(@)]

\* What a reload rebuilds: the hold state, the staged deliveries and the
\* originated work exist in memory only.
Durable(w) ==
  [w EXCEPT !.settled = [c \in Call |-> FALSE],
            !.held = [c \in Call |-> "nothing"],
            !.staged = << >>,
            !.mail = EventsOf(@)]

InitFrom(initial) ==
  /\ warm = initial /\ rows = initial
  /\ phase = "down" /\ after = << >> /\ faults = 0 /\ crashes = 0 /\ plan \in Plans

CallInit == InitFrom(InitialWarm)

-----------------------------------------------------------------------------
(* The lifecycle, as functions of the warm state.                          *)

Live(w, c) == w.status[c] \in {"running", "cancelling", "awaitingAnswer"}

Send(w, k, d, x) == [w EXCEPT !.mail = Append(@, Event(k, d, x))]

Draining(w, c) == \E i \in Children(c) : w.edge[i] \in {"running", "cancelling"}

\* openInnerDelegation and relayAskUnder refuse a call that is winding down.
AcceptsWork(w, c) == w.status[c] = "running" /\ w.held[c] = "nothing"

Drop(w, c) ==
  [w EXCEPT !.status[c] = "gone", !.settled[c] = FALSE, !.held[c] = "nothing",
            !.relays = {r \in @ : r[1] # c},
            !.bridge = {b \in @ : ParentOf[b[1]] # c}]

TerminateChildren(w, c) ==
  LET running == {i \in Children(c) : w.edge[i] = "running"}
  IN [w EXCEPT !.edge = [i \in Inner |-> IF i \in running THEN "cancelling" ELSE @[i]],
               !.mail = @ \o [n \in 1..Cardinality(running) |->
                                Event("terminate", Ascending(running)[n], Own)]]

\* raisePanic / raiseThrow: the call does not finish, it waits for a handler.
RaiseFailure(w, c) ==
  [Send(w, "escalate", c, Own) EXCEPT !.status[c] = "awaitingAnswer", !.raised[c] = @ + 1]

\* The held outcome of a call applies.
Settled(w, c) ==
  LET v == [w EXCEPT !.held[c] = "nothing"]
  IN CASE w.held[c] = "nothing"   -> w
       [] w.held[c] = "result"    -> Drop(Send(v, "delegateAck", c, Own), c)
       [] w.held[c] = "cancelled" -> Drop(Send(v, "terminateAck", c, Own), c)
       [] w.held[c] = "failure"   -> RaiseFailure(v, c)

\* Mutants: the answer does not wait for the children; a cancelled call
\* answers although its transport still works.
MaybeSettle_NoDrain(w, c) ==
  CASE w.status[c] = "cancelling" ->
         IF w.settled[c] THEN Drop(Send(w, "terminateAck", c, Own), c) ELSE w
    [] Live(w, c) /\ w.status[c] # "cancelling" -> Settled(w, c)
    [] OTHER -> w

MaybeSettle_NoBarrier(w, c) ==
  CASE ~Live(w, c) \/ Draining(w, c) -> w
    [] w.status[c] = "cancelling" -> Drop(Send(w, "terminateAck", c, Own), c)
    [] OTHER -> Settled(w, c)

\* A result whose wire form does not decode settles like "failure".
MaybeSettle(w, c) ==
  CASE ~Live(w, c) \/ Draining(w, c) -> w
    [] Live(w, c) /\ ~Draining(w, c) /\ w.status[c] = "cancelling" ->
         IF w.settled[c] THEN Drop(Send(w, "terminateAck", c, Own), c) ELSE w
    [] OTHER -> Settled(w, c)

Complete(w, c, outcome) ==
  CASE ~Live(w, c) -> w
    [] w.status[c] = "cancelling" -> MaybeSettle([w EXCEPT !.settled[c] = TRUE], c)
    [] OTHER -> MaybeSettle(TerminateChildren([w EXCEPT !.held[c] = outcome], c), c)

OpenInner(w, i, token) ==
  [Send(w, "delegate", i, Own) EXCEPT !.edge[i] = "running", !.bridge = @ \cup {<<i, token>>}]

OnDelegate(w, c) == [w EXCEPT !.status[c] = "running"]

\* Mutant: a held outcome survives the cancellation.
OnTerminate_KeepsHeld(w, c) ==
  CASE ~Live(w, c) -> Send(w, "terminateAck", c, Own)
    [] w.status[c] = "cancelling" -> w
    [] OTHER ->
         MaybeSettle(
           TerminateChildren(
             [w EXCEPT !.settled[c] = (w.status[c] = "awaitingAnswer"),
                       !.status[c] = "cancelling"], c), c)

OnTerminate(w, c) ==
  CASE ~Live(w, c) -> Send(w, "terminateAck", c, Own)
    [] w.status[c] = "cancelling" -> w
    [] OTHER ->
         MaybeSettle(
           TerminateChildren(
             [w EXCEPT !.settled[c] = (w.status[c] = "awaitingAnswer"),
                       !.held[c] = "nothing", !.status[c] = "cancelling"], c), c)

\* An answer: a child's goes down to it, the call's own becomes its result.
OnEscalateAck(w, c, x) ==
  CASE ~Live(w, c) -> w
    [] Live(w, c) /\ <<c, x>> \in w.relays ->
         LET v == [w EXCEPT !.relays = @ \ {<<c, x>>}]
         IN IF x \in Inner /\ w.edge[x] \in {"running", "cancelling"}
            THEN Send(v, "escalateAck", x, Own)
            ELSE v
    [] <<c, x>> \notin w.relays /\ w.status[c] = "awaitingAnswer" ->
         Drop(Send(w, "delegateAck", c, Own), c)
    [] OTHER -> w

\* relayAskUnder: a call that is winding its children down takes no ask.
Relays(w, c) == w.status[c] \in {"running", "awaitingAnswer"} /\ w.held[c] = "nothing"

OnEscalate(w, i) ==
  LET c == ParentOf[i]
  IN IF w.edge[i] \in {"running", "cancelling"} /\ Relays(w, c)
     THEN [Send(w, "escalate", c, i) EXCEPT !.relays = @ \cup {<<c, i>>}]
     ELSE w

\* delegateAck and terminateAck of a child: the base retires the row, once;
\* the outcome is staged for the transport; the call may settle now.
OnChildAck(w, i, outcome) ==
  LET c      == ParentOf[i]
      bridge == {b \in w.bridge : b[1] = i}
      v      == [w EXCEPT !.edge[i] = "retired", !.bridge = @ \ bridge,
                          !.staged = @ \o SetToSeq({[call |-> c, token |-> b[2], outcome |-> outcome,
                                                     inner |-> i] : b \in bridge})]
  IN IF w.edge[i] \in {"running", "cancelling"} /\ Live(w, c)
     THEN MaybeSettle(v, c)
     ELSE [w EXCEPT !.edge[i] = "retired"]

-----------------------------------------------------------------------------
(* Core, reduced to what it sends: a proxy thread per call, an instance    *)
(* per inner delegation.                                                   *)

CoreReact(w, t) ==
  CASE t.k = "delegate"    -> [w EXCEPT !.callee[t.d] = "running"]
    [] t.k = "terminate"   -> Send([w EXCEPT !.callee[t.d] = "done"], "terminateAck", t.d, Own)
    [] t.k = "escalateAck" -> [w EXCEPT !.callee[t.d] = IF @ = "asking" THEN "answered" ELSE @]
    [] t.k \in {"delegateAck", "terminateAck"} -> [w EXCEPT !.proxy[t.d] = "done"]
    [] t.k = "escalate"    -> [w EXCEPT !.asked = IF w.proxy[t.d] = "calling"
                                                 THEN @ \cup {<<t.d, t.x>>} ELSE @]

ReactorReact(w, t) ==
  CASE t.k = "delegate"     -> OnDelegate(w, t.d)
    [] t.k = "terminate"    -> OnTerminate(w, t.d)
    [] t.k = "escalateAck"  -> OnEscalateAck(w, t.d, t.x)
    [] t.k = "delegateAck"  -> OnChildAck(w, t.d, "result")
    [] t.k = "terminateAck" -> OnChildAck(w, t.d, "cancelled")
    [] t.k = "escalate"     -> OnEscalate(w, t.d)

\* Requests go to the callee, replies to the caller.
ToReactor(t) == (t.d \in Call) = (t.k \in {"delegate", "terminate", "escalateAck"})

\* One turn: the batch is open, nothing is durable yet.
Turn(next) ==
  /\ phase \in {"idle", "batch"} /\ phase' = "batch"
  /\ warm' = next
  /\ UNCHANGED <<rows, faults, crashes, plan>>

Ready == phase \in {"idle", "batch"} /\ warm.mail # << >>
Taken == [warm EXCEPT !.mail = Tail(@)]

HandleEvent ==
  /\ Ready /\ IsEvent(Head(warm.mail))
  /\ LET t == Head(warm.mail)
     IN IF ToReactor(t)
        THEN Turn(ReactorReact(Taken, t)) /\ after' = Append(after, t)
        ELSE Turn(CoreReact(Taken, t)) /\ UNCHANGED after

CoreCalls(c) ==
  /\ c \in plan.calls /\ warm.proxy[c] = "idle"
  /\ Turn(Send([warm EXCEPT !.proxy[c] = "calling"], "delegate", c, Own))
  /\ UNCHANGED after

\* A handler broke out, a sibling failed, or the run is cancelled.
CoreCancels(c) ==
  /\ c \in plan.abandons /\ warm.proxy[c] = "calling"
  /\ Turn(Send([warm EXCEPT !.proxy[c] = "cancelling",
                            !.asked = {a \in @ : a[1] # c}], "terminate", c, Own))
  /\ UNCHANGED after

CoreAnswers(c, x) ==
  /\ <<c, x>> \in warm.asked
  /\ Turn(Send([warm EXCEPT !.asked = @ \ {<<c, x>>}], "escalateAck", c, x))
  /\ UNCHANGED after

CalleeReturns(i) ==
  /\ warm.callee[i] \in {"running", "answered"}
  /\ Turn(Send([warm EXCEPT !.callee[i] = "done"], "delegateAck", i, Own))
  /\ UNCHANGED after

\* Each callee asks at most once.
CalleeAsks(i) ==
  /\ i \in plan.asks /\ warm.callee[i] = "running"
  /\ Turn(Send([warm EXCEPT !.callee[i] = "asking"], "escalate", i, Own))
  /\ UNCHANGED after

-----------------------------------------------------------------------------
(* Commit and failure.                                                     *)

CommitAs(durable) ==
  /\ phase = "batch" /\ phase' = "post"
  /\ rows' = durable
  /\ UNCHANGED <<warm, after, faults, crashes, plan>>

Commit == CommitAs(Durable(warm))

\* The next turn runs after a reload, so warm is shown as it will be rebuilt.
Forget(durable) ==
  /\ phase' = "down" /\ after' = << >>
  /\ warm' = [durable EXCEPT !.mail = << >>]

\* dropWarm: a turn, a commit or a load failed, of whichever reactor.
Fail ==
  /\ phase # "post" /\ faults < plan.faults /\ faults' = faults + 1
  /\ Forget(rows)
  /\ UNCHANGED <<rows, crashes, plan>>

\* The commit happened, its answer was an error.
CommitInDoubtAs(durable) ==
  /\ phase = "batch" /\ faults < plan.faults /\ faults' = faults + 1
  /\ rows' = durable
  /\ Forget(durable)
  /\ UNCHANGED <<crashes, plan>>

CommitInDoubt == CommitInDoubtAs(Durable(warm))

\* What arrived while the actor was down is queued first, then what the
\* reactor's load schedules, then the undrained rows.
LoadAs(loaded, scheduled) ==
  /\ phase = "down" /\ phase' = "idle"
  /\ warm' = [loaded EXCEPT !.mail = @ \o scheduled \o rows.mail]
  /\ UNCHANGED <<rows, after, faults, crashes, plan>>

Load(scheduled) == LoadAs(warm, scheduled)
=============================================================================
