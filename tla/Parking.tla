------------------------------ MODULE Parking ------------------------------
(***************************************************************************)
(* The credential park of external-call-reactor.ts: a call that cannot go  *)
(* on without a credential raises an authorize ask and waits.  The answer  *)
(* makes the reactor run it again from the start; a run that still cannot  *)
(* authenticate parks again.  The open ask is a durable row; which ask the *)
(* call waits on, and the calls to run again, are in memory.               *)
(***************************************************************************)
EXTENDS CallReactor

FirstAsk == 100    \* the authorize asks of a call are numbered from here

\* A plan of these reactors also says how often one call may park.
ParkBounds == PlanBounds /\ (\A p \in Plans : p.parks \in Nat) /\ \A i \in Inner : i < FirstAsk

AuthorizeAsk == FirstAsk + 1..FirstAsk + plan.parks

ParkingWarm == InitialWarm @@
  [asks    |-> [c \in Call |-> 0],   \* how many asks the call has raised
   openAsk |-> {},                   \* rows: <<call, ask>>
   parked  |-> [c \in Call |-> 0],   \* the ask the call waits on
   retries |-> {}]                   \* parkRetries

ParkingDurable(w) == [Durable(w) EXCEPT !.parked = [c \in Call |-> 0], !.retries = {}]

Ask(w, c) == FirstAsk + w.asks[c]

\* Bound: plan.parks, counting the parks whose turn has yet to come.
MayPark(w, c) == w.asks[c] + Cardinality({i \in DOMAIN w.mail : w.mail[i] = Work("park", c)}) < plan.parks

\* A park is the answer to an abort, and nothing for a call that is gone or has failed.
ParkCall(w, c) ==
  CASE w.status[c] = "cancelling" -> Complete(w, c, "cancelled")
    [] w.status[c] = "running"    ->
         LET v == [w EXCEPT !.asks[c] = @ + 1]
         IN [Send(v, "escalate", c, Ask(v, c)) EXCEPT !.parked[c] = Ask(v, c),
                                                      !.openAsk = @ \cup {<<c, Ask(v, c)>>}]
    [] OTHER -> w

\* The row goes with the answer; only the ask the call waits on runs it again.
OnParkAck(w, c, x) ==
  LET v == [w EXCEPT !.openAsk = @ \ {<<c, x>>}]
  IN IF w.parked[c] = x THEN [v EXCEPT !.parked[c] = 0, !.retries = @ \cup {c}]
     ELSE OnEscalateAck(v, c, x)

ParkingReact(w, t) ==
  IF t.k = "escalateAck" THEN OnParkAck(w, t.d, t.x) ELSE ReactorReact(w, t)

\* The rows of a call go with it.
Evicted(w) ==
  [w EXCEPT !.parked = [c \in Call |-> IF Live(w, c) THEN @[c] ELSE 0],
            !.openAsk = {a \in @ : Live(w, a[1])}]

\* Mutant: an open ask does not park the call again.
ReconstructPark_Never(w) == w

\* A reloaded call waits on its first open ask, unless it relays that one for a child.
ReconstructPark(w) ==
  LET asks(c)  == {a[2] : a \in {b \in w.openAsk \cup w.relays : b[1] = c}}
      first(c) == CHOOSE x \in asks(c) : \A y \in asks(c) : x <= y
  IN [w EXCEPT !.parked = [c \in Call |->
        IF w.status[c] = "running" /\ asks(c) # {} /\ <<c, first(c)>> \notin w.relays
        THEN first(c) ELSE 0]]

\* Mutant: an answered call is not run again.
Retried_None(w) == {}

\* redispatchParked is for a call that still runs.
Retried(w) == {c \in w.retries : w.status[c] = "running"}
=============================================================================
