------------------------------- MODULE OAuth -------------------------------
(***************************************************************************)
(* The oauth reactor (runtime/actor/oauth-reactor.ts) and the flow by      *)
(* which a human authorizes (runtime/external/authorization-flow.ts).  A   *)
(* call resolves a stored credential outside the serial loop; when there   *)
(* is none it parks.  A login deposits the credential and then answers     *)
(* every authorize ask that is open.                                       *)
(*                                                                         *)
(* There is one credential name.  How a credential is resolved and         *)
(* refreshed is McpTransport's subject; here it is usable or it is not.    *)
(***************************************************************************)
EXTENDS Parking

CONSTANT Login   \* the state parameters of the login attempts

\* A plan also says which logins are tried and how often the provider revokes.
OAuthBounds == ParkBounds /\ \A p \in Plans : p.logins \subseteq Login /\ p.revocations \in Nat

VARIABLES
  resolving,    \* [Call -> Nat]: resolutions in flight
  usable,       \* the stored credential can authenticate
  revocations,
  flow,         \* [Login -> state of the attempt]
  answering     \* [Login -> the open asks it found and has not answered]

flowVars == <<flow, answering>>
storeVars == <<usable, revocations>>
vars == <<callVars, resolving, storeVars, flowVars>>

Init ==
  /\ InitFrom(ParkingWarm)
  /\ resolving = [c \in Call |-> 0] /\ usable \in BOOLEAN /\ revocations = 0
  /\ flow = [l \in Login |-> "none"] /\ answering = [l \in Login |-> {}]

-----------------------------------------------------------------------------
(* The reactor.                                                            *)

\* The credential is read; the outcome comes back as a turn.
Resolves(c) ==
  /\ resolving[c] > 0 /\ resolving' = [resolving EXCEPT ![c] = @ - 1]
  /\ \E work \in (IF usable THEN {Completion(c, "result")} ELSE {})
                  \cup (IF ~usable /\ MayPark(warm, c) THEN {Work("park", c)} ELSE {})
                  \cup {Completion(c, "failure")} :
       warm' = [warm EXCEPT !.mail = Append(@, work)]
  /\ UNCHANGED <<rows, phase, after, faults, crashes, plan, storeVars, flowVars>>

ParkingTurn(next) == Turn(Evicted(next)) /\ UNCHANGED resolving

EventTurn ==
  /\ Ready /\ IsEvent(Head(warm.mail))
  /\ LET t == Head(warm.mail)
     IN IF ToReactor(t)
        THEN ParkingTurn(ParkingReact(Taken, t)) /\ after' = Append(after, t)
        ELSE ParkingTurn(CoreReact(Taken, t)) /\ UNCHANGED after

ParkTurn ==
  /\ Ready /\ Head(warm.mail).k = "park"
  /\ LET c == Head(warm.mail).d
     IN ParkingTurn(ParkCall(Taken, c))
  /\ UNCHANGED after

CompleteTurn ==
  /\ Ready /\ Head(warm.mail).k = "complete"
  /\ LET t == Head(warm.mail) IN ParkingTurn(Complete(Taken, t.d, t.o))
  /\ UNCHANGED after

Dispatched == {c \in Call : Live(warm, c) /\ Event("delegate", c, Own) \in ToSet(after)}
Aborted    == {c \in Call : warm.status[c] = "cancelling"
                              /\ Event("terminate", c, Own) \in ToSet(after)}

Begun(calls) == [c \in Call |-> resolving[c] + (IF c \in calls THEN 1 ELSE 0)]

\* Mutant: an answered call is not run again.
AfterCommit_NoRetry ==
  /\ phase = "post" /\ phase' = "idle" /\ after' = << >>
  /\ resolving' = Begun(Dispatched)
  /\ warm' = [warm EXCEPT !.staged = << >>, !.retries = {},
       !.mail = @ \o SetToSeq({Completion(c, "cancelled") : c \in Aborted})]
  /\ UNCHANGED <<rows, faults, crashes, plan>>

AfterCommit ==
  /\ phase = "post" /\ phase' = "idle" /\ after' = << >>
  /\ resolving' = Begun(Dispatched \cup Retried(warm))
  /\ warm' = [warm EXCEPT !.staged = << >>, !.retries = {},
       !.mail = @ \o SetToSeq({Completion(c, "cancelled") : c \in Aborted})]
  /\ UNCHANGED <<rows, faults, crashes, plan>>

\* Mutant: a reloaded call waits, whether it is parked or not.
Recovered_None(w) == {}

\* A call that is not parked resolves again.
Recovered(w) == {c \in Call : w.status[c] = "running" /\ w.parked[c] = 0}

Reload ==
  LET loaded == ReconstructPark(warm)
  IN /\ LoadAs(loaded, SetToSeq({Completion(c, "cancelled") :
                                   c \in {d \in Call : warm.status[d] = "cancelling"}}))
     /\ resolving' = Begun(Recovered(loaded))

\* The resolutions outlive a reset, not the process.
Crash ==
  /\ crashes < plan.crashes /\ crashes' = crashes + 1
  /\ Forget(rows)
  /\ resolving' = [c \in Call |-> 0]
  /\ flow' = [l \in Login |-> IF flow[l] = "none" THEN "none" ELSE "over"]
  /\ answering' = [l \in Login |-> {}]
  /\ UNCHANGED <<rows, faults, plan, storeVars>>

-----------------------------------------------------------------------------
(* The login.                                                              *)

Revokes ==
  /\ usable /\ usable' = FALSE
  /\ revocations < plan.revocations /\ revocations' = revocations + 1
  /\ UNCHANGED <<callVars, resolving, flowVars>>

\* Mutant: an earlier link stays good.
StartFlow_Keeps(l) ==
  /\ l \in plan.logins /\ flow[l] = "none"
  /\ flow' = [flow EXCEPT ![l] = "pending"]
  /\ UNCHANGED answering

\* A new link supersedes the earlier ones of the same credential.
StartFlow(l) ==
  /\ l \in plan.logins /\ flow[l] = "none"
  /\ flow' = [k \in Login |-> CASE k = l -> "pending" [] k # l /\ flow[k] = "pending" -> "over"
                                [] OTHER -> flow[k]]
  /\ UNCHANGED answering

\* The link ran out, or the provider refused.
FlowEnds(l) ==
  /\ flow[l] \in {"pending", "exchanging"} /\ flow' = [flow EXCEPT ![l] = "over"]
  /\ UNCHANGED answering

\* The link is used up before the code is exchanged.
Callback(l) ==
  /\ flow[l] = "pending" /\ flow' = [flow EXCEPT ![l] = "exchanging"]
  /\ UNCHANGED answering

FlowSteps == \E l \in Login : StartFlow(l) \/ FlowEnds(l) \/ Callback(l)

Deposits(l) ==
  /\ flow[l] = "exchanging" /\ flow' = [flow EXCEPT ![l] = "deposited"]
  /\ usable' = TRUE
  /\ UNCHANGED <<callVars, resolving, revocations, answering>>

\* The committed escalations are listed.
ListsOpen(l) ==
  /\ flow[l] = "deposited" /\ flow' = [flow EXCEPT ![l] = "answering"]
  /\ answering' = [answering EXCEPT ![l] = {a \in rows.asked : a[2] > FirstAsk}]
  /\ UNCHANGED <<callVars, resolving, storeVars>>

\* Each is answered on its own; one that settled meanwhile needs nothing.
AnswersNext(l) ==
  /\ flow[l] = "answering"
  /\ \E a \in answering[l] :
       /\ answering' = [answering EXCEPT ![l] = @ \ {a}]
       /\ CoreAnswers(a[1], a[2]) \/ (a \notin warm.asked /\ phase # "down" /\ UNCHANGED callVars)
  /\ UNCHANGED <<resolving, storeVars, flow>>

-----------------------------------------------------------------------------
ParkingCommit == CommitAs(ParkingDurable(warm))
ParkingInDoubt == CommitInDoubtAs(ParkingDurable(warm))

Loop ==
  /\ \/ EventTurn \/ ParkTurn \/ CompleteTurn
     \/ ParkingCommit /\ UNCHANGED resolving
     \/ AfterCommit
     \/ Reload
  /\ UNCHANGED <<storeVars, flowVars>>

Peers ==
  \E c \in Call : CoreCalls(c) \/ CoreCancels(c)
                    \/ CoreAnswers(c, Own)
                    \/ \E x \in AuthorizeAsk : CoreAnswers(c, x)

Next ==
  \/ Loop
  \/ (Peers \/ Fail \/ ParkingInDoubt) /\ UNCHANGED <<resolving, storeVars, flowVars>>
  \/ Crash
  \/ \E c \in Call : Resolves(c)
  \/ FlowSteps /\ UNCHANGED <<callVars, resolving, storeVars>>
  \/ \E l \in Login : Deposits(l) \/ ListsOpen(l) \/ AnswersNext(l)
  \/ Revokes
-----------------------------------------------------------------------------
(* Properties.                                                             *)

OpenAsks(w, c) == {a \in w.openAsk : a[1] = c}

\* The state has its type.
TypeOK ==
  /\ warm.status \in [Call -> {"none", "running", "cancelling", "awaitingAnswer", "gone"}]
  /\ resolving \in [Call -> Nat]
  /\ \A c \in Call : warm.parked[c] \in {0} \cup AuthorizeAsk
  /\ \A l, k \in Login : flow[l] = "pending" /\ flow[k] = "pending" => l = k

\* A call that runs has something that will move it: a resolution, a queued
\* turn, or the park on an ask that is open and that core has or will have.
RunningIsDriven ==
  \A c \in Call :
    phase = "idle" /\ warm.status[c] = "running" /\ warm.held[c] = "nothing" =>
      \/ resolving[c] > 0
      \/ \E t \in ToSet(warm.mail) : t.d = c /\ t.k \in {"complete", "park", "terminate"}
      \/ LET x == warm.parked[c]
         IN /\ <<c, x>> \in rows.openAsk
            /\ \/ <<c, x>> \in warm.asked \/ warm.proxy[c] # "calling"
               \/ \E t \in ToSet(warm.mail) : t.d = c /\ t.k \in {"escalate", "escalateAck"} /\ t.x = x

\* A call whose ask is open and committed is not run behind its back: what it
\* waits for is the answer.
ParkedIsQuiet ==
  \A c \in Call : resolving'[c] > resolving[c] /\ rows.status[c] = "running"
    => OpenAsks(warm, c) = {} \/ c \in warm.retries

\* A call has one authorize ask at a time.
OneAsk == \A c \in Call : Cardinality(OpenAsks(warm, c)) <= 1

\* A call ends, fails or asks; a cancelled one ends.
CallOpen(c) == rows.proxy[c] \in {"calling", "cancelling"}
EndsOrAsks(c) ==
  \/ rows.proxy[c] = "done"
  \/ rows.proxy[c] = "calling"
     /\ (rows.status[c] = "awaitingAnswer" \/ \E a \in rows.asked : a[1] = c)

\* An ask that waits for a credential is answered once there is one.
AskOpen(c, x)     == <<c, x>> \in rows.asked /\ usable
AskAnswered(c, x) == <<c, x>> \notin rows.asked \/ ~usable
=============================================================================
