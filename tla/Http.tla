-------------------------------- MODULE Http --------------------------------
(***************************************************************************)
(* The http reactor (runtime/actor/http-reactor.ts) over its in-runtime    *)
(* transport (runtime/external/http-transport.ts), and the producer that   *)
(* stores a downloaded body as a blob (runtime/actor/project-actor.ts).    *)
(* A request is sent after the commit of its call, at most once; a reload  *)
(* leaves one that is in flight alone and fails one that is gone.          *)
(*                                                                         *)
(* A download is three steps: the bytes are put, a command turn registers  *)
(* their row under the call's instance, and only when that turn has        *)
(* committed does the transport answer.                                    *)
(***************************************************************************)
EXTENDS CallReactor

CONSTANT Download  \* the calls of fetch_file; the others answer with text
HttpAssumption == Download \subseteq Call

VARIABLES
  requests,  \* the transport's controllers: [Call -> state of the request]
  signalled, \* calls whose signal is aborted
  bytes,     \* calls whose downloaded bytes are in the blob store
  sent       \* observed: [Call -> how often its request was sent]

transport == <<requests, signalled>>
httpVars == <<transport, bytes, sent>>
vars == <<callVars, httpVars>>

\* The row of a downloaded blob: its owner, or "none".  "transit" has no owner
\* while the answer that carries the handle travels.
HttpWarm == WarmWith(
  [blob      |-> [c \in Call |-> "none"],
   reclaimed |-> {}])  \* blobs whose bytes go after this commit

HttpDurable(w) == [Durable(w) EXCEPT !.reclaimed = {}]

Init ==
  /\ InitFrom(HttpWarm)
  /\ requests = [c \in Call |-> "none"] /\ signalled = {} /\ bytes = {}
  /\ sent = [c \in Call |-> 0]

-----------------------------------------------------------------------------
(* Turns.  An answered call has released its blob to the answer; one that is *)
(* dropped otherwise takes its blob, whose bytes go after the commit.       *)

\* The calls that this turn drops while they own their blob.
Dropping(next) == {c \in Call : warm.blob[c] = "call" /\ next.status[c] = "gone"}
Answered(next) == {c \in Dropping(next) : Event("delegateAck", c, Own) \in ToSet(next.mail)}

\* Mutant: a call that did not answer keeps its blob.
HttpTurn_KeepsBlob(next) ==
  /\ Turn([next EXCEPT
       !.blob = [c \in Call |-> IF c \in Answered(next) THEN "transit" ELSE @[c]]])
  /\ UNCHANGED httpVars

HttpTurn(next) ==
  LET lost == Dropping(next) \ Answered(next)
  IN /\ Turn([next EXCEPT
          !.blob = [c \in Call |-> CASE c \in Answered(next) -> "transit"
                                   [] c \in lost           -> "none"
                                   [] OTHER                -> @[c]],
          !.reclaimed = @ \cup lost])
     /\ UNCHANGED httpVars

\* The caller takes what the answer carries.
Received(w, t) ==
  IF t.k = "delegateAck" /\ t.d \in Call /\ w.blob[t.d] = "transit"
  THEN [CoreReact(w, t) EXCEPT !.blob[t.d] = "caller"]
  ELSE CoreReact(w, t)

EventTurn ==
  /\ Ready /\ IsEvent(Head(warm.mail))
  /\ LET t == Head(warm.mail)
     IN IF ToReactor(t)
        THEN HttpTurn(ReactorReact(Taken, t)) /\ after' = Append(after, t)
        ELSE HttpTurn(Received(Taken, t)) /\ UNCHANGED after

CompleteTurn ==
  /\ Ready /\ Head(warm.mail).k = "complete"
  /\ LET t == Head(warm.mail) IN HttpTurn(Complete(Taken, t.d, t.o))
  /\ UNCHANGED after

\* registerProducedBlob, as a command turn.
RegisterTurn ==
  /\ Ready /\ Head(warm.mail).k = "register"
  /\ LET c == Head(warm.mail).d
     IN /\ Turn(IF Live(warm, c) THEN [Taken EXCEPT !.blob[c] = "call"] ELSE Taken)
        /\ requests' = [requests EXCEPT ![c] = IF Live(warm, c) THEN "registered" ELSE "refused"]
  /\ UNCHANGED <<after, signalled, bytes, sent>>

-----------------------------------------------------------------------------
(* The transport.                                                          *)

Queue(work) ==
  /\ warm' = [warm EXCEPT !.mail = Append(@, work)]
  /\ UNCHANGED <<rows, phase, after, faults, crashes, plan>>

\* A settled request gives its controller up as it reports.
Settles(c, outcome) ==
  /\ Queue(Completion(c, outcome))
  /\ requests' = [requests EXCEPT ![c] = "none"]
  /\ signalled' = signalled \ {c}

\* A response, or none; an aborted request ends with the error of its signal.
Responds(c) ==
  /\ requests[c] = "sent"
  /\ \/ c \in signalled /\ Settles(c, "cancelled")
     \/ c \notin signalled /\ Settles(c, "failure")
     \/ c \notin signalled \cup Download /\ Settles(c, "result")
  /\ UNCHANGED <<bytes, sent>>

\* Mutant: the handle is answered while its row is still to be registered.
Stores_Eager(c) ==
  /\ c \in Download /\ requests[c] = "sent"
  /\ Settles(c, "result") /\ bytes' = bytes \cup {c}
  /\ UNCHANGED sent

\* captureResponseFile: the body is put, then its registration is queued.
Stores(c) ==
  /\ c \in Download /\ requests[c] = "sent"
  /\ requests' = [requests EXCEPT ![c] = "storing"] /\ bytes' = bytes \cup {c}
  /\ Queue(Work("register", c))
  /\ UNCHANGED <<signalled, sent>>

\* The call vanished before its download was registered: the bytes are dropped.
Refused(c) ==
  /\ requests[c] = "refused" /\ phase \in {"idle", "post"}
  /\ Settles(c, "failure") /\ bytes' = bytes \ {c}
  /\ UNCHANGED sent

\* The registration has committed.
Captured(c) ==
  /\ requests[c] = "committed"
  /\ Settles(c, "result")
  /\ UNCHANGED <<bytes, sent>>

Committed ==
  /\ CommitAs(HttpDurable(warm))
  /\ requests' = [c \in Call |-> IF requests[c] = "registered" THEN "committed" ELSE requests[c]]
  /\ UNCHANGED <<signalled, bytes, sent>>

Dispatched == {c \in Call : Live(warm, c) /\ Event("delegate", c, Own) \in ToSet(after)}
Aborted    == {c \in Call : warm.status[c] = "cancelling"
                              /\ Event("terminate", c, Own) \in ToSet(after)}

AfterCommit ==
  /\ phase = "post" /\ phase' = "idle" /\ after' = << >>
  /\ requests' = [c \in Call |-> IF c \in Dispatched THEN "sent" ELSE requests[c]]
  /\ sent' = [c \in Call |-> sent[c] + IF c \in Dispatched THEN 1 ELSE 0]
  /\ LET held == {c \in Call : requests'[c] # "none"}
     IN /\ signalled' = signalled \cup (Aborted \cap held)
        /\ warm' = [warm EXCEPT !.staged = << >>, !.reclaimed = {},
             !.mail = @ \o SetToSeq({Completion(c, "cancelled") : c \in Aborted \ held})]
  /\ bytes' = bytes \ warm.reclaimed
  /\ UNCHANGED <<rows, faults, crashes, plan>>

-----------------------------------------------------------------------------
(* Failure, reload and restart.                                            *)

\* A dropped batch or a failed load rejects the registrations that waited for it:
\* their requests fail.  The bytes stay.
Rejected == {c \in Call : requests[c] \in {"storing", "registered", "refused"}}

Dropped(durable) ==
  /\ phase' = "down" /\ after' = << >>
  /\ warm' = [durable EXCEPT !.mail =
       SetToSeq({Completion(c, IF c \in signalled THEN "cancelled" ELSE "failure") : c \in Rejected})]
  /\ requests' = [c \in Call |-> IF c \in Rejected THEN "none" ELSE requests[c]]
  /\ signalled' = signalled \ Rejected

Fails ==
  /\ phase # "post" /\ faults < plan.faults /\ faults' = faults + 1
  /\ Dropped(rows)
  /\ UNCHANGED <<rows, crashes, plan, bytes, sent>>

FailsInDoubt ==
  /\ phase = "batch" /\ faults < plan.faults /\ faults' = faults + 1
  /\ rows' = HttpDurable(warm)
  /\ Dropped(HttpDurable(warm))
  /\ UNCHANGED <<crashes, plan, bytes, sent>>

Crash ==
  /\ crashes < plan.crashes /\ crashes' = crashes + 1
  /\ Forget(rows)
  /\ requests' = [c \in Call |-> "none"] /\ signalled' = {}
  /\ UNCHANGED <<rows, faults, plan, bytes, sent>>

Running    == {c \in Call : rows.status[c] = "running"}
Cancelling == {c \in Call : rows.status[c] = "cancelling"}
Gone       == {c \in Call : requests[c] = "none"}

\* Mutants: a reloaded call is sent again; it is left to itself.
Reload_Resends ==
  /\ Load(SetToSeq({Completion(c, "cancelled") : c \in Cancelling \cap Gone}))
  /\ requests' = [c \in Call |-> IF c \in Running \cap Gone THEN "sent" ELSE requests[c]]
  /\ sent' = [c \in Call |-> sent[c] + IF c \in Running \cap Gone THEN 1 ELSE 0]
  /\ signalled' = signalled \cup (Cancelling \ Gone)
  /\ UNCHANGED bytes

Reload_Silent ==
  /\ Load(SetToSeq({Completion(c, "cancelled") : c \in Cancelling \cap Gone}))
  /\ signalled' = signalled \cup (Cancelling \ Gone)
  /\ UNCHANGED <<requests, bytes, sent>>

Reload ==
  /\ Load(SetToSeq({Completion(c, "failure") : c \in Running \cap Gone}
                     \cup {Completion(c, "cancelled") : c \in Cancelling \cap Gone}))
  /\ signalled' = signalled \cup (Cancelling \ Gone)
  /\ UNCHANGED <<requests, bytes, sent>>

-----------------------------------------------------------------------------
Loop ==
  \/ EventTurn \/ CompleteTurn \/ RegisterTurn
  \/ Committed \/ AfterCommit
  \/ Reload

Peers == \E c \in Call : CoreCalls(c) \/ CoreCancels(c) \/ CoreAnswers(c, Own)

Transport == \E c \in Call : Responds(c) \/ Stores(c) \/ Refused(c) \/ Captured(c)

Next ==
  \/ Loop
  \/ Peers /\ UNCHANGED httpVars
  \/ Transport
  \/ Fails \/ FailsInDoubt \/ Crash
-----------------------------------------------------------------------------
(* Properties.                                                             *)

\* A request is sent at most once, whatever is replayed or reloaded.
AtMostOnce == \A c \in Call : sent[c] <= 1

\* A running call has something that will end it: its request, or a turn that
\* carries the outcome.
RunningIsDriven ==
  \A c \in Call :
    phase # "down" /\ warm.status[c] = "running" /\ warm.held[c] = "nothing"
      /\ Event("delegate", c, Own) \notin ToSet(after) =>
      requests[c] # "none" \/ \E t \in ToSet(warm.mail) : t.k = "complete" /\ t.d = c

\* The handle of a download reaches the reactor only when its row is committed;
\* a committed row has its bytes, and an owner that lives until the answer has
\* handed it on.
HandleIsDurable ==
  /\ \A c \in Download :
       Completion(c, "result") \in ToSet(warm.mail) /\ warm.status[c] = "running" => rows.blob[c] = "call"
  /\ \A c \in Call : rows.blob[c] # "none" => c \in bytes
  /\ \A c \in Call : rows.blob[c] = "call" => Live(rows, c)

\* A call ends, or fails and waits for its handler, whatever goes wrong.
CallOpen(c)    == rows.proxy[c] \in {"calling", "cancelling"}
CallSettled(c) == rows.proxy[c] = "done" \/ rows.status[c] = "awaitingAnswer"

\* While no batch is dropped and the process stays up, bytes that no row names
\* are on their way to one, or to being deleted.
NoOrphanBytes ==
  faults = 0 /\ crashes = 0 => \A c \in bytes :
    rows.blob[c] # "none" \/ requests[c] # "none" \/ c \in warm.reclaimed
=============================================================================
