-------------------------------- MODULE Mcp --------------------------------
(***************************************************************************)
(* The client side of the mcp reactor (runtime/actor/mcp-reactor.ts): a    *)
(* provide lists its servers, opens a scope and delegates its              *)
(* continuation once; tools are called under the scope, at most once; any  *)
(* of them parks when the server wants a credential.                       *)
(*                                                                         *)
(* The transport is reduced to what it does to a call; its clients and     *)
(* tokens are McpTransport's subject.  The endpoints that mcp.serve opens  *)
(* work as those of Webhook.  All provides name one server, so that a      *)
(* direct call has its live scope as soon as one is open.                  *)
(***************************************************************************)
EXTENDS Parking

CONSTANTS
  Provide,    \* calls of mcp.provide, mcp.provide_all and mcp.open
  Tool,       \* calls of tools
  Direct,     \* those that are static: mcp.call
  Servers,    \* [Provide -> Nat]: how many servers it lists; none for mcp.open
  ScopeOf     \* [Tool -> Provide]: where a minted tool was minted

McpAssumption ==
  /\ Call = Provide \cup Tool /\ Provide \cap Tool = {} /\ Direct \subseteq Tool
  /\ Servers \in [Provide -> Nat] /\ ScopeOf \in [Tool -> Provide]
  /\ ParentOf \in [Inner -> Provide]

VARIABLES
  scopes,   \* provides whose scope is open (memory of the reactor)
  listing,  \* [Provide -> its listing under way: "none", "asked", "answered"]
  landed,   \* [Provide -> the listings that have landed]
  wire,     \* [Tool -> what the transport does for it]; survives a reset, not the process
  ran       \* [Tool -> how often the server ran it]

scopeVars == <<scopes, listing, landed>>
wireVars == <<wire, ran>>
vars == <<callVars, scopeVars, wireVars>>

McpWarm == ParkingWarm @@
  [cont |-> [p \in Provide |-> TRUE],   \* the continuation is still to be delegated
   full |-> [t \in Tool |-> FALSE]]     \* the payload holds the dispatch; FALSE: "recovered"

\* A parked call's row holds its dispatch, another's only says that it is a transport call.
McpDurable(w) == [ParkingDurable(w) EXCEPT !.full = [t \in Tool |-> w.full[t] /\ w.parked[t] # 0]]

Init ==
  /\ InitFrom(McpWarm)
  /\ scopes = {} /\ listing = [p \in Provide |-> "none"] /\ landed = [p \in Provide |-> 0]
  /\ wire = [t \in Tool |-> "idle"] /\ ran = [t \in Tool |-> 0]

-----------------------------------------------------------------------------
(* The registry of the provide scopes.                                     *)

OpenScopes(ps) == scopes \cup ps

\* A scope goes with its provide.
OpenScopesIn(w) == {p \in scopes : Live(w, p)}

-----------------------------------------------------------------------------
(* Turns.  A dropped provide closes its scope and forgets its listing.     *)

McpTurn(next, listed) ==
  /\ Turn(Evicted(next))
  /\ scopes' = OpenScopesIn(next)
  /\ listing' = [p \in Provide |-> IF Live(next, p) THEN listed[p] ELSE "none"]
  /\ UNCHANGED wireVars

\* A delegated tool call has its dispatch.
McpReact(w, t) ==
  IF t.k = "delegate" /\ t.d \in Tool
  THEN [ParkingReact(w, t) EXCEPT !.full[t.d] = TRUE]
  ELSE ParkingReact(w, t)

EventTurn ==
  /\ Ready /\ IsEvent(Head(warm.mail))
  /\ LET t == Head(warm.mail)
     IN IF ToReactor(t)
        THEN McpTurn(McpReact(Taken, t), listing) /\ after' = Append(after, t)
        ELSE McpTurn(CoreReact(Taken, t), listing) /\ UNCHANGED after
  /\ UNCHANGED landed

CompleteTurn ==
  /\ Ready /\ Head(warm.mail).k = "complete"
  /\ McpTurn(Complete(Taken, Head(warm.mail).d, Head(warm.mail).o), listing)
  /\ UNCHANGED <<after, landed>>

\* The operation, a listing or a tool's, was refused for its credential.
ParkTurn ==
  /\ Ready /\ Head(warm.mail).k = "park"
  /\ LET c == Head(warm.mail).d
     IN McpTurn(ParkCall(Taken, c), [p \in Provide |-> IF p = c THEN "none" ELSE listing[p]])
  /\ UNCHANGED <<after, landed>>

\* A listing settled.  The next server is listed, or the continuation is due.
ListedTurn ==
  /\ Ready /\ Head(warm.mail).k = "listed"
  /\ LET p == Head(warm.mail).d
         o == Head(warm.mail).o
         n == landed[p] + 1
     IN CASE listing[p] # "answered" ->
               McpTurn(Taken, listing) /\ UNCHANGED landed
          [] listing[p] = "answered" /\ o = "result" ->
               /\ landed' = [landed EXCEPT ![p] = n]
               /\ McpTurn(IF n < Servers[p] THEN Taken ELSE [Taken EXCEPT !.mail = Append(@, Work("start", p))],
                          [listing EXCEPT ![p] = IF n < Servers[p] THEN "asked" ELSE "none"])
          [] listing[p] = "answered" /\ o # "result" ->
               /\ McpTurn([Taken EXCEPT !.mail = Append(@, Completion(p, o))], [listing EXCEPT ![p] = "none"])
               /\ UNCHANGED landed
  /\ UNCHANGED after

ContinuationOf(p) == CHOOSE i \in Inner : ParentOf[i] = p

\* Mutant: the continuation is not consumed.
Started_Keeps(w, p) ==
  IF w.cont[p] /\ AcceptsWork(w, p) THEN OpenInner(w, ContinuationOf(p), "continuation") ELSE w

Started(w, p) ==
  IF w.cont[p] /\ AcceptsWork(w, p)
  THEN [OpenInner(w, ContinuationOf(p), "continuation") EXCEPT !.cont[p] = FALSE]
  ELSE w

StartTurn ==
  /\ Ready /\ Head(warm.mail).k = "start"
  /\ McpTurn(Started(Taken, Head(warm.mail).d), listing)
  /\ UNCHANGED <<after, landed>>

-----------------------------------------------------------------------------
(* What follows a commit, a reload and a crash.                            *)

Scheduled(calls, o) == SetToSeq({Completion(c, o) : c \in calls})

Opening    == {c \in Call : Live(warm, c) /\ Event("delegate", c, Own) \in ToSet(after)}
Cancelling == {c \in Call : warm.status[c] = "cancelling" /\ Event("terminate", c, Own) \in ToSet(after)}

\* The scope gate: a minted tool needs its own scope, a static one any of its server.
Gate(t, open) == IF t \in Direct THEN open # {} ELSE ScopeOf[t] \in open

\* A tool the transport holds is aborted there; anything else is confirmed as cancelled.
Held(c) == c \in Tool /\ wire[c] \in {"sent", "served"}

Aborting(sent, stopping) ==
  [t \in Tool |-> CASE t \in stopping /\ (Held(t) \/ t \in sent \ Direct) -> "aborted"
                    [] t \in sent /\ t \notin stopping -> IF t \in Direct THEN "lowering" ELSE "sent"
                    [] t \in sent \cap Direct /\ t \in stopping -> "lowering"
                    [] OTHER -> wire[t]]

\* Lists, or goes on to the continuation when there is nothing to list.
Lists(ps) == {p \in ps : landed[p] < Servers[p]}

\* redispatchParked fails for a call that lost its dispatch; the failure is only logged.
RedispatchParked(w) == {c \in Retried(w) : c \in Tool => w.full[c]}

AfterCommit ==
  LET begun   == Opening \cup RedispatchParked(warm)
      open    == OpenScopes(Opening \cap Provide)
      tools   == begun \cap Tool
      refused == {t \in tools : ~Gate(t, open)}
      held(c) == Held(c) \/ c \in (tools \ refused) \ Direct
  IN /\ phase = "post" /\ phase' = "idle" /\ after' = << >>
     /\ scopes' = open
     /\ listing' = [p \in Provide |-> IF p \in Lists(begun \cap Provide) THEN "asked" ELSE listing[p]]
     /\ wire' = Aborting(tools \ refused, Cancelling)
     /\ warm' = [warm EXCEPT !.staged = << >>, !.retries = {},
          !.mail = @ \o [n \in DOMAIN warm.staged |-> Completion(warm.staged[n].call, warm.staged[n].outcome)]
                     \o SetToSeq({Work("start", p) : p \in (begun \cap Provide) \ Lists(begun \cap Provide)})
                     \o Scheduled(refused, "failure")
                     \o Scheduled({c \in Cancelling : ~held(c)}, "cancelled")]
     /\ UNCHANGED <<rows, faults, crashes, plan, landed, ran>>

\* Mutant: a reload runs the interrupted tools again.
Rerun_All(w) == {t \in Tool : w.status[t] = "running" /\ w.parked[t] = 0 /\ ~Held(t)}

\* An interrupted tool is not run again.
Rerun(w) == {}

\* Mutant: a provide that waits for its continuation is not served again.
Reopened_Listing(w) == {p \in Provide : w.status[p] = "running" /\ w.cont[p]}

\* The provides whose scope opens again.
Reopened(w) == {p \in Provide : w.status[p] = "running"}

\* A reloaded provide lists from its first server.
Relanded == [p \in Provide |-> 0]

\* Mutant: an interrupted tool is left to itself.
Lost_None(tools) == {}

\* The transport does not know these any more.
Lost(tools) == {t \in tools : ~Held(t) /\ wire[t] # "aborted"}

Reload ==
  LET loaded  == ReconstructPark(warm)
      running == {c \in Call : loaded.status[c] = "running" /\ loaded.parked[c] = 0}
      ending  == {c \in Call : loaded.status[c] = "cancelling"}
      resumed == {p \in running \cap Provide : loaded.cont[p]}
      asked   == {p \in resumed : Servers[p] > 0}
  IN /\ LoadAs(loaded, Scheduled(Lost(running \cap Tool) \ Rerun(loaded), "failure")
                       \o Scheduled({c \in ending : ~Held(c) /\ (c \in Tool => wire[c] # "aborted")}, "cancelled")
                       \o SetToSeq({Work("start", p) : p \in resumed \ asked}))
     /\ scopes' = Reopened(loaded)
     /\ listing' = [p \in Provide |-> IF p \in asked THEN "asked" ELSE "none"]
     /\ landed' = Relanded
     /\ wire' = Aborting(Rerun(loaded) \ Direct, ending)
     /\ UNCHANGED ran

\* A failed batch forgets the scopes and the listings.
Reset == scopes' = {} /\ listing' = [p \in Provide |-> "none"] /\ UNCHANGED landed

Crash ==
  /\ crashes < plan.crashes /\ crashes' = crashes + 1
  /\ Forget(rows) /\ Reset
  /\ wire' = [t \in Tool |-> "idle"]
  /\ UNCHANGED <<rows, faults, plan, ran>>

-----------------------------------------------------------------------------
(* The transport and the server.                                           *)

Emits(works) ==
  /\ \E work \in works : warm' = [warm EXCEPT !.mail = Append(@, work)]
  /\ UNCHANGED <<rows, phase, after, faults, crashes, plan>>

Refusal(c) == IF MayPark(warm, c) THEN {Work("park", c)} ELSE {}

ListingEnds(p) ==
  /\ listing[p] = "asked" /\ listing' = [listing EXCEPT ![p] = "answered"]
  /\ Emits({[Work("listed", p) EXCEPT !.o = o] : o \in {"result", "failure"}} \cup Refusal(p))
  /\ UNCHANGED <<scopes, landed, wireVars>>

\* The arguments of a static call are read from blobs; then it is sent, if the call is still known.
Lowers(t) ==
  /\ wire[t] = "lowering"
  /\ \/ /\ wire' = [wire EXCEPT ![t] = IF phase # "down" /\ Live(warm, t) THEN "sent" ELSE "idle"]
        /\ UNCHANGED callVars
     \/ wire' = [wire EXCEPT ![t] = "idle"] /\ Emits({Completion(t, "failure")})
  /\ UNCHANGED <<scopeVars, ran>>

Serves(t) ==
  /\ wire[t] = "sent" /\ wire' = [wire EXCEPT ![t] = "served"]
  /\ ran' = [ran EXCEPT ![t] = @ + 1]
  /\ UNCHANGED <<callVars, scopeVars>>

\* A call that the server refused for its credential did not run.
Answers(t) ==
  /\ wire[t] \in {"sent", "served", "aborted"} /\ wire' = [wire EXCEPT ![t] = "idle"]
  /\ Emits(CASE wire[t] = "sent"    -> {Completion(t, "failure")} \cup Refusal(t)
             [] wire[t] = "served"  -> {Completion(t, "result"), Completion(t, "failure")}
             [] wire[t] = "aborted" -> {Completion(t, "cancelled")})
  /\ UNCHANGED <<scopeVars, ran>>

-----------------------------------------------------------------------------
McpCommit == CommitAs(McpDurable(warm)) /\ UNCHANGED <<scopeVars, wireVars>>

Loop ==
  \/ EventTurn \/ ParkTurn \/ CompleteTurn \/ ListedTurn \/ StartTurn
  \/ McpCommit \/ AfterCommit \/ Reload

\* A tool value exists once its provide handed it to the continuation.
Minted(t) == t \in Direct \/ ~warm.cont[ScopeOf[t]]

Peers ==
  \/ \E c \in Call :
       \/ (c \in Tool => Minted(c)) /\ CoreCalls(c)
       \/ CoreCancels(c)
       \/ \E x \in {Own} \cup Inner \cup AuthorizeAsk : CoreAnswers(c, x)
  \/ \E i \in Inner : CalleeReturns(i) \/ CalleeAsks(i)

Transport ==
  \/ \E p \in Provide : ListingEnds(p)
  \/ \E t \in Tool : Lowers(t) \/ Serves(t) \/ Answers(t)

Next ==
  \/ Loop \/ Transport \/ Crash
  \/ Peers /\ UNCHANGED <<scopeVars, wireVars>>
  \/ (Fail \/ CommitInDoubtAs(McpDurable(warm))) /\ Reset /\ UNCHANGED wireVars
-----------------------------------------------------------------------------
(* Properties.                                                             *)

\* The state has its type.
TypeOK ==
  /\ warm.status \in [Call -> {"none", "running", "cancelling", "awaitingAnswer", "gone"}]
  /\ scopes \subseteq Provide
  /\ listing \in [Provide -> {"none", "asked", "answered"}]
  /\ wire \in [Tool -> {"idle", "lowering", "sent", "served", "aborted"}]
  /\ \A p \in Provide : landed[p] \in 0..Servers[p]

\* The server runs a tool call at most once, over parks, resets and crashes.
AtMostOnce == \A t \in Tool : ran[t] <= 1

\* A continuation is delegated once, however often its provide lists again.
ContinuationOnce ==
  \A i \in Inner :
    Cardinality({n \in DOMAIN warm.mail : warm.mail[n] = Event("delegate", i, Own)})
      + (IF warm.callee[i] = "none" THEN 0 ELSE 1) <= 1

\* Between batches the scopes are open of exactly the provides that run, save
\* for one that winds down: a tool of a running provide finds its scope, and
\* one that outlived its provide does not.
ScopeIsLive ==
  phase = "idle" =>
    /\ {p \in Provide : warm.status[p] = "running"} \subseteq scopes
    /\ \A p \in scopes : Live(warm, p)

\* A tool call that runs is with the transport, has its end queued, or waits
\* for the answer to an ask that is open.
ToolIsDriven ==
  \A t \in Tool :
    phase = "idle" /\ warm.status[t] = "running" =>
      \/ wire[t] # "idle"
      \/ \E e \in ToSet(warm.mail) : e.d = t /\ e.k \in {"complete", "park", "terminate"}
      \/ <<t, warm.parked[t]>> \in rows.openAsk

\* A parked tool call holds the dispatch that its answer will run.
ParkIsRerunnable == \A t \in Tool : warm.status[t] = "running" /\ warm.parked[t] # 0 => warm.full[t]

\* A static call is not sent to the server once it is cancelled or has failed.
DeadCallStaysHome ==
  \A t \in Direct : wire[t] = "lowering" /\ wire'[t] = "sent" => warm.status[t] = "running"

\* A call ends, fails or asks; a cancelled one ends.
CallOpen(c) == rows.proxy[c] \in {"calling", "cancelling"}
EndsOrAsks(c) ==
  \/ rows.proxy[c] = "done"
  \/ rows.proxy[c] = "calling"
     /\ (rows.status[c] = "awaitingAnswer" \/ \E a \in rows.asked : a[1] = c \/ a[2] \in Inner)
=============================================================================
