--------------------------- MODULE McpTransport ---------------------------
(***************************************************************************)
(* The SDK transport of the mcp reactor (runtime/external/mcp-transport.ts)*)
(* for one server and one credential: operations share a cached client,    *)
(* which bakes a bearer token into its headers; a 401 drops the client and *)
(* gets one silent refresh and one retry before a human is asked.          *)
(***************************************************************************)
EXTENDS Credentials, Sequences

CONSTANT Operation   \* operations, each dispatched once

\* A plan also says how many provide scopes close.
TransportAssumption ==
  CredentialAssumption /\ Operation \subseteq Resolver /\ \A p \in Plans : p.evictions \in Nat

VARIABLES
  cached,     \* the cached client; 0: none
  clients,    \* every client: [state, by, token, why]; `by` is the operation that made it
  bearer,     \* bearerTokens: the token of the last resolution
  op,         \* [Operation -> [pc, client, saw, retried, outcome]]
  evictions

clientVars == <<cached, clients, bearer, evictions>>
vars == <<credentialVars, clientVars, op>>

Init ==
  /\ CredentialInit
  /\ cached = 0 /\ clients = << >> /\ bearer = 0 /\ evictions = 0
  /\ op = [o \in Operation |-> [pc |-> "idle", client |-> 0, saw |-> 0, retried |-> FALSE, outcome |-> "none"]]

-----------------------------------------------------------------------------
Dispatch(o) ==
  /\ o \in plan.resolvers /\ op[o].pc = "idle" /\ op' = [op EXCEPT ![o].pc = "want"]
  /\ UNCHANGED <<credentialVars, clientVars>>

\* clientFor: joins the cached connect, or starts one, which resolves a token.
ClientFor(o) ==
  /\ op[o].pc = "want"
  /\ IF cached # 0
     THEN op' = [op EXCEPT ![o].pc = "joining", ![o].client = cached] /\ UNCHANGED <<cached, clients, res>>
     ELSE /\ clients' = Append(clients, [state |-> "resolving", by |-> o, token |-> 0, why |-> "none"])
          /\ cached' = Len(clients')
          /\ op' = [op EXCEPT ![o].pc = "joining", ![o].client = cached']
          /\ res' = [res EXCEPT ![o] = Begins(0)]
  /\ UNCHANGED <<tableVars, flight, bearer, evictions>>

\* Mutant: a failed connect stays cached.
Uncached_Not == cached

\* A failure drops the cached client, whichever it is.
Uncached == 0

ClientFails(n, why) ==
  /\ clients' = [clients EXCEPT ![n].state = "failed", ![n].why = why]
  /\ cached' = Uncached

\* connectionOptions: the token is baked in, and remembered for a later 401.
Connects(n) ==
  LET o == clients[n].by
  IN /\ clients[n].state = "resolving" /\ res[o].pc = "done"
     /\ res' = [res EXCEPT ![o] = Quiet]
     /\ IF res[o].kind = "token"
        THEN /\ clients' = [clients EXCEPT ![n].state = "dialing", ![n].token = res[o].token]
             /\ bearer' = res[o].token /\ UNCHANGED cached
        ELSE ClientFails(n, res[o].kind) /\ UNCHANGED bearer
     /\ UNCHANGED <<tableVars, flight, evictions, op>>

Outage == spent.outages < plan.outages /\ spent' = [spent EXCEPT !.outages = @ + 1]
Undisturbed == UNCHANGED <<stored, clock, logins, lineage, accepted, live, due, flight, res, plan>>

Dials(n) ==
  /\ clients[n].state = "dialing"
  /\ \/ /\ clients[n].token \in accepted
        /\ clients' = [clients EXCEPT ![n].state = IF clients[n].why = "evicted" THEN "closed" ELSE "open"]
        /\ UNCHANGED <<cached, spent>>
     \/ clients[n].token \notin accepted /\ ClientFails(n, "unauthorized") /\ UNCHANGED spent
     \/ Outage /\ ClientFails(n, "failure")
  /\ Undisturbed /\ UNCHANGED <<bearer, evictions, op>>

Joins(o) ==
  /\ op[o].pc = "joining" /\ clients[op[o].client].state \in {"open", "closed"}
  /\ op' = [op EXCEPT ![o].pc = "calling"]
  /\ UNCHANGED <<credentialVars, clientVars>>

Ended(o, outcome) == [op EXCEPT ![o].pc = "done", ![o].outcome = outcome]

\* classifyFailure, after the one refresh and retry that a 401 gets.
OpFails(o, why) ==
  /\ cached' = 0
  /\ IF why = "unauthorized" /\ ~op[o].retried
     THEN /\ op' = [op EXCEPT ![o].pc = "refreshing", ![o].retried = TRUE, ![o].saw = clients[op[o].client].token]
          /\ res' = [res EXCEPT ![o] = Begins(bearer)]
     ELSE /\ op' = Ended(o, IF why \in {"unauthorized", "authorize"} THEN "asks" ELSE "fails")
          /\ UNCHANGED res
  /\ UNCHANGED <<clients, bearer, evictions, tableVars, flight>>

ConnectFailed(o) ==
  /\ op[o].pc = "joining" /\ clients[op[o].client].state = "failed"
  /\ OpFails(o, clients[op[o].client].why)

Calls(o) ==
  LET c == clients[op[o].client]
  IN /\ op[o].pc = "calling"
     /\ \/ /\ c.state = "open" /\ c.token \in accepted /\ op' = Ended(o, "result")
           /\ UNCHANGED <<credentialVars, clientVars>>
        \/ c.state = "open" /\ c.token \notin accepted /\ OpFails(o, "unauthorized")
        \/ c.state = "closed" /\ OpFails(o, "failure")

\* retryWithRefreshedToken: the retry goes through clientFor again.
Refreshed(o) ==
  /\ op[o].pc = "refreshing" /\ res[o].pc = "done"
  /\ res' = [res EXCEPT ![o] = Quiet]
  /\ CASE res[o].kind = "token"     -> op' = [op EXCEPT ![o].pc = "want"] /\ UNCHANGED cached
       [] res[o].kind = "authorize" -> op' = Ended(o, "asks") /\ UNCHANGED cached
       [] res[o].kind = "failure"   -> op' = Ended(o, "fails") /\ cached' = 0
  /\ UNCHANGED <<tableVars, flight, clients, bearer, evictions>>

\* The last scope of the server closes: the client is closed once it is connected.
Evict ==
  /\ cached # 0 /\ evictions < plan.evictions /\ evictions' = evictions + 1
  /\ cached' = 0 /\ bearer' = 0
  /\ clients' = [clients EXCEPT ![cached].state = IF @ = "open" THEN "closed" ELSE @,
                                ![cached].why = IF clients[cached].state = "open" THEN @ ELSE "evicted"]
  /\ UNCHANGED <<credentialVars, op>>

\* A call of oauth.token resolves through the store of the oauth reactor.
Others ==
  \E r \in plan.resolvers \ Operation :
    /\ res[r].pc \in {"idle", "done"} /\ res' = [res EXCEPT ![r] = Begins(0)]
    /\ UNCHANGED <<tableVars, flight, clientVars, op>>

Next ==
  \/ \E o \in Operation :
       Dispatch(o) \/ ClientFor(o) \/ Joins(o) \/ ConnectFailed(o) \/ Calls(o) \/ Refreshed(o)
  \/ \E n \in DOMAIN clients : Connects(n) \/ Dials(n)
  \/ Evict \/ Others
  \/ (Resolution \/ World) /\ UNCHANGED <<clientVars, op>>
-----------------------------------------------------------------------------
(* Properties.                                                             *)

\* The state has its type; a client that failed is not in the cache.
TypeOK ==
  /\ cached \in {0} \cup DOMAIN clients
  /\ cached # 0 => clients[cached].state # "failed"
  /\ bearer \in {0} \cup Token
  /\ \A o \in Operation : op[o].outcome \in {"none", "result", "asks", "fails"}

\* A human is not asked while the credential can still be refreshed: one
\* revocation, whatever the clock says of it, costs an operation that is alone
\* a refresh and a retry.
NobodyIsAsked ==
  Cardinality(plan.resolvers) = 1 /\ plan.forgets = 0 /\ plan.evictions = 0 /\ plan.revocations <= 1
    => \A o \in Operation : op[o].outcome # "asks"

\* The token that the transport reports as rejected is the one that the
\* operation was rejected with.
HintIsRejected ==
  \A o \in Operation : op[o].pc = "refreshing" => res[o].hint \in {0, op[o].saw}
=============================================================================
