---------------------------- MODULE MCAuthorized ----------------------------
(* The reactors whose calls need a credential, and the transport that       *)
(* resolves one, one of them in a behaviour: oauth.token, the provides and   *)
(* tools of mcp, and the operations of the mcp transport.                    *)
EXTENDS Naturals, FiniteSets, Sequences, TLC

CONSTANTS
  a, l1, l2,       \* a call of oauth.token and two logins
  p0, p2, tl, d,    \* provides of no and of two servers, a minted tool and a static one
  o1, o2, r1,      \* operations of the transport and an oauth call
  mcp, oauth       \* the stores of the two reactors

VARIABLES
  reactor, warm, rows, phase, after, faults, crashes, plan,
  resolving, usable, revocations, flow, answering,
  scopes, listing, landed, wire, ran,
  stored, clock, logins, lineage, accepted, live, due, flight, res, spent,
  cached, clients, bearer, op, evictions

Bounds(calls, abandons, asks, parks, faultsMax, crashesMax, follow) ==
  [calls |-> calls, abandons |-> abandons, asks |-> asks, parks |-> parks, faults |-> faultsMax,
   crashes |-> crashesMax, follow |-> follow]
Trying(p, logs, revoked) == p @@ [logins |-> logs, revocations |-> revoked]
OAuthPlans == {
  Trying(Bounds({a}, {a}, {}, 2, 0, 0, a), {l1}, 1),
  Trying(Bounds({a}, {a}, {}, 1, 1, 0, a), {l1}, 0),
  Trying(Bounds({a}, {}, {}, 2, 0, 1, a), {l1, l2}, 0)}
McpPlans == {
  Bounds({p2}, {p2}, {}, 2, 0, 0, p2),
  Bounds({p2}, {}, {1}, 1, 1, 0, p2),
  Bounds({p0, d}, {d}, {}, 1, 0, 0, d),
  Bounds({p0, tl}, {tl}, {}, 1, 0, 0, tl),
  Bounds({p0, tl}, {}, {}, 1, 0, 1, tl)}
Grants(resolvers, tokens, revoked, forgets, outages, evicts) ==
  [resolvers |-> resolvers, tokens |-> tokens, revocations |-> revoked, forgets |-> forgets,
   outages |-> outages, evictions |-> evicts]
TransportPlans == {
  Grants({o1}, 3, 1, 0, 1, 0),
  Grants({o1}, 3, 1, 1, 0, 1),
  Grants({o1, o2}, 3, 1, 0, 0, 0),
  Grants({o1, r1}, 3, 1, 1, 0, 0)}

A == INSTANCE OAuth WITH
       Call <- {a}, Inner <- {}, ParentOf <- << >>, Plans <- OAuthPlans, Login <- {l1, l2}
M == INSTANCE Mcp WITH
       Call <- {p0, p2, tl, d}, Inner <- {1, 2}, ParentOf <- <<p2, p0>>, Plans <- McpPlans,
       Provide <- {p0, p2}, Tool <- {tl, d}, Direct <- {d},
       Servers <- [p \in {p0, p2} |-> IF p = p2 THEN 2 ELSE 0], ScopeOf <- [k \in {tl, d} |-> p0]
X == INSTANCE McpTransport WITH
       Resolver <- {o1, o2, r1}, Store <- {mcp, oauth}, MaxTokens <- 3, Plans <- TransportPlans,
       StoreOf <- [r \in {o1, o2, r1} |-> IF r = r1 THEN oauth ELSE mcp], Operation <- {o1, o2}

ASSUME A!OAuthBounds /\ M!McpAssumption /\ M!ParkBounds /\ X!TransportAssumption

Off == "off"

callVars  == <<warm, rows, phase, after, faults, crashes>>
oauthVars == <<resolving, usable, revocations, flow, answering>>
mcpVars   == <<scopes, listing, landed, wire, ran>>
wireVars  == <<stored, clock, logins, lineage, accepted, live, due, flight, res, spent,
               cached, clients, bearer, op, evictions>>
vars == <<reactor, callVars, plan, oauthVars, mcpVars, wireVars>>

OAuthOff == resolving = Off /\ usable = Off /\ revocations = Off /\ flow = Off /\ answering = Off
McpOff   == scopes = Off /\ listing = Off /\ landed = Off /\ wire = Off /\ ran = Off
WireOff  ==
  /\ stored = Off /\ clock = Off /\ logins = Off /\ lineage = Off /\ accepted = Off /\ live = Off
  /\ due = Off /\ flight = Off /\ res = Off /\ spent = Off
  /\ cached = Off /\ clients = Off /\ bearer = Off /\ op = Off /\ evictions = Off
CallOff  == warm = Off /\ rows = Off /\ phase = Off /\ after = Off /\ faults = 0 /\ crashes = 0

Init ==
  \/ reactor = "oauth"     /\ A!Init /\ McpOff /\ WireOff
  \/ reactor = "mcp"       /\ M!Init /\ OAuthOff /\ WireOff
  \/ reactor = "transport" /\ X!Init /\ OAuthOff /\ McpOff /\ CallOff

Authorizing(P) == reactor = "oauth" /\ P /\ UNCHANGED <<reactor, mcpVars, wireVars>>
Providing(P)   == reactor = "mcp" /\ P /\ UNCHANGED <<reactor, oauthVars, wireVars>>
Dialing(P)     == reactor = "transport" /\ P /\ UNCHANGED <<reactor, callVars, oauthVars, mcpVars>>

Next == Authorizing(A!Next) \/ Providing(M!Next) \/ Dialing(X!Next)

\* The loops go on; a resolution and an operation of the transport end, a login
\* that deposited goes on, a callee returns.  Only one reactor moves in a
\* behaviour, so a condition on a disjunction is one on each of its disjuncts.
ScopesKept == UNCHANGED <<scopes, listing, landed, wire, ran>>
Fairness ==
  /\ WF_vars(Authorizing(A!Loop) \/ Providing(M!Loop))
  /\ WF_vars(Authorizing(A!Resolves(a)) \/ Providing(M!ListingEnds(p2)))
  /\ WF_vars(Authorizing(A!ListsOpen(l1)) \/ Providing(M!Lowers(tl) \/ M!Answers(tl)))
  /\ WF_vars(Authorizing(A!ListsOpen(l2)) \/ Providing(M!Lowers(d) \/ M!Answers(d)))
  /\ WF_vars(Providing(M!CalleeReturns(1) /\ ScopesKept))
  /\ WF_vars(Providing(M!CalleeReturns(2) /\ ScopesKept))
  /\ \A l \in {l1, l2} : SF_vars(Authorizing(A!AnswersNext(l)))

Spec == Init /\ [][Next]_vars /\ Fairness
-----------------------------------------------------------------------------
On(name, P) == reactor = name => P

\* The state has its type; a client that failed is not in the cache.
TypeOK == On("oauth", A!TypeOK) /\ On("mcp", M!TypeOK) /\ On("transport", X!TypeOK)

\* A call that runs has something that will move it: a resolution, the
\* transport, a queued turn, or the answer to an ask that is open; a tool of a
\* running provide finds its scope, and one that outlived its provide does not.
Driven == On("oauth", A!RunningIsDriven) /\ On("mcp", M!ToolIsDriven /\ M!ScopeIsLive)

\* The server runs a tool call once, and a provide delegates its continuation
\* once, over parks, resets and crashes; one revocation costs an operation that
\* is alone a refresh and a retry, no human.
OnceOnly ==
  /\ On("mcp", M!AtMostOnce /\ M!ContinuationOnce)
  /\ On("transport", X!NobodyIsAsked)

\* A parked call is not run behind its back, and the latest deposit stands.
HumanDecides ==
  [][On("oauth", A!ParkedIsQuiet) /\ On("transport", X!DepositStands)]_vars

\* The call that the plan follows ends, fails or asks, and a cancelled one ends,
\* while no batch is dropped.
FollowedOpen ==
  CASE reactor = "oauth" -> A!CallOpen(plan.follow)
    [] reactor = "mcp"   -> M!CallOpen(plan.follow) /\ faults = 0
    [] OTHER             -> FALSE
FollowedEnded ==
  CASE reactor = "oauth" -> A!EndsOrAsks(plan.follow)
    [] reactor = "mcp"   -> M!EndsOrAsks(plan.follow) \/ faults > 0
    [] OTHER             -> TRUE
CallsEnd == FollowedOpen ~> FollowedEnded
=============================================================================
