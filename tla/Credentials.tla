---------------------------- MODULE Credentials ----------------------------
(***************************************************************************)
(* The credential core (runtime/external/credentials.ts) over the          *)
(* credentials table: a resolution loads the credential, hands its access  *)
(* token out while the clock or a 401 does not speak against it, and       *)
(* otherwise joins or starts the refresh of its store instance.  A refresh *)
(* writes back under the generation it loaded; a login writes always.      *)
(*                                                                         *)
(* A token is the number of the grant that minted it, standing for the     *)
(* access token and the single-use refresh token of that grant.  There is  *)
(* one credential name.                                                    *)
(***************************************************************************)
EXTENDS Naturals, FiniteSets

CONSTANTS
  Resolver,   \* what resolves a token, one resolution at a time
  Store,      \* store instances over the table
  StoreOf,    \* [Resolver -> Store]
  MaxTokens,  \* bound: grants
  Plans       \* bounds: what the surroundings may do in one behaviour, one record each

CredentialAssumption ==
  /\ StoreOf \in [Resolver -> Store] /\ MaxTokens \in Nat \ {0}
  /\ \A p \in Plans :
       /\ p.resolvers \subseteq Resolver /\ p.tokens \in 1..MaxTokens
       /\ p.revocations \in Nat /\ p.forgets \in Nat /\ p.outages \in Nat

VARIABLES
  stored,     \* the row: [gen, token]; token 0 when there is none
  clock,      \* milliseconds, advanced by every grant; no two are in the same one
  logins,     \* tokens that a login minted; the others were minted by a refresh
  lineage,    \* [token -> the login it descends from]
  accepted,   \* access tokens the server accepts
  live,       \* refresh tokens that have not been used
  due,        \* tokens up to here are past their lifetime by the clock
  flight,     \* [Store -> the refresh in flight]
  res,        \* [Resolver -> its resolution]
  spent,      \* what the plan bounds: [revocations, forgets, outages]
  plan        \* the member of Plans this behaviour keeps to

tableVars == <<stored, clock, logins, lineage, accepted, live, due, spent, plan>>
credentialVars == <<tableVars, flight, res>>

Token == 1..MaxTokens
NoFlight == [pc |-> "none", cred |-> [gen |-> 0, token |-> 0], token |-> 0]
Quiet == [pc |-> "idle", cred |-> [gen |-> 0, token |-> 0], hint |-> 0, kind |-> "none", token |-> 0]

CredentialInit ==
  /\ stored = [gen |-> 1, token |-> 1] /\ clock = 1 /\ logins = {1}
  /\ lineage = [k \in Token |-> IF k = 1 THEN 1 ELSE 0]
  /\ accepted = {1} /\ live = {1} /\ due = 0
  /\ flight = [s \in Store |-> NoFlight] /\ res = [r \in Resolver |-> Quiet]
  /\ spent = [revocations |-> 0, forgets |-> 0, outages |-> 0] /\ plan \in Plans

-----------------------------------------------------------------------------
(* The table.                                                              *)

\* Mutant: a new row starts at a fixed generation.
Seed_Fixed(now) == 1

\* A new row outranks what an earlier row of the name held.
Seed(now) == now

Bumped(now) == IF stored.gen + 1 > now THEN stored.gen + 1 ELSE now

\* Mutant: a refresh writes back whatever is stored.
Saved_Always(cred, token, now) == [gen |-> Bumped(now), token |-> token]

\* saveWithGeneration: refused when the row is gone or another.
Saved(cred, token, now) ==
  IF stored.token # 0 /\ stored.gen = cred.gen THEN [gen |-> Bumped(now), token |-> token] ELSE stored

\* A login's deposit wins always.
Login ==
  LET k == clock + 1
  IN /\ k <= plan.tokens /\ clock' = k
     /\ stored' = [gen |-> IF stored.token = 0 THEN Seed(k) ELSE Bumped(k), token |-> k]
     /\ logins' = logins \cup {k} /\ lineage' = [lineage EXCEPT ![k] = k]
     /\ accepted' = accepted \cup {k} /\ live' = live \cup {k}
     /\ UNCHANGED <<due, flight, res, spent, plan>>

Forget ==
  /\ stored.token # 0 /\ stored' = [gen |-> 0, token |-> 0]
  /\ spent.forgets < plan.forgets /\ spent' = [spent EXCEPT !.forgets = @ + 1]
  /\ UNCHANGED <<clock, logins, lineage, accepted, live, due, flight, res, plan>>

\* The server stops accepting an access token; by the clock, or without it.
Revoke ==
  /\ spent.revocations < plan.revocations /\ spent' = [spent EXCEPT !.revocations = @ + 1]
  /\ \E k \in accepted : accepted' = accepted \ {k} /\ due' \in {due, IF k > due THEN k ELSE due}
  /\ UNCHANGED <<stored, clock, logins, lineage, live, flight, res, plan>>

-----------------------------------------------------------------------------
(* resolveToken.                                                           *)

\* hint: the token the server rejected, or 0.
Begins(hint) == [Quiet EXCEPT !.pc = "loading", !.hint = hint]

Finished(kind, token) == [Quiet EXCEPT !.pc = "done", !.kind = kind, !.token = token]

Loads(r) ==
  /\ res[r].pc = "loading"
  /\ res' = [res EXCEPT ![r].pc = "loaded", ![r].cred = stored]
  /\ UNCHANGED <<tableVars, flight>>

\* Mutant: a rejected token is good while its clock runs.
Usable_ByClock(c, hint) == c.token > due

Usable(c, hint) == c.token > due /\ c.token # hint

\* The resolution goes on with what it loaded, however old that is by now.
Decides(r) ==
  LET c == res[r].cred
      s == StoreOf[r]
  IN /\ res[r].pc = "loaded"
     /\ IF c.token = 0 THEN res' = [res EXCEPT ![r] = Finished("authorize", 0)] /\ UNCHANGED flight
        ELSE IF Usable(c, res[r].hint) THEN res' = [res EXCEPT ![r] = Finished("token", c.token)] /\ UNCHANGED flight
        ELSE /\ res' = [res EXCEPT ![r].pc = "waiting"]
             /\ flight' = [flight EXCEPT ![s] = IF @.pc = "none" THEN [NoFlight EXCEPT !.pc = "posting", !.cred = c] ELSE @]
     /\ UNCHANGED tableVars

\* The flight of a store ends for all who wait for it.
Settles(s, kind, token) ==
  /\ flight' = [flight EXCEPT ![s] = NoFlight]
  /\ res' = [r \in Resolver |-> IF res[r].pc = "waiting" /\ StoreOf[r] = s THEN Finished(kind, token) ELSE res[r]]

\* The grant: a refresh token works once.
Posts(s) ==
  LET old == flight[s].cred.token
      k   == clock + 1
  IN /\ flight[s].pc = "posting"
     /\ \/ /\ old \in live /\ k <= plan.tokens /\ clock' = k
           /\ lineage' = [lineage EXCEPT ![k] = lineage[old]]
           /\ accepted' = accepted \cup {k} /\ live' = (live \ {old}) \cup {k}
           /\ flight' = [flight EXCEPT ![s].pc = "saving", ![s].token = k]
           /\ UNCHANGED <<stored, logins, due, spent, res, plan>>
        \/ /\ old \notin live
           /\ Settles(s, "authorize", 0) /\ UNCHANGED tableVars
        \/ /\ spent.outages < plan.outages /\ spent' = [spent EXCEPT !.outages = @ + 1]
           /\ Settles(s, "failure", 0)
           /\ UNCHANGED <<stored, clock, logins, lineage, accepted, live, due, plan>>

\* A write that was refused is no error: the minted token is used.
Saves(s) ==
  /\ flight[s].pc = "saving"
  /\ stored' = Saved(flight[s].cred, flight[s].token, clock)
  /\ Settles(s, "token", flight[s].token)
  /\ UNCHANGED <<clock, logins, lineage, accepted, live, due, spent, plan>>

Resolution ==
  \/ \E r \in Resolver : Loads(r) \/ Decides(r)
  \/ \E s \in Store : Posts(s) \/ Saves(s)

World == Login \/ Forget \/ Revoke

-----------------------------------------------------------------------------
(* Properties.                                                             *)

\* What is written to the table descends from the latest login, and a
\* forgotten credential comes back only by a login.
DepositStands ==
  stored'.token \notin {0, stored.token} =>
    /\ \A k \in logins' : k <= lineage'[stored'.token]
    /\ stored.token = 0 => stored'.token \in logins'

\* A refresh token is used once: no flight posts a token that is burnt.
OneGrant == \A s \in Store : flight[s].pc = "posting" => flight[s].cred.token \in live
=============================================================================
