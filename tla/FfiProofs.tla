----------------------------- MODULE FfiProofs -----------------------------
(***************************************************************************)
(* The safety of the ffi reactor over its sidecar, for any number of calls *)
(* and inner delegations, any plan and any misfortune: FInv is inductive,  *)
(* and implies what the run Ffi checks.                                    *)
(***************************************************************************)
EXTENDS Ffi, CallReactorProofs

\* A start of the handler of c waits for the spawn.
Starts(c) == <<"dispatch", c>> \in chained

\* The routes, the process and what is chained to its promise agree.
Route ==
  /\ RouteIsLive
  /\ process \in {"absent", "pending", "up"}
  /\ process # "up" => \A c \in Call : handler[c] = "none"
  /\ process # "pending" => chained = {}
  /\ chained \subseteq {"dispatch", "abort", "recover"} \X Call
  /\ handler \in [Call -> {"none", "running", "aborted"}]

Requests == {Work("innerDelegate", i) : i \in Inner}

\* What is not an event comes from the transport.
MailWork(m) == \A t \in ToSet(m) : ~IsEvent(t) => t \in Completions \cup Requests

\* A token opens one delegation at most, whatever is rolled back.
MintOk(i) ==
  LET req == Work("innerDelegate", i)
  IN /\ i \notin minted =>
          warm.edge[i] = "none" /\ rows.edge[i] = "none" /\ ~Has(warm.mail, req)
     /\ Has(warm.mail, req) => warm.edge[i] = "none" /\ rows.edge[i] = "none"
     /\ ~Precedes(warm.mail, req, req)

Minting ==
  /\ minted \subseteq Inner /\ waiting \subseteq minted
  /\ \A i \in Inner : MintOk(i)

SameRows ==
  /\ warm.status = rows.status /\ warm.edge = rows.edge /\ warm.relays = rows.relays
  /\ warm.bridge = rows.bridge /\ warm.proxy = rows.proxy
  /\ warm.asked = rows.asked /\ warm.callee = rows.callee

\* What is memory and what is durable, in each phase.
Phases ==
  /\ phase \in {"down", "idle", "batch", "post"}
  /\ IsWarm(warm) /\ Consistent(rows)
  /\ rows.held = [c \in Call |-> "nothing"] /\ rows.settled = [c \in Call |-> FALSE]
  /\ rows.staged = << >> /\ \A t \in ToSet(rows.mail) : IsEvent(t)
  /\ phase # "batch" => SameRows
  /\ phase \in {"down", "idle"} => after = << >> /\ warm.staged = << >>
  /\ phase = "down" => /\ warm = [rows EXCEPT !.mail = warm.mail]
                       /\ \A t \in ToSet(warm.mail) : ~IsEvent(t)
  /\ phase # "down" => Consistent(warm)
  /\ IsMail(after) /\ \A t \in ToSet(after) : IsEvent(t)

\* What goes to the transport is retired, and stays so.
Retiring ==
  /\ Staged(warm)
  /\ \A i \in Inner : rows.edge[i] = "retired" => warm.edge[i] = "retired"
  /\ delivered \subseteq Inner /\ AnswersAreDurable
  /\ warm.bridge \subseteq Inner \X Inner /\ rows.bridge \subseteq Inner \X Inner

\* A handler runs for a call whose start is durable, and for no other.
OnceOk(c) ==
  /\ executions[c] + (IF Starts(c) THEN 1 ELSE 0) <= 1
  /\ executions[c] > 0 \/ Starts(c) =>
       rows.status[c] # "none" /\ ~Has(after, Event("delegate", c, Own))
  /\ handler[c] # "none" => executions[c] > 0
  /\ Has(after, Event("delegate", c, Own)) => warm.status[c] # "none"
  /\ rows.status[c] # "none" => warm.status[c] # "none"

Once == executions \in [Call -> Nat] /\ \A c \in Call : OnceOk(c)

\* A call that has its outcome, or was told one, has no handler.
Quiet(c) == handler[c] = "none" /\ ~Starts(c) /\ ~Has(after, Event("delegate", c, Own))
Completing(c) == \E o \in Outcomes : Has(warm.mail, Completion(c, o))

QuietOk(c) ==
  /\ Completing(c) => warm.status[c] # "none"
  /\ SettledOk(warm, c)
  /\ \/ Completing(c) \/ Spent(warm, c)
     \/ rows.status[c] \in {"gone", "awaitingAnswer"}
     => Quiet(c)

Quieted == \A c \in Call : QuietOk(c)

FInv ==
  /\ Phases /\ Route /\ MailWork(warm.mail) /\ Minting /\ Retiring /\ Once /\ Quieted
-----------------------------------------------------------------------------
(* The invariant implies what the run checks.                              *)

LEMMA WarmConsistent ==
  FInv => /\ \A c \in Call : HeldOk(warm, c)
          /\ \A i \in Inner : InnerOk(warm, i) \/ (phase = "down" /\ InnerOk(rows, i) /\ warm.edge = rows.edge /\ warm.callee = rows.callee)
          /\ \A i \in Inner : Wound(warm, i)
<1> SUFFICES ASSUME FInv
             PROVE  /\ \A c \in Call : HeldOk(warm, c)
                    /\ \A i \in Inner : InnerOk(warm, i) \/ (phase = "down" /\ InnerOk(rows, i) /\ warm.edge = rows.edge /\ warm.callee = rows.callee)
                    /\ \A i \in Inner : Wound(warm, i)
  OBVIOUS
<1>1. Phases
  BY DEF FInv
<1>2. CASE phase # "down"
  BY <1>1, <1>2 DEF Phases, Consistent
<1>3. CASE phase = "down"
  <2>1. SameRows /\ Consistent(rows) /\ warm = [rows EXCEPT !.mail = warm.mail]
    BY <1>1, <1>3 DEF Phases
  <2>2. warm.held = [c \in Call |-> "nothing"]
    <3>1. warm.held = rows.held
      BY <2>1 DEF Consistent, IsWarm, Fields
    <3> QED
      BY <1>1, <3>1 DEF Phases
  <2>3. \A c \in Call : HeldOk(warm, c)
    BY <2>2 DEF HeldOk
  <2>4. ASSUME NEW i \in Inner PROVE InnerOk(rows, i) /\ Wound(warm, i)
    <3>1. InnerOk(rows, i) /\ Wound(rows, i)
      BY <2>1 DEF Consistent
    <3>2. warm.held[ParentOf[i]] = "nothing"
      BY <2>2, SomeLetters
    <3> QED
      BY <2>1, <3>1, <3>2 DEF SameRows, Wound
  <2> QED
    BY <1>3, <2>1, <2>3, <2>4 DEF SameRows
<1> QED
  BY <1>2, <1>3

LEMMA FInvTypeOK == FInv => TypeOK
<1> SUFFICES ASSUME FInv PROVE TypeOK
  OBVIOUS
<1>1. /\ warm.status \in [Call -> {"none", "running", "cancelling", "awaitingAnswer", "gone"}]
      /\ warm.edge \in [Inner -> {"none", "running", "cancelling", "retired"}]
      /\ warm.relays \subseteq Call \X Inner
  BY DEF FInv, Phases, IsWarm, Statuses, Edges
<1>2. \A c \in Call : warm.held[c] # "nothing" => warm.status[c] = "running"
  BY WarmConsistent DEF HeldOk
<1>3. /\ handler \in [Call -> {"none", "running", "aborted"}] /\ warm.bridge \subseteq Inner \X Inner
      /\ waiting \subseteq minted /\ delivered \subseteq Inner
  BY DEF FInv, Route, Minting, Retiring
<1> QED
  BY <1>1, <1>2, <1>3 DEF TypeOK

LEMMA FInvServed == FInv => HandlersServed
<1> SUFFICES ASSUME FInv PROVE HandlersServed
  OBVIOUS
<1>1. RouteIsLive /\ AnswersAreDurable
  BY DEF FInv, Route, Retiring
<1>2. AtMostOnce
  <2> SUFFICES ASSUME NEW c \in Call PROVE executions[c] <= 1
    BY DEF AtMostOnce
  <2>1. executions[c] \in Nat /\ OnceOk(c)
    BY DEF FInv, Once
  <2> QED
    BY <2>1 DEF OnceOk
<1>3. NoAskStranded
  <2> SUFFICES ASSUME NEW i \in Inner, phase # "down", warm.callee[i] = "asking", warm.edge[i] = "running"
               PROVE  AskInTransit(i)
    BY DEF NoAskStranded
  <2>1. AskOk(warm, i)
    BY DEF FInv, Phases, Consistent
  <2>2. AskMoves(warm, i)
    BY <2>1 DEF AskOk
  <2>3. \A e : Has(warm.mail, e) <=> e \in ToSet(warm.mail)
    BY HasIsIn
  <2> QED
    BY <2>2, <2>3 DEF AskMoves, AskInTransit
<1> QED
  BY <1>1, <1>2, <1>3 DEF HandlersServed

LEMMA FInvOutlives == FInv => NothingOutlives
<1> SUFFICES ASSUME FInv PROVE NothingOutlives
  OBVIOUS
<1>1. NoOrphanChild
  <2> SUFFICES ASSUME NEW i \in Inner, warm.status[ParentOf[i]] = "gone"
               PROVE  warm.callee[i] \in {"none", "done"}
    BY DEF NoOrphanChild
  <2>1. warm.edge[i] \in {"none", "retired"}
    BY WarmConsistent DEF Wound
  <2> QED
    BY <2>1, WarmConsistent DEF InnerOk
<1>2. NoOrphanHandler
  BY DEF FInv, Quieted, QuietOk, Quiet, Starts, NoOrphanHandler
<1> QED
  BY <1>1, <1>2 DEF NothingOutlives
-----------------------------------------------------------------------------
(* Names of letters and of work.                                           *)

LEMMA WorkFacts ==
  /\ \A c, o : ~IsEvent(Completion(c, o)) /\ Completion(c, o).k = "complete"
  /\ \A i : ~IsEvent(Work("innerDelegate", i)) /\ Work("innerDelegate", i).k = "innerDelegate"
  /\ \A c, o, d, p : Completion(c, o) = Completion(d, p) <=> c = d /\ o = p
  /\ \A i, j : Work("innerDelegate", i) = Work("innerDelegate", j) <=> i = j
  /\ \A c, o, i : Completion(c, o) # Work("innerDelegate", i)
BY DEF Completion, Work, IsEvent, EventKind

\* What the transport sends in one go.
LEMMA InOrder ==
  ASSUME NEW S \in SUBSET Completions
  PROVE  /\ IsMail(InSomeOrder(S)) /\ ToSet(InSomeOrder(S)) = S
         /\ \A e : Has(InSomeOrder(S), e) <=> e \in S
         /\ \A t \in S : ~IsEvent(t)
BY ScheduledFacts DEF InSomeOrder

LEMMA BridgeFinite == ASSUME NEW B, B \subseteq Inner \X Inner PROVE IsFiniteSet(B)
BY InnerAssumption, FS_Product, FS_Subset

LEMMA FInvInit == Init => FInv
<1> SUFFICES ASSUME Init PROVE FInv
  OBVIOUS
<1>1. warm = InitialWarm /\ rows = InitialWarm /\ phase = "down" /\ after = << >>
  BY DEF Init, CallInit, InitFrom
<1>2. /\ routed = {} /\ process = "absent" /\ chained = {}
      /\ handler = [c \in Call |-> "none"] /\ waiting = {} /\ minted = {}
      /\ executions = [c \in Call |-> 0] /\ delivered = {}
  BY DEF Init
<1>3. Consistent(warm) /\ IsWarm(warm)
  BY <1>1, InitialConsistent DEF Consistent
<1>4. /\ warm.status = [c \in Call |-> "none"] /\ warm.settled = [c \in Call |-> FALSE]
      /\ warm.held = [c \in Call |-> "nothing"] /\ warm.edge = [i \in Inner |-> "none"]
      /\ warm.bridge = {} /\ warm.staged = << >> /\ warm.mail = << >>
  BY <1>1 DEF InitialWarm
<1>5. ToSet(<< >>) = {} /\ IsMail(<< >>) /\ (\A e : ~Has(<< >>, e)) /\ \A e, f : ~Precedes(<< >>, e, f)
  BY MailNone, ToSetEmpty
<1>6. warm = rows /\ warm = [rows EXCEPT !.mail = warm.mail]
  BY <1>1, <1>3 DEF IsWarm, Fields
<1>7. Phases
  BY <1>1, <1>3, <1>4, <1>5, <1>6 DEF Phases, SameRows
<1>8. Route /\ MailWork(warm.mail) /\ Minting
  BY <1>2, <1>4, <1>5, <1>6 DEF Route, RouteIsLive, MailWork, Minting, MintOk
<1>9. Retiring
  BY <1>2, <1>4, <1>5, <1>6 DEF Retiring, AnswersAreDurable, Staged
<1>10. Once
  BY <1>1, <1>2, <1>4, <1>5, <1>6 DEF Once, OnceOk, Starts
<1>11. Quieted
  BY <1>1, <1>2, <1>4, <1>5, <1>6 DEF Quieted, QuietOk, Quiet, Starts, Completing, Spent, SettledOk
<1> QED
  BY <1>7, <1>8, <1>9, <1>10, <1>11 DEF FInv
-----------------------------------------------------------------------------
(* A turn.                                                                 *)

\* What a turn may make of memory, whoever takes it.
Advances(v) ==
  /\ Consistent(v) /\ Staged(v) /\ v.bridge \subseteq Inner \X Inner
  /\ \A e : ~IsEvent(e) =>
       /\ Has(v.mail, e) => Has(warm.mail, e)
       /\ \A f : ~IsEvent(f) => (Precedes(v.mail, e, f) => Precedes(warm.mail, e, f))
  /\ \A i \in Inner :
       /\ warm.edge[i] = "none" =>
            v.edge[i] = "none" \/ (i \in minted /\ ~Has(v.mail, Work("innerDelegate", i)))
       /\ warm.edge[i] = "retired" => v.edge[i] = "retired"
  /\ \A c \in Call : /\ warm.status[c] # "none" => v.status[c] # "none"
                     /\ SettledOk(v, c) /\ (Spent(v, c) => Spent(warm, c) \/ Completing(c))

LEMMA SteadyAdvances ==
  ASSUME FInv, NEW v, Consistent(v), SteadyBut(warm, v, {})
  PROVE  Advances(v)
<1>1. Staged(warm) /\ warm.bridge \subseteq Inner \X Inner /\ \A c \in Call : SettledOk(warm, c)
  BY DEF FInv, Retiring, Quieted, QuietOk
<1> QED
  BY <1>1 DEF Advances, SteadyBut, SameWork

\* The line of the effects that wait for the commit: a call starts once.
Queues(v) ==
  \/ after' = after
  \/ \E t \in Letters : /\ after' = Append(after, t)
                        /\ \A c \in Call : t = Event("delegate", c, Own) =>
                             warm.status[c] = "none" /\ v.status[c] # "none"

LEMMA QueuesFacts ==
  ASSUME FInv, NEW v, Queues(v)
  PROVE  /\ IsMail(after)' /\ \A t \in ToSet(after') : IsEvent(t)
         /\ \A c \in Call : Has(after', Event("delegate", c, Own)) =>
              \/ Has(after, Event("delegate", c, Own))
              \/ warm.status[c] = "none" /\ v.status[c] # "none"
<1>1. IsMail(after) /\ \A t \in ToSet(after) : IsEvent(t)
  BY DEF FInv, Phases
<1>2. CASE after' = after
  BY <1>1, <1>2
<1>3. CASE after' # after
  <2>1. PICK t \in Letters : /\ after' = Append(after, t)
                             /\ \A c \in Call : t = Event("delegate", c, Own) =>
                                  warm.status[c] = "none" /\ v.status[c] # "none"
    BY <1>3 DEF Queues
  <2>2. IsEvent(t)
    BY LetterFacts
  <2>3. /\ IsMail(Append(after, t)) /\ ToSet(Append(after, t)) = ToSet(after) \cup {t}
        /\ \A e : Has(Append(after, t), e) <=> Has(after, e) \/ e = t
    BY <1>1, MailSend
  <2> QED
    BY <1>1, <2>1, <2>2, <2>3
<1> QED
  BY <1>2, <1>3

LEMMA AdvanceTurn ==
  ASSUME FInv, NEW v, Advances(v), Turn(v), Queues(v), waiting' \subseteq waiting,
         UNCHANGED <<transport, handler, minted, executions, delivered>>
  PROVE  FInv'
<1>1. /\ warm' = v /\ rows' = rows /\ phase' = "batch" /\ Consistent(v) /\ IsWarm(v)
      /\ phase \in {"idle", "batch"}
  BY DEF Turn, Advances, Consistent
<1>2. /\ routed' = routed /\ process' = process /\ chained' = chained /\ handler' = handler
      /\ minted' = minted /\ executions' = executions /\ delivered' = delivered
  BY DEF transport
<1>3. Phases'
  <2>1. IsMail(after)' /\ \A t \in ToSet(after') : IsEvent(t)
    BY QueuesFacts
  <2> QED
    BY <1>1, <2>1 DEF FInv, Phases
<1>4. Route'
  BY <1>2 DEF FInv, Route, RouteIsLive
<1>5. MailWork(warm'.mail)
  <2>1. MailWork(warm.mail)
    BY DEF FInv
  <2> SUFFICES ASSUME NEW t \in ToSet(v.mail), ~IsEvent(t) PROVE t \in Completions \cup Requests
    BY <1>1 DEF MailWork
  <2>2. t \in ToSet(warm.mail)
    BY HasIsIn DEF Advances
  <2> QED
    BY <2>1, <2>2 DEF MailWork
<1>6. Minting'
  <2>1. minted' \subseteq Inner /\ waiting' \subseteq minted'
    BY <1>2 DEF FInv, Minting
  <2> SUFFICES ASSUME NEW i \in Inner PROVE MintOk(i)'
    BY <2>1 DEF Minting
  <2>2. MintOk(i)
    BY DEF FInv, Minting
  <2> DEFINE req == Work("innerDelegate", i)
  <2>3. ~IsEvent(req)
    BY WorkFacts
  <2>4. /\ Has(v.mail, req) => Has(warm.mail, req)
        /\ Precedes(v.mail, req, req) => Precedes(warm.mail, req, req)
        /\ warm.edge[i] = "none" =>
            v.edge[i] = "none" \/ (i \in minted /\ ~Has(v.mail, req))
    BY <2>3 DEF Advances
  <2>5. /\ i \notin minted => v.edge[i] = "none" /\ rows.edge[i] = "none" /\ ~Has(v.mail, req)
        /\ Has(v.mail, req) => v.edge[i] = "none" /\ rows.edge[i] = "none"
        /\ ~Precedes(v.mail, req, req)
    BY <2>2, <2>4 DEF MintOk
  <2> QED
    BY <1>1, <1>2, <2>5 DEF MintOk
<1>7. Retiring'
  <2>1. /\ Staged(v) /\ v.bridge \subseteq Inner \X Inner
        /\ \A i \in Inner : rows.edge[i] = "retired" => v.edge[i] = "retired"
    BY DEF FInv, Retiring, Advances
  <2> QED
    BY <1>1, <1>2, <2>1 DEF FInv, Retiring, AnswersAreDurable
<1>8. ASSUME NEW c \in Call
      PROVE  /\ Has(after', Event("delegate", c, Own)) =>
                  \/ Has(after, Event("delegate", c, Own))
                  \/ warm.status[c] = "none" /\ v.status[c] # "none"
             /\ warm.status[c] # "none" => v.status[c] # "none"
             /\ OnceOk(c) /\ QuietOk(c) /\ SettledOk(v, c)
             /\ Spent(v, c) => Spent(warm, c) \/ Completing(c)
  <2>1. Has(after', Event("delegate", c, Own)) =>
          \/ Has(after, Event("delegate", c, Own))
          \/ warm.status[c] = "none" /\ v.status[c] # "none"
    BY QueuesFacts
  <2>2. OnceOk(c) /\ QuietOk(c)
    BY DEF FInv, Once, Quieted
  <2>3. /\ warm.status[c] # "none" => v.status[c] # "none"
        /\ SettledOk(v, c) /\ (Spent(v, c) => Spent(warm, c) \/ Completing(c))
    BY DEF Advances
  <2> QED
    BY <2>1, <2>2, <2>3
<1>9. Once'
  <2> SUFFICES ASSUME NEW c \in Call PROVE OnceOk(c)'
    BY <1>2 DEF FInv, Once
  <2> QED
    BY <1>1, <1>2, <1>8 DEF OnceOk, Starts
<1>10. Quieted'
  <2> SUFFICES ASSUME NEW c \in Call PROVE QuietOk(c)'
    BY DEF Quieted
  <2>1. Completing(c)' => Completing(c)
    <3>1. \A o : ~IsEvent(Completion(c, o))
      BY WorkFacts
    <3> QED
      BY <1>1, <3>1 DEF Completing, Advances
  <2>2. warm.status[c] = "none" => ~Spent(warm, c)
    <3>1. HeldOk(warm, c)
      BY WarmConsistent
    <3> QED
      BY <1>8, <3>1 DEF HeldOk, Spent, SettledOk, QuietOk
  <2>3. Completing(c) \/ Spent(warm, c) \/ rows.status[c] \in {"gone", "awaitingAnswer"} =>
          Quiet(c) /\ warm.status[c] # "none"
    BY <1>8, <2>2 DEF QuietOk, OnceOk
  <2>4. Quiet(c) /\ warm.status[c] # "none" => Quiet(c)'
    BY <1>1, <1>2, <1>8 DEF Quiet, Starts
  <2>5. SettledOk(warm', c) /\ (Spent(warm', c) => Spent(warm, c) \/ Completing(c))
    BY <1>1, <1>8
  <2> QED
    BY <1>1, <1>8, <2>1, <2>3, <2>4, <2>5 DEF QuietOk
<1> QED
  BY <1>3, <1>4, <1>5, <1>6, <1>7, <1>9, <1>10 DEF FInv

LEMMA HandleKeeps ==
  ASSUME FInv, HandleEvent, UNCHANGED ffiVars PROVE FInv'
<1> DEFINE t == Head(warm.mail)
<1>1. /\ phase \in {"idle", "batch"} /\ warm.mail # << >> /\ IsEvent(t)
      /\ Taken = Rest(warm)
  BY DEF HandleEvent, Ready, Taken, Rest
<1>2. Consistent(warm) /\ IsWarm(warm) /\ \A c \in Call : SettledOk(warm, c) /\ HeldOk(warm, c)
  BY <1>1 DEF FInv, Phases, Quieted, QuietOk, Consistent
<1>3. IsFiniteSet(warm.bridge)
  BY BridgeFinite DEF FInv, Retiring
<1>4. t \in Letters /\ Has(warm.mail, t)
  BY <1>1, <1>2, TakeFacts, MailTake
<1>5. /\ waiting' \subseteq waiting
      /\ UNCHANGED <<transport, handler, minted, executions, delivered>>
  BY DEF ffiVars, sidecar
<1>6. CASE ToReactor(t)
  <2> DEFINE v == ReactorReact(Rest(warm), t)
  <2>1. Turn(v) /\ after' = Append(after, t)
    BY <1>1, <1>6 DEF HandleEvent
  <2>2. Consistent(v) /\ SteadyBut(warm, v, {})
    BY <1>1, <1>2, <1>3, <1>6, LettersKeep, LettersSteady
  <2>3. ASSUME NEW c \in Call, t = Event("delegate", c, Own)
        PROVE  warm.status[c] = "none" /\ v.status[c] # "none"
    <3>1. warm.status[c] = "none"
      BY <1>2, <1>4, <2>3 DEF Consistent, CallOk
    <3>2. t.k = "delegate" /\ t.d = c
      BY <2>3, EventFacts
    <3>3. v = OnDelegate(Rest(warm), c)
      BY <3>2 DEF ReactorReact
    <3>4. IsWarm(Rest(warm))
      BY <1>1, <1>2, RestFacts
    <3> DEFINE r == Rest(warm)
    <3> HIDE DEF r, v
    <3>5. v = [r EXCEPT !.status[c] = "running"] /\ IsWarm(r)
      BY <3>3, <3>4 DEF OnDelegate, r
    <3>6. v.status[c] = "running"
      BY <3>5 DEF IsWarm, Fields
    <3> QED
      BY <3>1, <3>6
  <2> HIDE DEF v
  <2>4. Advances(v)
    BY <2>2, SteadyAdvances
  <2>5. Queues(v)
    BY <1>4, <2>1, <2>3 DEF Queues
  <2> QED
    BY <1>5, <2>1, <2>4, <2>5, AdvanceTurn
<1>7. CASE ~ToReactor(t)
  <2> DEFINE v == CoreReact(Rest(warm), t)
  <2>1. Turn(v) /\ after' = after
    BY <1>1, <1>7 DEF HandleEvent
  <2>2. Consistent(v) /\ SteadyBut(warm, v, {})
    BY <1>1, <1>2, <1>3, <1>7, LettersKeep, LettersSteady
  <2> HIDE DEF v
  <2>3. Advances(v)
    BY <2>2, SteadyAdvances
  <2>4. Queues(v)
    BY <2>1 DEF Queues
  <2> QED
    BY <1>5, <2>1, <2>3, <2>4, AdvanceTurn
<1> QED
  BY <1>6, <1>7

\* A turn of core of its own accord.
LEMMA PeerTurn ==
  ASSUME FInv, NEW v, Turn(v), UNCHANGED after, UNCHANGED ffiVars,
         Consistent(warm) => Consistent(v), IsWarm(warm) => SteadyBut(warm, v, {})
  PROVE  FInv'
<1>1. Consistent(warm) /\ IsWarm(warm)
  BY DEF FInv, Phases, Consistent, Turn
<1>2. Advances(v)
  BY <1>1, SteadyAdvances
<1>3. Queues(v)
  BY DEF Queues
<1>4. /\ waiting' \subseteq waiting
      /\ UNCHANGED <<transport, handler, minted, executions, delivered>>
  BY DEF ffiVars, sidecar
<1> QED
  BY <1>2, <1>3, <1>4, AdvanceTurn

LEMMA PeersKeep ==
  ASSUME FInv, Peers, UNCHANGED ffiVars PROVE FInv'
<1>1. ASSUME NEW c \in Call, CoreCalls(c) PROVE FInv'
  <2> DEFINE v == Send([warm EXCEPT !.proxy[c] = "calling"], "delegate", c, Own)
  <2>1. Turn(v) /\ UNCHANGED after /\ warm.proxy[c] = "idle"
    BY <1>1 DEF CoreCalls
  <2>2. (Consistent(warm) => Consistent(v)) /\ (IsWarm(warm) => SteadyBut(warm, v, {}))
    BY <2>1, ThreadCalls, CallsSteady
  <2> HIDE DEF v
  <2> QED
    BY <2>1, <2>2, PeerTurn
<1>2. ASSUME NEW c \in Call, CoreCancels(c) PROVE FInv'
  <2> DEFINE v == Send([warm EXCEPT !.proxy[c] = "cancelling",
                            !.asked = {a \in @ : a[1] # c}], "terminate", c, Own)
  <2>1. Turn(v) /\ UNCHANGED after /\ warm.proxy[c] = "calling"
    BY <1>2 DEF CoreCancels
  <2>2. (Consistent(warm) => Consistent(v)) /\ (IsWarm(warm) => SteadyBut(warm, v, {}))
    BY <2>1, ThreadCancels, CancelsSteady
  <2> HIDE DEF v
  <2> QED
    BY <2>1, <2>2, PeerTurn
<1>3. ASSUME NEW c \in Call, NEW x, CoreAnswers(c, x) PROVE FInv'
  <2> DEFINE v == Send([warm EXCEPT !.asked = @ \ {<<c, x>>}], "escalateAck", c, x)
  <2>1. Turn(v) /\ UNCHANGED after /\ <<c, x>> \in warm.asked
    BY <1>3 DEF CoreAnswers
  <2>2. (Consistent(warm) => Consistent(v)) /\ (IsWarm(warm) => SteadyBut(warm, v, {}))
    BY <2>1, ThreadAnswers, AnswersSteady
  <2> HIDE DEF v
  <2> QED
    BY <2>1, <2>2, PeerTurn
<1>4. ASSUME NEW i \in Inner, CalleeReturns(i) PROVE FInv'
  <2> DEFINE v == Send([warm EXCEPT !.callee[i] = "done"], "delegateAck", i, Own)
  <2>1. Turn(v) /\ UNCHANGED after /\ warm.callee[i] \in {"running", "answered"}
    BY <1>4 DEF CalleeReturns
  <2>2. (Consistent(warm) => Consistent(v)) /\ (IsWarm(warm) => SteadyBut(warm, v, {}))
    BY <2>1, InstanceReturns, CalleeSteady
  <2> HIDE DEF v
  <2> QED
    BY <2>1, <2>2, PeerTurn
<1>5. ASSUME NEW i \in Inner, CalleeAsks(i) PROVE FInv'
  <2> DEFINE v == Send([warm EXCEPT !.callee[i] = "asking"], "escalate", i, Own)
  <2>1. Turn(v) /\ UNCHANGED after /\ warm.callee[i] = "running"
    BY <1>5 DEF CalleeAsks
  <2>2. (Consistent(warm) => Consistent(v)) /\ (IsWarm(warm) => SteadyBut(warm, v, {}))
    BY <2>1, InstanceAsks, CalleeSteady
  <2> HIDE DEF v
  <2> QED
    BY <2>1, <2>2, PeerTurn
<1>6. \A i \in Inner : ParentOf[i] \in Call
  BY SomeLetters
<1> QED
  BY <1>1, <1>2, <1>3, <1>4, <1>5, <1>6 DEF Peers

\* The outcome of a handler reaches its call.
LEMMA CompleteTurnKeeps ==
  ASSUME FInv, CompleteTurn PROVE FInv'
<1> DEFINE t == Head(warm.mail)
           u == Rest(warm)
           v == Complete(Rest(warm), t.d, t.o)
<1>1. /\ phase \in {"idle", "batch"} /\ warm.mail # << >> /\ t.k = "complete"
      /\ Turn(v) /\ UNCHANGED <<after, ffiVars>>
  BY DEF CompleteTurn, Ready, Taken, Rest
<1>2. Consistent(warm) /\ IsWarm(warm) /\ Staged(warm) /\ warm.bridge \subseteq Inner \X Inner
      /\ \A d \in Call : SettledOk(warm, d)
  BY <1>1 DEF FInv, Phases, Quieted, QuietOk, Consistent, Retiring
<1>3. ~IsEvent(t) /\ t \in ToSet(warm.mail)
  BY <1>1, <1>2, MailTake DEF IsEvent, EventKind, IsWarm
<1>4. PICK c \in Call, o \in Outcomes : t = Completion(c, o)
  BY <1>1, <1>3, WorkFacts DEF FInv, MailWork, Completions, Requests
<1>5. t.d = c /\ t.o = o
  BY <1>4 DEF Completion
<1>6. Completing(c)
  BY <1>3, <1>4, HasIsIn DEF Completing
<1>7. Consistent(u) /\ IsWarm(u)
  BY <1>1, <1>2, <1>3, RestFree DEF Consistent
<1>8. Consistent(v)
  BY <1>5, <1>7, CompleteKeeps
<1>9. /\ u.mail = Tail(warm.mail) /\ u.status = warm.status /\ u.held = warm.held
      /\ u.settled = warm.settled /\ u.edge = warm.edge /\ u.bridge = warm.bridge
      /\ u.staged = warm.staged
  BY <1>1, <1>2, RestFacts, RestSame
<1>10. /\ \A e : Has(u.mail, e) => Has(warm.mail, e)
       /\ \A e, f : Precedes(u.mail, e, f) => Precedes(warm.mail, e, f)
  BY <1>1, <1>2, TakeFacts
<1> HIDE DEF u
<1>11. SteadyBut(u, v, {c}) /\ SettledOk(v, c)
  <2>1. SettledOk(u, c)
    BY <1>2, <1>9 DEF SettledOk
  <2>2. v = Complete(u, c, o)
    BY <1>5 DEF u
  <2> HIDE DEF v
  <2>3. LET z == Complete(u, c, o) IN SteadyBut(u, z, {c}) /\ SettledOk(z, c)
    BY <1>7, <2>1, SteadyComplete
  <2> QED
    BY <2>2, <2>3
<1> HIDE DEF v, t
<1>12. Advances(v)
  <2>1. Staged(u) => Staged(v)
    BY <1>11 DEF SteadyBut
  <2>2. Staged(v) /\ v.bridge \subseteq Inner \X Inner
    BY <1>2, <1>9, <1>11, <2>1 DEF SteadyBut, Staged
  <2>3. \A e : ~IsEvent(e) =>
          /\ Has(v.mail, e) => Has(warm.mail, e)
          /\ \A f : ~IsEvent(f) => (Precedes(v.mail, e, f) => Precedes(warm.mail, e, f))
    BY <1>10, <1>11 DEF SteadyBut, SameWork
  <2>4. ASSUME NEW i \in Inner
        PROVE  /\ warm.edge[i] = "none" => v.edge[i] = "none"
               /\ warm.edge[i] = "retired" => v.edge[i] = "retired"
    BY <1>9, <1>11 DEF SteadyBut
  <2>5. ASSUME NEW d \in Call
        PROVE  /\ warm.status[d] # "none" => v.status[d] # "none"
               /\ SettledOk(v, d) /\ (Spent(v, d) => Spent(warm, d) \/ Completing(d))
    <3>1. warm.status[d] # "none" => v.status[d] # "none"
      BY <1>9, <1>11 DEF SteadyBut
    <3>2. CASE d = c
      BY <1>6, <1>11, <3>1, <3>2
    <3>3. CASE d # c
      <4>1. (Spent(v, d) => Spent(u, d)) /\ (SettledOk(u, d) => SettledOk(v, d))
        BY <1>11, <3>3 DEF SteadyBut
      <4>2. SettledOk(u, d) /\ (Spent(u, d) => Spent(warm, d))
        BY <1>2, <1>9 DEF SettledOk, Spent
      <4> QED
        BY <3>1, <4>1, <4>2
    <3> QED
      BY <3>2, <3>3
  <2> QED
    BY <1>8, <2>2, <2>3, <2>4, <2>5 DEF Advances
<1>13. Queues(v)
  BY <1>1 DEF Queues
<1>14. /\ waiting' \subseteq waiting
       /\ UNCHANGED <<transport, handler, minted, executions, delivered>>
  BY <1>1 DEF ffiVars, sidecar
<1> QED
  BY <1>1, <1>12, <1>13, <1>14, AdvanceTurn

\* A request of a handler is taken from the mail, and opens its delegation or not.
LEMMA InnerDelegateKeeps ==
  ASSUME FInv, InnerDelegate PROVE FInv'
<1> DEFINE t == Head(warm.mail)
           i == t.d
           u == Rest(warm)
           req == Work("innerDelegate", i)
<1>1. /\ phase \in {"idle", "batch"} /\ warm.mail # << >> /\ t.k = "innerDelegate"
      /\ Taken = Rest(warm)
  BY DEF InnerDelegate, Ready, Taken, Rest
<1>2. /\ UNCHANGED <<after, transport, handler, minted, executions, delivered>>
      /\ \/ AcceptsWork(warm, ParentOf[i]) /\ Turn(OpenInner(u, i, i)) /\ UNCHANGED waiting
         \/ Turn(u) /\ waiting' \subseteq waiting
  BY <1>1 DEF InnerDelegate, Token
<1>3. Consistent(warm) /\ IsWarm(warm) /\ Staged(warm) /\ warm.bridge \subseteq Inner \X Inner
      /\ \A d \in Call : SettledOk(warm, d)
  BY <1>1 DEF FInv, Phases, Quieted, QuietOk, Consistent, Retiring
<1>4. ~IsEvent(t) /\ t \in ToSet(warm.mail) /\ Has(warm.mail, t)
  BY <1>1, <1>3, MailTake, HasIsIn DEF IsEvent, EventKind, IsWarm
<1>5. i \in Inner /\ t = req
  <2>1. PICK j \in Inner : t = Work("innerDelegate", j)
    BY <1>1, <1>4, WorkFacts DEF FInv, MailWork, Completions, Requests
  <2>2. t.d = j
    BY <2>1 DEF Work
  <2> QED
    BY <2>1, <2>2
<1>6. Consistent(u) /\ IsWarm(u)
  BY <1>1, <1>3, <1>4, RestFree DEF Consistent
<1>7. /\ u.mail = Tail(warm.mail) /\ u.status = warm.status /\ u.held = warm.held
      /\ u.settled = warm.settled /\ u.edge = warm.edge /\ u.bridge = warm.bridge
      /\ u.staged = warm.staged
  BY <1>1, <1>3, RestFacts, RestSame
<1>8. /\ \A e : Has(warm.mail, e) <=> e = t \/ Has(u.mail, e)
      /\ \A e, f : Precedes(warm.mail, e, f) <=> (e = t /\ Has(u.mail, f)) \/ Precedes(u.mail, e, f)
  BY <1>1, <1>3, TakeFacts
<1>9. warm.edge[i] = "none" /\ i \in minted /\ ~Has(u.mail, req)
  <2>1. MintOk(i)
    BY <1>5 DEF FInv, Minting
  <2> QED
    BY <1>4, <1>5, <1>8, <2>1 DEF MintOk
<1> HIDE DEF u, t
<1>10. ASSUME Turn(u), waiting' \subseteq waiting PROVE FInv'
  <2>1. Advances(u)
    BY <1>3, <1>6, <1>7, <1>8 DEF Advances, Staged, SettledOk, Spent
  <2> QED
    BY <1>2, <1>10, <2>1, AdvanceTurn DEF Queues
<1>11. ASSUME AcceptsWork(warm, ParentOf[i]), Turn(OpenInner(u, i, i)), UNCHANGED waiting
       PROVE  FInv'
  <2> DEFINE v == OpenInner(u, i, i)
             e1 == Event("delegate", i, Own)
  <2>1. AcceptsWork(u, ParentOf[i])
    BY <1>7, <1>11 DEF AcceptsWork
  <2>2. Consistent(v)
    BY <1>5, <1>6, <1>7, <1>9, <2>1, OpenKeeps
  <2>3. /\ v.edge = [u.edge EXCEPT ![i] = "running"] /\ v.mail = Append(u.mail, e1)
        /\ v.status = u.status /\ v.settled = u.settled /\ v.held = u.held /\ v.staged = u.staged
    BY <1>6 DEF OpenInner, Send, IsWarm, Fields
  <2>4. v.bridge = u.bridge \cup {<<i, i>>}
    BY <1>6 DEF OpenInner, Send, IsWarm, Fields
  <2> HIDE DEF v
  <2>5. v.edge[i] = "running" /\ \A j \in Inner : j # i => v.edge[j] = u.edge[j]
    BY <1>5, <1>6, <2>3 DEF IsWarm
  <2>6. SameWork(u.mail, v.mail)
    <3>1. e1 \in Letters
      BY <1>5, SomeLetters DEF EventKind
    <3> QED
      BY <1>6, <2>3, <3>1, PeersOf, SameWorkSend
  <2>7. \A e : ~IsEvent(e) =>
          /\ Has(v.mail, e) => Has(u.mail, e)
          /\ \A f : ~IsEvent(f) => (Precedes(v.mail, e, f) => Precedes(u.mail, e, f))
    BY <2>6 DEF SameWork
  <2>8. Staged(v) /\ v.bridge \subseteq Inner \X Inner
    <3>1. Staged(u)
      BY <1>3, <1>7 DEF Staged
    <3> QED
      BY <1>3, <1>5, <1>7, <1>9, <2>3, <2>4, <2>5, <3>1 DEF Staged
  <2>9. ASSUME NEW j \in Inner
        PROVE  /\ warm.edge[j] = "none" =>
                    v.edge[j] = "none" \/ (j \in minted /\ ~Has(v.mail, Work("innerDelegate", j)))
               /\ warm.edge[j] = "retired" => v.edge[j] = "retired"
    <3>1. ~Has(v.mail, req)
      BY <1>4, <1>5, <1>9, <2>7
    <3> QED
      BY <1>7, <1>9, <2>5, <3>1
  <2>10. \A c \in Call : /\ warm.status[c] # "none" => v.status[c] # "none"
                         /\ SettledOk(v, c) /\ (Spent(v, c) => Spent(warm, c) \/ Completing(c))
    BY <1>3, <1>7, <2>3 DEF SettledOk, Spent
  <2>11. \A e : ~IsEvent(e) =>
          /\ Has(v.mail, e) => Has(warm.mail, e)
          /\ \A f : ~IsEvent(f) => (Precedes(v.mail, e, f) => Precedes(warm.mail, e, f))
    BY <1>8, <2>7
  <2>12. Advances(v)
    BY <2>2, <2>8, <2>9, <2>10, <2>11 DEF Advances
  <2>13. Turn(v)
    BY <1>11 DEF v
  <2> QED
    BY <1>2, <1>11, <2>12, <2>13, AdvanceTurn DEF Queues
<1> QED
  BY <1>2, <1>10, <1>11 DEF u

-----------------------------------------------------------------------------
(* Commits, and what a failure or a crash leaves.                          *)

LEMMA CommitKeeps ==
  ASSUME FInv, Commit, UNCHANGED ffiVars PROVE FInv'
<1>1. /\ phase = "batch" /\ phase' = "post" /\ rows' = Durable(warm) /\ warm' = warm /\ after' = after
  BY DEF Commit, CommitAs
<1>2. /\ routed' = routed /\ process' = process /\ chained' = chained /\ handler' = handler
      /\ minted' = minted /\ waiting' = waiting /\ executions' = executions /\ delivered' = delivered
  BY DEF ffiVars, transport, sidecar
<1>3. Consistent(warm) /\ IsWarm(warm)
  BY <1>1 DEF FInv, Phases, Consistent
<1> DEFINE d == Durable(warm)
<1>4. Consistent(d)
  BY <1>3, DurableKeeps
<1>5. /\ d.held = [c \in Call |-> "nothing"] /\ d.settled = [c \in Call |-> FALSE]
      /\ d.staged = << >> /\ d.mail = EventsOf(warm.mail)
      /\ d.status = warm.status /\ d.relays = warm.relays /\ d.edge = warm.edge
      /\ d.bridge = warm.bridge /\ d.proxy = warm.proxy
      /\ d.asked = warm.asked /\ d.callee = warm.callee
  BY <1>3, DurableFacts
<1>6. \A t \in ToSet(d.mail) : IsEvent(t)
  BY <1>3, <1>5, EventsFacts DEF IsWarm
<1> HIDE DEF d
<1>7. rows' = d
  BY <1>1 DEF d
<1>8. Phases'
  BY <1>1, <1>3, <1>4, <1>5, <1>6, <1>7 DEF FInv, Phases, SameRows
<1>9. Route' /\ MailWork(warm.mail)'
  BY <1>1, <1>2 DEF FInv, Route, RouteIsLive, MailWork
<1>10. Minting'
  BY <1>1, <1>2, <1>5, <1>7 DEF FInv, Minting, MintOk
<1>11. Retiring'
  BY <1>1, <1>2, <1>5, <1>7 DEF FInv, Retiring, AnswersAreDurable, Staged
<1>12. Once'
  BY <1>1, <1>2, <1>5, <1>7 DEF FInv, Once, OnceOk, Starts
<1>13. Quieted'
  BY <1>1, <1>2, <1>5, <1>7 DEF FInv, Quieted, QuietOk, Quiet, Starts, Completing, Spent, SettledOk
<1> QED
  BY <1>8, <1>9, <1>10, <1>11, <1>12, <1>13 DEF FInv
\* What may be the committed state from now on.
DurableOk(d) ==
  /\ Consistent(d) /\ d.bridge \subseteq Inner \X Inner
  /\ d.held = [c \in Call |-> "nothing"] /\ d.settled = [c \in Call |-> FALSE]
  /\ d.staged = << >> /\ \A t \in ToSet(d.mail) : IsEvent(t)
  /\ \A i \in Inner : /\ rows.edge[i] = "retired" => d.edge[i] = "retired"
                      /\ i \notin minted => d.edge[i] = "none"
  /\ \A c \in Call : /\ rows.status[c] # "none" => d.status[c] # "none"
                     /\ d.status[c] \in {"gone", "awaitingAnswer"} => Quiet(c)

LEMMA RowsDurable == FInv => DurableOk(rows)
<1> SUFFICES ASSUME FInv PROVE DurableOk(rows)
  OBVIOUS
<1>1. /\ Consistent(rows) /\ rows.bridge \subseteq Inner \X Inner
      /\ rows.held = [c \in Call |-> "nothing"] /\ rows.settled = [c \in Call |-> FALSE]
      /\ rows.staged = << >> /\ \A t \in ToSet(rows.mail) : IsEvent(t)
  BY DEF FInv, Phases, Retiring
<1>2. \A i \in Inner : i \notin minted => rows.edge[i] = "none"
  BY DEF FInv, Minting, MintOk
<1>3. \A c \in Call : rows.status[c] \in {"gone", "awaitingAnswer"} => Quiet(c)
  BY DEF FInv, Quieted, QuietOk
<1> QED
  BY <1>1, <1>2, <1>3 DEF DurableOk

LEMMA WarmDurable == FInv /\ phase = "batch" => DurableOk(Durable(warm))
<1> SUFFICES ASSUME FInv, phase = "batch" PROVE DurableOk(Durable(warm))
  OBVIOUS
<1>1. Consistent(warm) /\ IsWarm(warm)
  BY DEF FInv, Phases, Consistent
<1> DEFINE d == Durable(warm)
<1>2. Consistent(d)
  BY <1>1, DurableKeeps
<1>3. /\ d.held = [c \in Call |-> "nothing"] /\ d.settled = [c \in Call |-> FALSE]
      /\ d.staged = << >> /\ d.mail = EventsOf(warm.mail)
      /\ d.status = warm.status /\ d.edge = warm.edge /\ d.bridge = warm.bridge
  BY <1>1, DurableFacts
<1>4. \A t \in ToSet(d.mail) : IsEvent(t)
  BY <1>1, <1>3, EventsFacts DEF IsWarm
<1> HIDE DEF d
<1>5. /\ \A i \in Inner : /\ rows.edge[i] = "retired" => d.edge[i] = "retired"
                          /\ i \notin minted => d.edge[i] = "none"
      /\ d.bridge \subseteq Inner \X Inner
  BY <1>3 DEF FInv, Minting, MintOk, Retiring
<1>6. \A c \in Call : /\ rows.status[c] # "none" => d.status[c] # "none"
                      /\ d.status[c] \in {"gone", "awaitingAnswer"} => Quiet(c)
  BY <1>3 DEF FInv, Once, OnceOk, Quieted, QuietOk, Spent
<1>7. DurableOk(d)
  BY <1>2, <1>3, <1>4, <1>5, <1>6 DEF DurableOk
<1> QED
  BY <1>7 DEF d

\* The sidecar goes on, or ends with the runtime.
Goes == UNCHANGED <<routed, process, chained, handler, waiting>>
Ends == /\ routed' = {} /\ process' = "absent" /\ chained' = {}
        /\ handler' = [c \in Call |-> "none"] /\ waiting' = {}

LEMMA ForgetKeeps ==
  ASSUME FInv, NEW d, DurableOk(d), rows' = d, Forget(d), Goes \/ Ends,
         UNCHANGED <<minted, executions, delivered>>
  PROVE  FInv'
<1> DEFINE v == [d EXCEPT !.mail = << >>]
<1>1. phase' = "down" /\ after' = << >> /\ warm' = v
  BY DEF Forget
<1>2. Consistent(d) /\ IsWarm(d)
  BY DEF DurableOk, Consistent
<1>3. ToSet(<< >>) = {} /\ IsMail(<< >>) /\ (\A e : ~Has(<< >>, e)) /\ \A e, f : ~Precedes(<< >>, e, f)
  BY MailNone, ToSetEmpty
<1>4. /\ IsWarm(v) /\ v.mail = << >> /\ v.status = d.status /\ v.settled = d.settled
      /\ v.held = d.held /\ v.relays = d.relays /\ v.edge = d.edge /\ v.bridge = d.bridge
      /\ v.staged = d.staged /\ v.proxy = d.proxy /\ v.asked = d.asked /\ v.callee = d.callee
  BY <1>2, <1>3, MailFacts
<1>5. v = [d EXCEPT !.mail = v.mail]
  BY <1>4
<1> HIDE DEF v
<1>6. Phases'
  BY <1>1, <1>3, <1>4, <1>5 DEF Phases, SameRows, DurableOk
<1>7. Route'
  <2>1. CASE Goes
    BY <2>1 DEF Goes, FInv, Route, RouteIsLive
  <2>2. CASE Ends
    BY <2>2 DEF Ends, Route, RouteIsLive
  <2> QED
    BY <2>1, <2>2
<1>8. MailWork(warm.mail)'
  BY <1>1, <1>3, <1>4 DEF MailWork
<1>9. Minting'
  <2>1. minted' = minted /\ waiting' \subseteq waiting
    BY DEF Goes, Ends
  <2> QED
    BY <1>1, <1>3, <1>4, <2>1 DEF FInv, Minting, MintOk, DurableOk
<1>10. Retiring'
  BY <1>1, <1>3, <1>4 DEF FInv, Retiring, AnswersAreDurable, DurableOk, Staged
<1>11. ASSUME NEW c \in Call
       PROVE  /\ executions'[c] = executions[c] /\ (Starts(c)' => Starts(c))
              /\ handler'[c] # "none" => handler[c] # "none"
              /\ Quiet(c) => Quiet(c)'
  BY <1>1, <1>3 DEF Goes, Ends, Starts, Quiet
<1>12. Once'
  <2> SUFFICES ASSUME NEW c \in Call PROVE OnceOk(c)'
    BY DEF FInv, Once
  <2>1. OnceOk(c) /\ executions[c] \in Nat /\ (rows.status[c] # "none" => d.status[c] # "none")
    BY DEF FInv, Once, DurableOk
  <2> QED
    BY <1>1, <1>3, <1>4, <1>11, <2>1 DEF OnceOk
<1>13. Quieted'
  <2> SUFFICES ASSUME NEW c \in Call PROVE QuietOk(c)'
    BY DEF Quieted
  <2>1. ~Completing(c)' /\ ~warm'.settled[c] /\ warm'.held[c] = "nothing"
    BY <1>1, <1>3, <1>4 DEF Completing, DurableOk
  <2>2. d.status[c] \in {"gone", "awaitingAnswer"} => Quiet(c)
    BY DEF DurableOk
  <2> QED
    BY <1>1, <1>4, <1>11, <2>1, <2>2 DEF QuietOk, Spent, SettledOk
<1> QED
  BY <1>6, <1>7, <1>8, <1>9, <1>10, <1>12, <1>13 DEF FInv

LEMMA FailKeeps ==
  ASSUME FInv, (Fail \/ CommitInDoubt) /\ UNCHANGED ffiVars PROVE FInv'
<1>1. Goes /\ UNCHANGED <<minted, executions, delivered>>
  BY DEF ffiVars, transport, sidecar, Goes
<1>2. CASE Fail
  BY <1>1, <1>2, RowsDurable, ForgetKeeps DEF Fail
<1>3. CASE CommitInDoubt
  <2> DEFINE d == Durable(warm)
  <2>1. DurableOk(d) /\ rows' = d /\ Forget(d)
    BY <1>3, WarmDurable DEF CommitInDoubt, CommitInDoubtAs
  <2> HIDE DEF d
  <2> QED
    BY <1>1, <2>1, ForgetKeeps
<1> QED
  BY <1>2, <1>3

LEMMA CrashKeeps ==
  ASSUME FInv, Crash PROVE FInv'
<1>1. Forget(rows) /\ rows' = rows /\ Ends /\ UNCHANGED <<minted, executions, delivered>>
  BY DEF Crash, ProcessEnds, Ends
<1> QED
  BY <1>1, RowsDurable, ForgetKeeps
-----------------------------------------------------------------------------
(* What the transport sends arrives.                                       *)

\* The state but for the line of work, and for what waits for the transport.
SameState(v) ==
  /\ IsWarm(v) /\ v.status = warm.status /\ v.settled = warm.settled /\ v.held = warm.held
  /\ v.relays = warm.relays /\ v.edge = warm.edge /\ v.bridge = warm.bridge
  /\ v.proxy = warm.proxy /\ v.asked = warm.asked /\ v.callee = warm.callee

\* The work of q is behind the work that waited.
Arrives(v, q) ==
  /\ SameState(v) /\ \A t \in ToSet(q) : t \in Completions \cup Requests
  /\ \A e : ~IsEvent(e) => (Has(v.mail, e) <=> Has(warm.mail, e) \/ Has(q, e))
  /\ \A e, f : ~IsEvent(e) /\ ~IsEvent(f) =>
       (Precedes(v.mail, e, f) <=>
          Precedes(warm.mail, e, f) \/ Precedes(q, e, f) \/ (Has(warm.mail, e) /\ Has(q, f)))

LEMMA NotEvents == \A t \in Completions \cup Requests : ~IsEvent(t)
BY WorkFacts DEF Completions, Requests

LEMMA ArrivesMail ==
  ASSUME FInv, NEW v, NEW q, Arrives(v, q) PROVE MailWork(v.mail)
<1>1. MailWork(warm.mail)
  BY DEF FInv
<1> SUFFICES ASSUME NEW t \in ToSet(v.mail), ~IsEvent(t) PROVE t \in Completions \cup Requests
  BY DEF MailWork
<1>2. Has(v.mail, t)
  BY HasIsIn
<1>3. Has(warm.mail, t) \/ Has(q, t)
  BY <1>2 DEF Arrives
<1>4. CASE Has(warm.mail, t)
  BY <1>1, <1>4, HasIsIn DEF MailWork
<1>5. CASE Has(q, t)
  BY <1>5, HasIsIn DEF Arrives
<1> QED
  BY <1>3, <1>4, <1>5

\* What a step of the transport leaves true, once its routes, its starts and
\* the calls it sends an outcome for are accounted for.
LEMMA ArrivalKeeps ==
  ASSUME FInv, NEW v, NEW q, warm' = v, rows' = rows, Arrives(v, q), Phases', Route', Once',
         minted \subseteq minted', minted' \subseteq Inner, waiting' \subseteq minted',
         \A i \in Inner : LET req == Work("innerDelegate", i)
                          IN ~Precedes(q, req, req) /\ (Has(q, req) => i \in minted' \ minted),
         Staged(v), delivered' \subseteq Inner, \A i \in delivered' : rows.edge[i] = "retired",
         \A c \in Call : Quiet(c) => Quiet(c)',
         \A c \in Call, o \in Outcomes :
           Has(q, Completion(c, o)) => warm.status[c] # "none" /\ Quiet(c)'
  PROVE  FInv'
<1>1. MailWork(warm.mail)'
  BY ArrivesMail
<1>2. Minting'
  <2> SUFFICES ASSUME NEW i \in Inner PROVE MintOk(i)'
    BY DEF Minting
  <2> DEFINE req == Work("innerDelegate", i)
  <2>1. MintOk(i)
    BY DEF FInv, Minting
  <2>2. ~IsEvent(req)
    BY WorkFacts
  <2>3. /\ Has(v.mail, req) <=> Has(warm.mail, req) \/ Has(q, req)
        /\ Precedes(v.mail, req, req) <=>
             Precedes(warm.mail, req, req) \/ Precedes(q, req, req) \/ (Has(warm.mail, req) /\ Has(q, req))
        /\ v.edge = warm.edge
    BY <2>2 DEF Arrives, SameState
  <2>4. ~Precedes(q, req, req) /\ (Has(q, req) => i \in minted' \ minted)
    OBVIOUS
  <2> HIDE DEF req
  <2>5. /\ i \notin minted => warm.edge[i] = "none" /\ rows.edge[i] = "none" /\ ~Has(warm.mail, req)
        /\ Has(warm.mail, req) => warm.edge[i] = "none" /\ rows.edge[i] = "none"
        /\ ~Precedes(warm.mail, req, req)
    BY <2>1 DEF MintOk, req
  <2>6. /\ i \notin minted' => v.edge[i] = "none" /\ rows.edge[i] = "none" /\ ~Has(v.mail, req)
        /\ Has(v.mail, req) => v.edge[i] = "none" /\ rows.edge[i] = "none"
        /\ ~Precedes(v.mail, req, req)
    BY <2>3, <2>4, <2>5
  <2> QED
    BY <2>6 DEF MintOk, req
<1>3. Retiring'
  <2>1. v.edge = warm.edge /\ v.bridge = warm.bridge
    BY DEF Arrives, SameState
  <2> QED
    BY <2>1 DEF FInv, Retiring, AnswersAreDurable
<1>4. Quieted'
  <2> SUFFICES ASSUME NEW c \in Call PROVE QuietOk(c)'
    BY DEF Quieted
  <2>1. QuietOk(c)
    BY DEF FInv, Quieted
  <2>2. v.status = warm.status /\ v.settled = warm.settled /\ v.held = warm.held
    BY DEF Arrives, SameState
  <2>3. (Spent(v, c) <=> Spent(warm, c)) /\ (SettledOk(v, c) <=> SettledOk(warm, c))
    BY <2>2 DEF Spent, SettledOk
  <2>4. Completing(c)' => Completing(c) \/ (warm.status[c] # "none" /\ Quiet(c)')
    <3> SUFFICES ASSUME NEW o \in Outcomes, Has(v.mail, Completion(c, o)), ~Completing(c)
                 PROVE  warm.status[c] # "none" /\ Quiet(c)'
      BY DEF Completing
    <3>1. ~IsEvent(Completion(c, o))
      BY WorkFacts
    <3>2. Has(q, Completion(c, o))
      BY <3>1 DEF Arrives, Completing
    <3> QED
      BY <3>2
  <2> QED
    BY <2>1, <2>2, <2>3, <2>4 DEF QuietOk
<1> QED
  BY <1>1, <1>2, <1>3, <1>4 DEF FInv

\* The work of the transport arrives at any time, with the actor up or down.
LEMMA SinkFacts ==
  ASSUME FInv, NEW q, IsMail(q), \A t \in ToSet(q) : t \in Completions \cup Requests, Sink(q)
  PROVE  Phases' /\ Arrives(warm', q) /\ Staged(warm') /\ rows' = rows /\ after' = after
<1> DEFINE m == warm.mail \o q
           v == [warm EXCEPT !.mail = m]
<1>1. warm' = v /\ UNCHANGED <<rows, phase, after, faults, crashes, plan>>
  BY DEF Sink, Enqueue
<1>2. IsWarm(warm) /\ IsMail(warm.mail) /\ Staged(warm) /\ Phases
  BY DEF FInv, Phases, IsWarm, Retiring
<1>3. /\ IsMail(m) /\ ToSet(m) = ToSet(warm.mail) \cup ToSet(q)
      /\ \A e : Has(m, e) <=> Has(warm.mail, e) \/ Has(q, e)
      /\ \A e, f : Precedes(m, e, f) <=>
           Precedes(warm.mail, e, f) \/ Precedes(q, e, f) \/ (Has(warm.mail, e) /\ Has(q, f))
  BY <1>2, MailConcat
<1>4. \A t \in ToSet(q) : ~IsEvent(t)
  BY NotEvents
<1>5. phase # "down" => Consistent(v)
  <2>1. m = << >> \o warm.mail \o q
    BY <1>2 DEF IsMail
  <2>2. ToSet(<< >>) = {} /\ IsMail(<< >>)
    BY ToSetEmpty, MailNone
  <2> QED
    BY <1>2, <1>3, <1>4, <2>1, <2>2, WorkKeeps DEF Phases
<1> HIDE DEF m
<1>6. /\ IsWarm(v) /\ v.mail = m /\ v.status = warm.status /\ v.settled = warm.settled
      /\ v.held = warm.held /\ v.relays = warm.relays /\ v.edge = warm.edge
      /\ v.bridge = warm.bridge /\ v.staged = warm.staged /\ v.proxy = warm.proxy
      /\ v.asked = warm.asked /\ v.callee = warm.callee
  BY <1>2, <1>3, MailFacts
<1>7. ASSUME phase = "down" PROVE v = [rows EXCEPT !.mail = v.mail]
  <2>1. warm = [rows EXCEPT !.mail = warm.mail] /\ IsWarm(rows)
    BY <1>2, <1>7 DEF Phases, Consistent
  <2>2. v = [rows EXCEPT !.mail = m]
    BY <2>1 DEF IsWarm, Fields
  <2> QED
    BY <1>6, <2>2
<1> HIDE DEF v
<1>8. Phases'
  <2>1. phase = "down" => \A t \in ToSet(v.mail) : ~IsEvent(t)
    BY <1>2, <1>3, <1>4, <1>6 DEF Phases
  <2>2. phase # "batch" => SameRows'
    BY <1>1, <1>2, <1>6 DEF Phases, SameRows
  <2> QED
    BY <1>1, <1>2, <1>5, <1>6, <1>7, <2>1, <2>2 DEF Phases
<1>9. Arrives(v, q) /\ Staged(v)
  BY <1>2, <1>3, <1>6 DEF Arrives, SameState, Staged
<1> QED
  BY <1>1, <1>8, <1>9

\* A start and a finish of handlers, between two turns.
LEMMA TransportKeeps ==
  ASSUME FInv, NEW q, IsMail(q), \A t \in ToSet(q) : t \in Completions, Sink(q), Route',
         minted' = minted, waiting' \subseteq waiting, delivered' = delivered,
         executions' = executions,
         \A c \in Call : (handler'[c] # "none" => handler[c] # "none") /\ (Starts(c)' => Starts(c)),
         \A c \in Call, o \in Outcomes :
           Has(q, Completion(c, o)) =>
             /\ handler[c] # "none" \/ Starts(c)
             /\ handler'[c] = "none" /\ ~Starts(c)'
  PROVE  FInv'
<1>1. /\ Phases' /\ Arrives(warm', q) /\ Staged(warm') /\ rows' = rows /\ after' = after
      /\ warm'.status = warm.status
  BY SinkFacts DEF Arrives, SameState
<1>2. Once'
  <2> SUFFICES ASSUME NEW c \in Call PROVE OnceOk(c)'
    BY DEF FInv, Once
  <2>1. OnceOk(c) /\ executions[c] \in Nat
    BY DEF FInv, Once
  <2> QED
    BY <1>1, <2>1 DEF OnceOk
<1>3. \A c \in Call : Quiet(c) => Quiet(c)'
  BY <1>1 DEF Quiet, FInv, Route
<1>4. ASSUME NEW c \in Call, NEW o \in Outcomes, Has(q, Completion(c, o))
      PROVE  warm.status[c] # "none" /\ Quiet(c)'
  <2>1. OnceOk(c) /\ (handler[c] # "none" \/ Starts(c)) /\ handler'[c] = "none" /\ ~Starts(c)'
    BY <1>4 DEF FInv, Once
  <2> QED
    BY <1>1, <2>1 DEF OnceOk, Quiet
<1>5. ASSUME NEW i \in Inner
      PROVE  LET req == Work("innerDelegate", i)
             IN ~Precedes(q, req, req) /\ (Has(q, req) => i \in minted' \ minted)
  <2>1. ~Has(q, Work("innerDelegate", i))
    <3>1. Work("innerDelegate", i) \notin Completions
      BY WorkFacts DEF Completions
    <3> QED
      BY <3>1, HasIsIn
  <2> QED
    BY <2>1, OrderHas
<1>6. /\ minted \subseteq minted' /\ minted' \subseteq Inner /\ waiting' \subseteq minted'
      /\ delivered' \subseteq Inner /\ \A i \in delivered' : rows.edge[i] = "retired"
  BY DEF FInv, Minting, Retiring, AnswersAreDurable
<1> QED
  BY <1>1, <1>2, <1>3, <1>4, <1>5, <1>6, ArrivalKeeps

LEMMA CompletionMail ==
  ASSUME NEW c \in Call, NEW o \in Outcomes
  PROVE  LET q == <<Completion(c, o)>>
         IN IsMail(q) /\ (\A t \in ToSet(q) : t \in Completions) /\ \A e : Has(q, e) <=> e = Completion(c, o)
<1> DEFINE z == Completion(c, o)
<1>1. z \in Completions
  BY DEF Completions
<1>2. ~IsEvent(z)
  BY WorkFacts
<1> HIDE DEF z
<1>3. IsMail(<<z>>) /\ ToSet(<<z>>) = {z} /\ \A e : Has(<<z>>, e) <=> e = z
  BY <1>2, MailOne
<1> QED
  BY <1>1, <1>3 DEF z

\* A handler replies.
LEMMA RepliesKeep ==
  ASSUME FInv, NEW c \in Call, NEW o \in Outcomes, Replies(c, o) PROVE FInv'
<1> DEFINE q == <<Completion(c, o)>>
<1>1. /\ handler[c] # "none" /\ handler' = [handler EXCEPT ![c] = "none"]
      /\ routed' = routed \ {c} /\ waiting' \subseteq waiting /\ Sink(q)
      /\ UNCHANGED <<process, chained, unhandled, minted, executions, delivered, deaths>>
  BY DEF Replies
<1>2. IsMail(q) /\ (\A t \in ToSet(q) : t \in Completions) /\ \A e : Has(q, e) <=> e = Completion(c, o)
  BY CompletionMail
<1> HIDE DEF q
<1>3. Route /\ process = "up" /\ chained = {}
  BY <1>1 DEF FInv, Route
<1>4. Route'
  BY <1>1, <1>3 DEF Route, RouteIsLive
<1>5. /\ \A d \in Call : (handler'[d] # "none" => handler[d] # "none") /\ (Starts(d)' => Starts(d))
      /\ handler'[c] = "none" /\ ~Starts(c)'
  BY <1>1, <1>3 DEF Route, Starts
<1>6. \A d \in Call, p \in Outcomes : Has(q, Completion(d, p)) => d = c
  BY <1>2, WorkFacts
<1> QED
  BY <1>1, <1>2, <1>4, <1>5, <1>6, TransportKeeps

LEMMA DiesKeeps ==
  ASSUME FInv, SidecarDies PROVE FInv'
<1> DEFINE cut == {c \in Call : handler[c] # "none"}
<1>1. /\ process = "up" /\ handler' = [c \in Call |-> "none"] /\ waiting' = {}
      /\ UNCHANGED <<process, chained, unhandled, minted, executions, delivered>>
  BY DEF SidecarDies
<1>2. PICK late \in SUBSET cut, o \in {"result", "failure"} :
          /\ Sink(InSomeOrder({Completion(c, "failure") : c \in cut})
                    \o InSomeOrder({Completion(c, IF handler[c] = "aborted" THEN "cancelled" ELSE o)
                                    : c \in late}))
          /\ routed' = routed \ cut
  BY DEF SidecarDies
<1> DEFINE S == {Completion(c, "failure") : c \in cut}
           T == {Completion(c, IF handler[c] = "aborted" THEN "cancelled" ELSE o) : c \in late}
           a == InSomeOrder(S)
           b == InSomeOrder(T)
           q == a \o b
<1>3. S \in SUBSET Completions /\ T \in SUBSET Completions
  BY DEF Completions, Outcomes
<1>4. \A d \in Call, p \in Outcomes : Completion(d, p) \in S \cup T => d \in cut
  BY WorkFacts
<1>5. Sink(q)
  BY <1>2
<1> HIDE DEF S, T
<1>6. /\ IsMail(a) /\ ToSet(a) = S /\ (\A e : Has(a, e) <=> e \in S)
      /\ IsMail(b) /\ ToSet(b) = T /\ (\A e : Has(b, e) <=> e \in T)
  BY <1>3, InOrder
<1> HIDE DEF a, b
<1>7. IsMail(q) /\ ToSet(q) = S \cup T /\ \A e : Has(q, e) <=> e \in S \cup T
  BY <1>6, MailConcat
<1> HIDE DEF q
<1>8. chained = {} /\ RouteIsLive /\ \A d \in Call : ~Starts(d)' /\ ~Starts(d)
  BY <1>1 DEF FInv, Route, Starts
<1>9. routed' = {}
  BY <1>1, <1>2, <1>8 DEF RouteIsLive
<1>10. Route'
  BY <1>1, <1>8, <1>9 DEF Route, RouteIsLive
<1>11. \A t \in ToSet(q) : t \in Completions
  BY <1>3, <1>7
<1>12. ASSUME NEW d \in Call, NEW p \in Outcomes, Has(q, Completion(d, p))
       PROVE  handler[d] # "none" /\ handler'[d] = "none"
  <2>1. d \in cut
    BY <1>4, <1>7, <1>12
  <2> QED
    BY <1>1, <2>1
<1>13. \A d \in Call : (handler'[d] # "none" => handler[d] # "none") /\ (Starts(d)' => Starts(d))
  BY <1>1, <1>8
<1> HIDE DEF cut
<1> QED
  BY <1>1, <1>5, <1>7, <1>8, <1>10, <1>11, <1>12, <1>13, TransportKeeps

\* A spawn fails: the runtime ends, or the calls that waited for it fail.
LEMMA SpawnFailsKeeps ==
  ASSUME FInv, SpawnFails PROVE FInv'
<1>1. process = "pending" /\ delivered' = delivered
  BY DEF SpawnFails
<1>2. ASSUME ProcessEnds, UNCHANGED <<rows, faults, crashes, plan, minted, executions>> PROVE FInv'
  <2>1. Forget(rows) /\ rows' = rows /\ Ends /\ UNCHANGED <<minted, executions, delivered>>
    BY <1>1, <1>2 DEF ProcessEnds, Ends
  <2> QED
    BY <2>1, RowsDurable, ForgetKeeps
<1>3. ASSUME \A op \in chained : op[1] = "dispatch", process' = "absent", chained' = {},
             Failing({op[2] : op \in chained}), UNCHANGED sidecar
      PROVE  FInv'
  <2> DEFINE C == {op[2] : op \in chained}
             S == {Completion(c, "failure") : c \in C}
             q == InSomeOrder(S)
  <2>1. Route
    BY DEF FInv
  <2>2. \A op \in chained : op = <<"dispatch", op[2]>> /\ op[2] \in Call
    BY <1>3, <2>1 DEF Route
  <2>3. C \subseteq Call /\ \A c \in Call : c \in C <=> Starts(c)
    BY <2>2 DEF Starts
  <2>4. routed = C
    BY <1>1, <2>1, <2>3 DEF Route, RouteIsLive, Starts
  <2>5. Sink(q) /\ routed' = {}
    BY <1>3, <2>4 DEF Failing
  <2> HIDE DEF C
  <2>6. S \in SUBSET Completions
    BY <2>3 DEF Completions, Outcomes
  <2>7. \A d \in Call, p \in Outcomes : Completion(d, p) \in S => d \in C
    BY WorkFacts
  <2> HIDE DEF S
  <2>8. IsMail(q) /\ ToSet(q) = S /\ \A e : Has(q, e) <=> e \in S
    BY <2>6, InOrder
  <2> HIDE DEF q
  <2>9. /\ waiting' \subseteq waiting /\ handler' = handler
        /\ UNCHANGED <<minted, executions, delivered>>
    BY <1>1, <1>3 DEF sidecar
  <2>10. \A c \in Call : handler[c] = "none" /\ ~Starts(c)'
    BY <1>1, <1>3, <2>1 DEF Route, Starts
  <2>11. Route'
    BY <1>3, <2>1, <2>5, <2>9, <2>10 DEF Route, RouteIsLive
  <2>12. \A t \in ToSet(q) : t \in Completions
    BY <2>6, <2>8
  <2>13. \A d \in Call, p \in Outcomes : Has(q, Completion(d, p)) => Starts(d)
    BY <2>3, <2>7, <2>8
  <2> QED
    BY <2>5, <2>8, <2>9, <2>10, <2>11, <2>12, <2>13, TransportKeeps
<1> QED
  BY <1>2, <1>3 DEF SpawnFails

\* A handler calls back: its token is new.
LEMMA CallsBackKeeps ==
  ASSUME FInv, NEW i \in Inner, CallsBack(i) PROVE FInv'
<1> DEFINE z == Work("innerDelegate", i)
           q == <<z>>
<1>1. /\ i \notin minted /\ minted' = minted \cup {i} /\ waiting' = waiting \cup {i} /\ Sink(q)
      /\ UNCHANGED <<transport, handler, executions, delivered>>
  BY DEF CallsBack
<1>2. ~IsEvent(z) /\ z \in Requests /\ z \notin Completions
  BY WorkFacts DEF Completions, Requests
<1>3. \A j \in Inner : Work("innerDelegate", j) = z => j = i
  BY WorkFacts
<1>4. \A c \in Call, o \in Outcomes : Completion(c, o) # z
  BY WorkFacts
<1> HIDE DEF z
<1>5. /\ IsMail(q) /\ ToSet(q) = {z} /\ \A e : Has(q, e) <=> e = z
      /\ \A e, f : ~Precedes(q, e, f)
  BY <1>2, MailOne
<1> HIDE DEF q
<1>6. \A t \in ToSet(q) : t \in Completions \cup Requests
  BY <1>2, <1>5
<1>7. /\ Phases' /\ Arrives(warm', q) /\ Staged(warm') /\ rows' = rows /\ after' = after
      /\ warm'.status = warm.status
  BY <1>1, <1>5, <1>6, SinkFacts DEF Arrives, SameState
<1>8. handler' = handler /\ chained' = chained /\ process' = process /\ routed' = routed
      /\ executions' = executions /\ delivered' = delivered
  BY <1>1 DEF transport
<1>9. Route'
  BY <1>8 DEF FInv, Route, RouteIsLive
<1>10. Once'
  BY <1>7, <1>8 DEF FInv, Once, OnceOk, Starts
<1>11. \A c \in Call : Quiet(c) => Quiet(c)'
  BY <1>7, <1>8 DEF Quiet, Starts
<1>12. \A c \in Call, o \in Outcomes : ~Has(q, Completion(c, o))
  BY <1>4, <1>5
<1>13. ASSUME NEW j \in Inner
       PROVE  LET req == Work("innerDelegate", j)
              IN ~Precedes(q, req, req) /\ (Has(q, req) => j \in minted' \ minted)
  <2>1. Has(q, Work("innerDelegate", j)) => j = i
    BY <1>3, <1>5
  <2> QED
    BY <1>1, <1>5, <2>1
<1>14. /\ minted \subseteq minted' /\ minted' \subseteq Inner /\ waiting' \subseteq minted'
       /\ delivered' \subseteq Inner /\ \A j \in delivered' : rows.edge[j] = "retired"
  BY <1>1, <1>8 DEF FInv, Minting, Retiring, AnswersAreDurable
<1> QED
  BY <1>7, <1>9, <1>10, <1>11, <1>12, <1>13, <1>14, ArrivalKeeps

\* The sidecar is up: what waited for it starts.
LEMMA SpawnedKeeps ==
  ASSUME FInv, Spawned PROVE FInv'
<1> DEFINE start == {c \in Call : <<"dispatch", c>> \in chained}
           abort == {c \in Call : <<"abort", c>> \in chained}
<1>1. /\ process = "pending" /\ process' = "up" /\ chained' = {}
      /\ Deliver(start, abort, {})
      /\ UNCHANGED <<callVars, routed, unhandled, delivered, deaths>>
  BY DEF Spawned
<1>2. warm' = warm /\ rows' = rows /\ phase' = phase /\ after' = after /\ routed' = routed
      /\ delivered' = delivered /\ minted' = minted /\ waiting' \subseteq waiting
  BY <1>1 DEF callVars, Deliver
<1>3. Route
  BY DEF FInv
<1>4. \A c \in Call : handler[c] = "none" /\ (c \in start <=> Starts(c)) /\ ~Starts(c)'
  BY <1>1, <1>3 DEF Route, Starts
<1>5. start \subseteq Call /\ routed = start
  BY <1>1, <1>3 DEF Route, RouteIsLive
<1> HIDE DEF start, abort
<1>6. handler' \in [Call -> {"none", "running", "aborted"}]
  BY <1>1, <1>3 DEF Deliver, Route
<1>7. \A c \in Call : /\ handler'[c] # "none" <=> c \in start
                      /\ executions'[c] = executions[c] + IF c \in start THEN 1 ELSE 0
  BY <1>1, <1>4 DEF Deliver
<1>8. Route'
  BY <1>1, <1>2, <1>5, <1>6, <1>7 DEF Route, RouteIsLive
<1>9. Once'
  <2>1. executions' \in [Call -> Nat]
    BY <1>1 DEF Deliver, FInv, Once
  <2> SUFFICES ASSUME NEW c \in Call PROVE OnceOk(c)'
    BY <2>1 DEF Once
  <2>2. OnceOk(c) /\ executions[c] \in Nat
    BY DEF FInv, Once
  <2> QED
    BY <1>2, <1>4, <1>7, <2>2 DEF OnceOk
<1>10. Quieted'
  <2>1. \A c \in Call : Quiet(c) => Quiet(c)'
    BY <1>2, <1>4, <1>7 DEF Quiet
  <2>2. \A c \in Call : QuietOk(c)
    BY DEF FInv, Quieted
  <2>3. \A c \in Call : (Completing(c)' <=> Completing(c)) /\ (Spent(warm, c)' <=> Spent(warm, c))
                          /\ (SettledOk(warm, c)' <=> SettledOk(warm, c))
    BY <1>2 DEF Completing, Spent, SettledOk
  <2> QED
    BY <1>2, <2>1, <2>2, <2>3 DEF Quieted, QuietOk
<1>11. Phases'
  BY <1>2 DEF FInv, Phases, SameRows
<1>12. MailWork(warm.mail)' /\ Minting' /\ Retiring'
  BY <1>2 DEF FInv, MailWork, Minting, MintOk, Retiring, Staged, AnswersAreDurable
<1> QED
  BY <1>8, <1>9, <1>10, <1>11, <1>12 DEF FInv

\* The sidecar unwinds: what it is told to abort, it was running.
LEMMA UnwindFacts ==
  ASSUME NEW abort, Deliver({}, abort, {}), FInv
  PROVE  /\ \A c \in Call : (handler'[c] # "none" <=> handler[c] # "none")
         /\ handler' \in [Call -> {"none", "running", "aborted"}]
         /\ executions' = executions /\ waiting' \subseteq waiting /\ minted' = minted
<1>1. /\ handler \in [Call -> {"none", "running", "aborted"}]
      /\ executions \in [Call -> Nat]
  BY DEF FInv, Route, Once
<1>2. executions' = executions
  BY <1>1 DEF Deliver
<1> QED
  BY <1>1, <1>2 DEF Deliver

\* What the transport answers at once, because the route is gone, is quiet.
LEMMA UnroutedQuiet ==
  ASSUME FInv, NEW c \in Call, c \notin routed
  PROVE  handler[c] = "none" /\ ~Starts(c)
BY DEF FInv, Route, RouteIsLive, Starts

\* A reload takes the undrained rows up again, behind what it schedules.
LEMMA ReloadKeeps ==
  ASSUME FInv, Reload PROVE FInv'
<1> DEFINE S == {Completion(c, "failure") : c \in Running \ routed}
                  \cup {Completion(c, "cancelled") : c \in Cancelling \ routed}
           q == InSomeOrder(S)
           a == warm.mail \o q
           m == a \o rows.mail
           v == [warm EXCEPT !.mail = m]
<1>1. /\ phase = "down" /\ phase' = "idle" /\ warm' = v
      /\ rows' = rows /\ after' = after
      /\ UNCHANGED <<routed, process, unhandled, delivered, deaths>>
      /\ \/ /\ process = "up" /\ chained' = chained
            /\ Deliver({}, Cancelling \cap routed, {})
         \/ /\ process # "up" /\ UNCHANGED sidecar
            /\ chained' = chained \cup ({"recover"} \X (Running \cap routed))
                                  \cup ({"abort"} \X (Cancelling \cap routed))
  BY DEF Reload, Load, LoadAs
<1>2. /\ SameRows /\ Consistent(rows) /\ IsWarm(rows) /\ after = << >> /\ IsMail(rows.mail)
      /\ warm = [rows EXCEPT !.mail = warm.mail] /\ IsWarm(warm) /\ IsMail(warm.mail)
      /\ \A t \in ToSet(warm.mail) : ~IsEvent(t)
      /\ \A t \in ToSet(rows.mail) : IsEvent(t)
  BY <1>1 DEF FInv, Phases, Consistent, IsWarm
<1>3. S \in SUBSET Completions
  BY DEF Completions, Outcomes, Running, Cancelling
<1>4. ASSUME NEW c \in Call, NEW o \in Outcomes, Completion(c, o) \in S
      PROVE  c \notin routed /\ rows.status[c] # "none"
  <2>1. c \in (Running \cup Cancelling) \ routed
    BY <1>4, WorkFacts
  <2> QED
    BY <2>1 DEF Running, Cancelling
<1> HIDE DEF S
<1>5. /\ IsMail(q) /\ ToSet(q) = S /\ (\A e : Has(q, e) <=> e \in S)
      /\ \A t \in S : ~IsEvent(t)
  BY <1>3, InOrder
<1> HIDE DEF q
<1>6. /\ IsMail(a) /\ ToSet(a) = ToSet(warm.mail) \cup ToSet(q)
      /\ \A e : Has(a, e) <=> Has(warm.mail, e) \/ Has(q, e)
      /\ \A e, f : Precedes(a, e, f) <=>
           Precedes(warm.mail, e, f) \/ Precedes(q, e, f) \/ (Has(warm.mail, e) /\ Has(q, f))
  BY <1>2, <1>5, MailConcat
<1> HIDE DEF a
<1>7. /\ IsMail(m)
      /\ \A e : Has(m, e) <=> Has(a, e) \/ Has(rows.mail, e)
      /\ \A e, f : Precedes(m, e, f) <=>
           Precedes(a, e, f) \/ Precedes(rows.mail, e, f) \/ (Has(a, e) /\ Has(rows.mail, f))
  BY <1>2, <1>6, MailConcat
<1>8. Consistent([rows EXCEPT !.mail = m])
  <2>1. m = a \o rows.mail \o << >>
    BY <1>7 DEF IsMail
  <2>2. ToSet(<< >>) = {} /\ IsMail(<< >>)
    BY ToSetEmpty, MailNone
  <2> QED
    BY <1>2, <1>5, <1>6, <1>7, <2>1, <2>2, WorkKeeps
<1> HIDE DEF m
<1>9. Consistent(v)
  <2>1. v = [rows EXCEPT !.mail = m]
    BY <1>2 DEF IsWarm, Fields
  <2> QED
    BY <1>8, <2>1
<1>10. /\ IsWarm(v) /\ v.mail = m /\ v.status = warm.status /\ v.settled = warm.settled
      /\ v.held = warm.held /\ v.relays = warm.relays /\ v.edge = warm.edge
      /\ v.bridge = warm.bridge /\ v.staged = warm.staged /\ v.proxy = warm.proxy
      /\ v.asked = warm.asked /\ v.callee = warm.callee
  BY <1>2, <1>7, MailFacts
<1> HIDE DEF v
<1>11. Phases'
  BY <1>1, <1>2, <1>9, <1>10 DEF FInv, Phases, SameRows
<1>12. Arrives(v, q)
  <2>1. \A e : ~IsEvent(e) => ~Has(rows.mail, e)
    BY <1>2, HasIsIn
  <2>2. \A e, f : ~IsEvent(e) => ~Precedes(rows.mail, e, f)
    BY <2>1, OrderHas
  <2> QED
    BY <1>3, <1>5, <1>6, <1>7, <1>10, <2>1, <2>2 DEF Arrives, SameState
<1>13. /\ \A c \in Call : (handler'[c] # "none" <=> handler[c] # "none") /\ (Starts(c)' <=> Starts(c))
       /\ handler' \in [Call -> {"none", "running", "aborted"}]
       /\ executions' = executions /\ waiting' \subseteq waiting /\ minted' = minted
  <2>1. CASE process = "up"
    BY <1>1, <2>1, UnwindFacts DEF Starts
  <2>2. CASE process # "up"
    BY <1>1, <2>2 DEF sidecar, Starts, FInv, Route
  <2> QED
    BY <2>1, <2>2
<1>14. Route'
  <2>1. Route
    BY DEF FInv
  <2>2. RouteIsLive'
    BY ZenonT(30), <1>1, <1>13, <2>1 DEF Route, RouteIsLive, Starts
  <2>3. chained' \subseteq {"dispatch", "abort", "recover"} \X Call
    BY <1>1, <2>1 DEF Route, Running, Cancelling
  <2>4. process # "pending" => chained' = {}
    <3>1. process # "pending" /\ process # "up" => chained = {} /\ routed = {}
      BY <2>1 DEF Route, RouteIsLive
    <3> QED
      BY <1>1, <2>1, <3>1 DEF Route
  <2> QED
    BY <1>1, <1>13, <2>1, <2>2, <2>3, <2>4 DEF Route
<1>15. Once'
  BY <1>1, <1>10, <1>13 DEF FInv, Once, OnceOk
<1>16. \A c \in Call : Quiet(c) => Quiet(c)'
  BY <1>1, <1>13 DEF Quiet, FInv, Route
<1>17. ASSUME NEW c \in Call, NEW o \in Outcomes, Has(q, Completion(c, o))
       PROVE  warm.status[c] # "none" /\ Quiet(c)'
  <2>1. c \notin routed /\ warm.status[c] # "none"
    BY <1>2, <1>4, <1>5, <1>17 DEF SameRows
  <2>2. handler[c] = "none" /\ ~Starts(c) /\ ~Has(after, Event("delegate", c, Own))
    BY <1>2, <2>1, UnroutedQuiet, MailNone
  <2> QED
    BY <1>16, <2>1, <2>2 DEF Quiet
<1>18. ASSUME NEW i \in Inner
       PROVE  LET req == Work("innerDelegate", i)
              IN ~Precedes(q, req, req) /\ (Has(q, req) => i \in minted' \ minted)
  <2>1. ~Has(q, Work("innerDelegate", i))
    <3>1. Work("innerDelegate", i) \notin Completions
      BY WorkFacts DEF Completions
    <3> QED
      BY <1>3, <1>5, <3>1
  <2> QED
    BY <2>1, OrderHas
<1>19. /\ minted \subseteq minted' /\ minted' \subseteq Inner /\ waiting' \subseteq minted'
       /\ delivered' \subseteq Inner /\ \A i \in delivered' : rows.edge[i] = "retired"
  BY <1>1, <1>13 DEF FInv, Minting, Retiring, AnswersAreDurable
<1>20. Staged(v)
  BY <1>10 DEF FInv, Retiring, Staged
<1> QED
  BY <1>1, <1>11, <1>12, <1>14, <1>15, <1>16, <1>17, <1>18, <1>19, <1>20, ArrivalKeeps

\* The effects of a committed batch: starts, aborts and outcomes, in one go.
LEMMA AfterCommitKeeps ==
  ASSUME FInv, AfterCommit PROVE FInv'
<1> DEFINE C == Aborted \ routed'
           S == {Completion(c, "cancelled") : c \in C}
           q == InSomeOrder(S)
           m == warm.mail \o q
           v == [warm EXCEPT !.staged = << >>, !.mail = m]
<1>1. /\ phase = "post" /\ phase' = "idle" /\ after' = << >> /\ rows' = rows
      /\ routed' = routed \cup Dispatched /\ warm' = v /\ delivered' = delivered \cup Delivered
      /\ \/ /\ process = "up" /\ process' = process /\ chained' = chained
            /\ Deliver(Dispatched, Aborted \cap routed', {i \in Delivered : ParentOf[i] \in routed'})
         \/ /\ process # "up" /\ UNCHANGED sidecar
            /\ process' = IF Dispatched = {} THEN process ELSE "pending"
            /\ chained' = chained \cup ({"dispatch"} \X Dispatched)
                                  \cup ({"abort"} \X (Aborted \cap routed'))
  BY DEF AfterCommit, SideEffects
<1>2. /\ SameRows /\ Consistent(rows) /\ Consistent(warm) /\ IsWarm(warm) /\ IsMail(warm.mail)
      /\ Staged(warm) /\ Route
  BY <1>1 DEF FInv, Phases, Consistent, IsWarm, Retiring
<1>3. \A c \in Call : c \in Dispatched =>
        /\ Has(after, Event("delegate", c, Own)) /\ warm.status[c] # "none"
  BY HasIsIn DEF Dispatched, Live
<1>4. Dispatched \subseteq Call /\ Aborted \subseteq Call
      /\ \A c \in Aborted : warm.status[c] # "none"
  BY DEF Dispatched, Aborted
<1>5. ASSUME NEW c \in Call
      PROVE  /\ c \in Dispatched => executions[c] = 0 /\ ~Starts(c) /\ handler[c] = "none" /\ ~Quiet(c)
             /\ c \notin routed => handler[c] = "none" /\ ~Starts(c)
             /\ OnceOk(c) /\ executions[c] \in Nat
  <2>1. OnceOk(c) /\ executions[c] \in Nat
    BY DEF FInv, Once
  <2> QED
    BY <1>3, <2>1, UnroutedQuiet DEF OnceOk, Quiet
<1>6. S \in SUBSET Completions
  BY <1>4 DEF Completions, Outcomes
<1>7. \A d \in Call, p \in Outcomes : Completion(d, p) \in S => d \in C
  BY WorkFacts
<1> HIDE DEF S
<1>8. /\ IsMail(q) /\ ToSet(q) = S /\ (\A e : Has(q, e) <=> e \in S)
      /\ \A t \in S : ~IsEvent(t)
  BY <1>6, InOrder
<1> HIDE DEF q
<1>9. /\ IsMail(m)
      /\ \A e : Has(m, e) <=> Has(warm.mail, e) \/ Has(q, e)
      /\ \A e, f : Precedes(m, e, f) <=>
           Precedes(warm.mail, e, f) \/ Precedes(q, e, f) \/ (Has(warm.mail, e) /\ Has(q, f))
  BY <1>2, <1>8, MailConcat
<1>10. Consistent([warm EXCEPT !.mail = m])
  <2>1. m = << >> \o warm.mail \o q
    BY <1>2 DEF IsMail
  <2>2. ToSet(<< >>) = {} /\ IsMail(<< >>)
    BY ToSetEmpty, MailNone
  <2> QED
    BY <1>2, <1>8, <1>9, <2>1, <2>2, WorkKeeps
<1> HIDE DEF m
<1> DEFINE u == [warm EXCEPT !.mail = m]
<1>11. /\ IsWarm(u) /\ u.mail = m /\ u.status = warm.status /\ u.settled = warm.settled
       /\ u.held = warm.held /\ u.relays = warm.relays /\ u.edge = warm.edge
       /\ u.bridge = warm.bridge /\ u.raised = warm.raised /\ u.proxy = warm.proxy
       /\ u.asked = warm.asked /\ u.callee = warm.callee
  BY <1>2, <1>9, MailFacts
<1>12. v = [u EXCEPT !.staged = << >>]
  BY <1>2 DEF IsWarm, Fields
<1> HIDE DEF u, v
<1>13. /\ IsWarm(v) /\ v.mail = m /\ v.status = warm.status /\ v.settled = warm.settled
       /\ v.held = warm.held /\ v.relays = warm.relays /\ v.edge = warm.edge
       /\ v.bridge = warm.bridge /\ v.staged = << >> /\ v.proxy = warm.proxy
       /\ v.asked = warm.asked /\ v.callee = warm.callee
  <2>1. /\ IsWarm(v) /\ v.mail = u.mail /\ v.status = u.status /\ v.settled = u.settled
        /\ v.held = u.held /\ v.relays = u.relays /\ v.edge = u.edge
        /\ v.bridge = u.bridge /\ v.staged = << >> /\ v.proxy = u.proxy
        /\ v.asked = u.asked /\ v.callee = u.callee
    BY <1>11, <1>12 DEF IsWarm, Fields
  <2> QED
    BY <1>11, <2>1
<1>14. Consistent(v)
  <2>1. Consistent(u)
    BY <1>10 DEF u
  <2>2. \A c \in Call : v.held[c] \in {"nothing", u.held[c]}
    BY <1>11, <1>13
  <2> QED
    BY <1>11, <1>13, <2>1, <2>2, SameLettersKeep
<1>15. Phases'
  <2>1. IsMail(<< >>) /\ ToSet(<< >>) = {}
    BY ToSetEmpty, MailNone
  <2> QED
    BY <1>1, <1>2, <1>13, <1>14, <2>1 DEF FInv, Phases, SameRows
<1>16. Arrives(v, q)
  BY <1>6, <1>8, <1>9, <1>13 DEF Arrives, SameState
<1>17. /\ executions' \in [Call -> Nat] /\ handler' \in [Call -> {"none", "running", "aborted"}]
       /\ waiting' \subseteq waiting /\ minted' = minted
       /\ \A c \in Call :
            \/ c \in Dispatched /\ executions'[c] + (IF Starts(c)' THEN 1 ELSE 0) = 1
                 /\ (handler'[c] # "none" => executions'[c] > 0)
            \/ c \notin Dispatched /\ executions'[c] = executions[c] /\ (Starts(c)' <=> Starts(c))
                 /\ (handler'[c] # "none" <=> handler[c] # "none")
  <2>1. handler \in [Call -> {"none", "running", "aborted"}] /\ executions \in [Call -> Nat]
    BY <1>2 DEF Route, FInv, Once
  <2>2. CASE process = "up"
    <3>1. \A c \in Call : Starts(c)' <=> Starts(c)
      BY <1>1, <2>2 DEF Starts
    <3>2. \A c \in Call : executions'[c] = executions[c] + IF c \in Dispatched THEN 1 ELSE 0
      BY <1>1, <2>2 DEF Deliver
    <3>3. executions' \in [Call -> Nat] /\ handler' \in [Call -> {"none", "running", "aborted"}]
          /\ waiting' \subseteq waiting /\ minted' = minted
      BY SMTT(30), <1>1, <2>1, <2>2 DEF Deliver
    <3>4. \A c \in Call \ Dispatched : handler'[c] # "none" <=> handler[c] # "none"
      BY <1>1, <2>2 DEF Deliver
    <3> QED
      BY <1>5, <3>1, <3>2, <3>3, <3>4
  <2>3. CASE process # "up"
    <3>1. handler' = handler /\ executions' = executions /\ waiting' = waiting /\ minted' = minted
      BY <1>1, <2>3 DEF sidecar
    <3>2. \A c \in Call : Starts(c)' <=> Starts(c) \/ c \in Dispatched
      BY <1>1, <2>3 DEF Starts
    <3> QED
      BY <1>5, <2>1, <3>1, <3>2
  <2> QED
    BY <2>2, <2>3
<1>18. Route'
  <2>1. CASE process = "up"
    <3>1. \A c \in Call : handler'[c] # "none" <=> handler[c] # "none" \/ c \in Dispatched
      BY <1>1, <2>1 DEF Deliver
    <3> QED
      BY <1>1, <1>2, <1>4, <1>17, <2>1, <3>1 DEF Route, RouteIsLive
  <2>2. CASE process # "up"
    <3>1. handler' = handler /\ \A c \in Call : handler[c] = "none"
      BY <1>1, <1>2, <2>2 DEF sidecar, Route
    <3>2. RouteIsLive'
      BY <1>1, <1>2, <1>4, <2>2 DEF Route, RouteIsLive
    <3>3. process' # "pending" => chained' = {}
      <4>1. process # "pending" => chained = {} /\ routed = {}
        BY <1>2, <2>2 DEF Route, RouteIsLive
      <4> QED
        BY <1>1, <2>2, <4>1
    <3>4. chained' \subseteq {"dispatch", "abort", "recover"} \X Call
      BY <1>1, <1>2, <1>4, <2>2 DEF Route
    <3> QED
      BY <1>1, <1>2, <1>17, <2>2, <3>1, <3>2, <3>3, <3>4 DEF Route
  <2> QED
    BY <2>1, <2>2
<1>19. \A c \in Call : ~Has(after', Event("delegate", c, Own))
  BY <1>1, MailNone
<1>20. Once'
  <2> SUFFICES ASSUME NEW c \in Call PROVE OnceOk(c)'
    BY <1>17 DEF Once
  <2>1. OnceOk(c) /\ executions[c] \in Nat /\ executions'[c] \in Nat
    BY <1>5, <1>17
  <2>2. rows'.status[c] = warm.status[c] /\ rows.status[c] = warm.status[c] /\ warm'.status[c] = warm.status[c]
    BY <1>1, <1>2, <1>13 DEF SameRows
  <2>3. CASE c \in Dispatched
    <3>1. executions'[c] + (IF Starts(c)' THEN 1 ELSE 0) = 1 /\ (handler'[c] # "none" => executions'[c] > 0)
      BY <1>17, <2>3
    <3> QED
      BY <1>3, <1>19, <2>1, <2>2, <2>3, <3>1 DEF OnceOk
  <2>4. CASE c \notin Dispatched
    <3>1. executions'[c] = executions[c] /\ (Starts(c)' <=> Starts(c))
          /\ (handler'[c] # "none" <=> handler[c] # "none")
      BY <1>17, <2>4
    <3> QED
      BY <1>19, <2>1, <2>2, <3>1 DEF OnceOk
  <2> QED
    BY <2>3, <2>4
<1>21. ASSUME NEW c \in Call, c \notin Dispatched, handler[c] = "none", ~Starts(c) PROVE Quiet(c)'
  <2>1. ~Starts(c)' /\ handler'[c] = "none"
    BY <1>17, <1>21, <1>2 DEF Route
  <2> QED
    BY <1>19, <2>1 DEF Quiet
<1>22. \A c \in Call : Quiet(c) => Quiet(c)'
  BY <1>5, <1>21 DEF Quiet
<1>23. ASSUME NEW c \in Call, NEW o \in Outcomes, Has(q, Completion(c, o))
       PROVE  warm.status[c] # "none" /\ Quiet(c)'
  <2>1. c \in C
    BY <1>7, <1>8, <1>23
  <2>2. c \in Aborted /\ c \notin routed /\ c \notin Dispatched
    BY <1>1, <2>1
  <2> QED
    BY <1>4, <1>5, <1>21, <2>2
<1>24. ASSUME NEW i \in Inner
       PROVE  LET req == Work("innerDelegate", i)
              IN ~Precedes(q, req, req) /\ (Has(q, req) => i \in minted' \ minted)
  <2>1. ~Has(q, Work("innerDelegate", i))
    <3>1. Work("innerDelegate", i) \notin Completions
      BY WorkFacts DEF Completions
    <3> QED
      BY <1>6, <1>8, <3>1
  <2> QED
    BY <2>1, OrderHas
<1>25. delivered' \subseteq Inner /\ \A i \in delivered' : rows.edge[i] = "retired"
  <2>1. \A i \in Delivered : i \in Inner /\ warm.edge[i] = "retired"
    BY <1>2 DEF Delivered, Staged, ToSet
  <2>2. delivered \subseteq Inner /\ \A i \in delivered : rows.edge[i] = "retired"
    BY DEF FInv, Retiring, AnswersAreDurable
  <2> QED
    BY <1>1, <1>2, <2>1, <2>2 DEF SameRows
<1>26. Staged(v)
  BY <1>13, ToSetEmpty DEF Staged
<1>27. minted \subseteq minted' /\ minted' \subseteq Inner /\ waiting' \subseteq minted'
  BY <1>17 DEF FInv, Minting
<1> QED
  BY <1>1, <1>15, <1>16, <1>18, <1>20, <1>22, <1>23, <1>24, <1>25, <1>26, <1>27, ArrivalKeeps
-----------------------------------------------------------------------------
(* The theorems.                                                           *)

LEMMA StutterKeeps ==
  ASSUME FInv, UNCHANGED vars PROVE FInv'
<1>1. /\ warm' = warm /\ rows' = rows /\ phase' = phase /\ after' = after
      /\ routed' = routed /\ process' = process /\ chained' = chained /\ handler' = handler
      /\ waiting' = waiting /\ minted' = minted /\ executions' = executions /\ delivered' = delivered
  BY DEF vars, callVars, ffiVars, transport, sidecar
<1>2. Phases' /\ Route' /\ MailWork(warm.mail)' /\ Minting'
  BY <1>1 DEF FInv, Phases, SameRows, Route, RouteIsLive, MailWork, Minting, MintOk
<1>3. Retiring' /\ Once' /\ Quieted'
  BY <1>1 DEF FInv, Retiring, AnswersAreDurable, Staged, Once, OnceOk, Quieted, QuietOk, Quiet,
              Starts, Completing, Spent, SettledOk
<1> QED
  BY <1>2, <1>3 DEF FInv

\* Every step of the reactor, of its peers, of the sidecar and of misfortune.
LEMMA NextKeeps ==
  ASSUME FInv, [Next]_vars PROVE FInv'
<1>1. CASE Loop
  BY <1>1, HandleKeeps, CompleteTurnKeeps, InnerDelegateKeeps, CommitKeeps, AfterCommitKeeps,
     ReloadKeeps DEF Loop
<1>2. CASE Peers /\ UNCHANGED ffiVars
  BY <1>2, PeersKeep
<1>3. CASE Process
  <2>1. {"result", "failure", "cancelled"} = Outcomes
    BY DEF Outcomes
  <2> QED
    BY <1>3, <2>1, SpawnedKeeps, RepliesKeep, CallsBackKeeps DEF Process
<1>4. CASE Misfortune
  BY <1>4, FailKeeps, CrashKeeps, SpawnFailsKeeps, DiesKeeps DEF Misfortune
<1>5. CASE UNCHANGED vars
  BY <1>5, StutterKeeps
<1> QED
  BY <1>1, <1>2, <1>3, <1>4, <1>5 DEF Next

LEMMA FInvAlways == Spec => []FInv
BY FInvInit, NextKeeps, PTL DEF Spec

\* The state of the calls, of the transport and of the sidecar has its type.
THEOREM FfiTypes == Spec => []TypeOK
BY FInvAlways, FInvTypeOK, PTL

\* A handler is served: while it runs its route leads to it; the ask of an inner
\* agent moves on, through commits, failures and reloads; what it is told of an
\* inner call is durable; and no call has its handler started twice.
THEOREM Served == Spec => []HandlersServed
BY FInvAlways, FInvServed, PTL

\* A call whose answer went up left no inner agent behind, and no call that has
\* answered or stands as failed has a handler at work or about to start.
THEOREM Outlives == Spec => []NothingOutlives
BY FInvAlways, FInvOutlives, PTL
=============================================================================
