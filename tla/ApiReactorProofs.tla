-------------------------- MODULE ApiReactorProofs --------------------------
(***************************************************************************)
(* What ApiReactor guarantees for all runs, programs and bounds: its type  *)
(* invariant; that the outcomes of runs are those RunOutcome allows; of    *)
(* its critical sections, that one works at a time and each is started at  *)
(* most once; of its answers, that the history holds the answer the        *)
(* program got, that a question that suspends a program can be answered,   *)
(* that the promise of a run tells what its row tells, and that once       *)
(* nothing is in flight nothing of a run that is over is left.             *)
(*                                                                         *)
(* The account of the sections is kept in two places: the reactor's (what  *)
(* is queued, held and fenced) and the line of committed events, whose     *)
(* order matters: the terminate of an abandoned section is ahead of the    *)
(* delegate of the next.  The account of the answers relates the reactor   *)
(* to the reactors below through the same line: whoever lost its row there *)
(* was told to stop, or its answer is on its way.                          *)
(***************************************************************************)
EXTENDS ApiReactor, SequenceLemmas, SequenceTheorems, FiniteSetTheorems, TLAPS

-----------------------------------------------------------------------------
(* Paths.                                                                  *)

LEMMA RootFacts ==
  ASSUME NEW r \in Runs
  PROVE  /\ <<r>> \in Roots /\ <<r>> \in Delegations /\ RunOf(<<r>>) = r
         /\ <<r>> \notin RunRequests /\ <<r>> \notin Sections
         /\ Body(<<r>>) = Program[r]
<1>1. \A q, k : <<r>> # <<q, k>>
  OBVIOUS
<1> QED
  BY <1>1 DEF Roots, Delegations, RunOf, RunRequests, Sections, Body

LEMMA FrontOfAppend ==
  ASSUME NEW S, NEW s \in Seq(S), NEW x \in S, s # << >>
  PROVE  Front(Append(s, x)) = s /\ Last(Append(s, x)) = x /\ Append(s, x)[1] = s[1]
<1>1. Front(Append(s, x)) = s
  BY DEF Front
<1>2. Len(Append(s, x)) = Len(s) + 1
  OBVIOUS
<1> QED
  BY <1>1, <1>2 DEF Last

LEMMA AppendPair == ASSUME NEW r, NEW k PROVE Append(<<r>>, k) = <<r, k>>
<1>1. /\ <<r>> \in Seq({r, k}) /\ Len(<<r>>) = 1 /\ <<r>>[1] = r
      /\ <<r, k>> \in Seq({r, k}) /\ Len(<<r, k>>) = 2 /\ <<r, k>>[1] = r /\ <<r, k>>[2] = k
  OBVIOUS
<1>2. /\ Append(<<r>>, k) \in Seq({r, k}) /\ Len(Append(<<r>>, k)) = 2
      /\ Append(<<r>>, k)[1] = r /\ Append(<<r>>, k)[2] = k
  BY <1>1
<1> DEFINE s == Append(<<r>>, k)  t == <<r, k>>
<1>3. s \in Seq({r, k}) /\ t \in Seq({r, k}) /\ Len(s) = Len(t) /\ \A i \in 1..Len(s) : s[i] = t[i]
  BY <1>1, <1>2
<1> HIDE DEF s, t
<1> QED
  BY <1>3, SeqEqual DEF s, t

LEMMA FrontOfPair == ASSUME NEW r, NEW k PROVE Front(<<r, k>>) = <<r>> /\ Last(<<r, k>>) = k
<1>1. Append(<<r>>, k) = <<r, k>>
  BY AppendPair
<1>2. <<r>> \in Seq({r, k}) /\ <<r>> # << >>
  OBVIOUS
<1>3. Front(Append(<<r>>, k)) = <<r>> /\ Last(Append(<<r>>, k)) = k
  <2> DEFINE S == {r, k}  s == <<r>>
  <2>1. s \in Seq(S) /\ k \in S /\ s # << >>
    BY <1>2
  <2> HIDE DEF S, s
  <2>2. Front(Append(s, k)) = s /\ Last(Append(s, k)) = k
    BY <2>1, FrontOfAppend
  <2> QED
    BY <2>2 DEF s
<1> QED
  BY <1>1, <1>3

LEMMA RequestFacts ==
  ASSUME NEW r \in Runs, NEW k \in DOMAIN Program[r]
  PROVE  /\ <<r, k>> \in RunRequests /\ <<r, k>> \in Asks
         /\ Raiser(<<r, k>>) = <<r>> /\ RunOf(<<r, k>>) = r
         /\ Request(<<r, k>>) = Program[r][k] /\ Request(<<r, k>>) \in InRun
<1>1. <<r, k>> \in RunRequests /\ <<r, k>> \in Asks
  BY DEF RunRequests, Asks
<1>2. Raiser(<<r, k>>) = <<r>> /\ Last(<<r, k>>) = k
  BY FrontOfPair DEF Raiser
<1>3. RunOf(<<r, k>>) = r
  BY DEF RunOf
<1>4. Request(<<r, k>>) = Program[r][k]
  BY <1>2, RootFacts DEF Request
<1>5. Program[r][k] \in InRun
  BY ProgramAssumption
<1> QED
  BY <1>1, <1>2, <1>3, <1>4, <1>5

LEMMA SectionFacts ==
  ASSUME NEW e \in Sections
  PROVE  /\ RunOf(e) \in Runs /\ Raiser(e) = <<RunOf(e)>>
         /\ Raiser(e) \in Roots /\ e \notin Roots
         /\ e \in Asks /\ e \in Delegations
         /\ Body(e) = Request(e).body /\ Body(e) \in Seq(InSection)
<1>1. PICK r \in Runs : \E k \in DOMAIN Program[r] : e = <<r, k>>
  BY DEF Sections, RunRequests
<1>2. PICK k \in DOMAIN Program[r] : e = <<r, k>>
  BY <1>1
<1>3. /\ e \in Asks /\ Raiser(e) = <<r>> /\ RunOf(e) = r
      /\ Request(e) = Program[r][k] /\ Request(e) \in InRun
  BY <1>2, RequestFacts
<1>4. Body(e) = Request(e).body
  <2>1. Len(e) = 2 /\ e[1] = r /\ e[2] = k
    BY <1>2
  <2> QED
    BY <1>3, <2>1 DEF Body
<1>5. Request(e).body \in Seq(InSection)
  BY <1>3 DEF InRun
<1>6. e \notin Roots
  BY RootFacts DEF Roots
<1> QED
  BY <1>3, <1>4, <1>5, <1>6, RootFacts DEF Delegations

LEMMA DelegationFacts ==
  ASSUME NEW d \in Delegations
  PROVE  /\ RunOf(d) \in Runs /\ <<RunOf(d)>> \in Roots
         /\ d \in Roots \/ d \in Sections
         /\ d \in Roots => d = <<RunOf(d)>>
         /\ Body(d) \in Seq(InRun) \/ Body(d) \in Seq(InSection)
<1>1. CASE d \in Sections
  BY <1>1, SectionFacts, RootFacts
<1>2. CASE d \in Roots
  <2>1. PICK r \in Runs : d = <<r>>
    BY <1>2 DEF Roots
  <2> QED
    BY <2>1, RootFacts, ProgramAssumption
<1> QED
  BY <1>1, <1>2 DEF Delegations, Roots

LEMMA AskFacts ==
  ASSUME NEW a \in Asks
  PROVE  /\ Raiser(a) \in Delegations /\ RunOf(a) \in Runs
         /\ Raiser(a) \in Roots => a \in RunRequests
<1>1. CASE a \in RunRequests
  <2>1. PICK r \in Runs : \E k \in DOMAIN Program[r] : a = <<r, k>>
    BY <1>1 DEF RunRequests
  <2> QED
    BY <1>1, <2>1, RequestFacts, RootFacts
<1>2. CASE a \notin RunRequests
  <2>1. PICK e \in Sections : \E k \in DOMAIN Request(e).body : a = Append(e, k)
    BY <1>2 DEF Asks
  <2>2. PICK k \in DOMAIN Request(e).body : a = Append(e, k)
    BY <2>1
  <2>3. PICK r \in Runs : \E n \in DOMAIN Program[r] : e = <<r, n>>
    BY DEF Sections, RunRequests
  <2>4. PICK n \in DOMAIN Program[r] : e = <<r, n>>
    BY <2>3
  <2> DEFINE S == {r, n, k}
  <2>5. e \in Seq(S) /\ k \in S /\ e # << >>
    BY <2>4
  <2> HIDE DEF S
  <2>6. Front(a) = e /\ a[1] = e[1]
    BY <2>2, <2>5, FrontOfAppend
  <2> QED
    BY <2>6, SectionFacts DEF Raiser, RunOf
<1> QED
  BY <1>1, <1>2

LEMMA RaisesFacts ==
  ASSUME NEW d \in Delegations, NEW n \in Nat \ {0}, n <= Len(Body(d))
  PROVE  Append(d, n) \in Asks /\ Raiser(Append(d, n)) = d
<1>1. CASE d \in Roots
  <2>1. PICK r \in Runs : d = <<r>>
    BY <1>1 DEF Roots
  <2>2. n \in DOMAIN Program[r]
    BY <2>1, RootFacts, ProgramAssumption
  <2>3. Append(d, n) = <<r, n>>
    BY <2>1, AppendPair
  <2> QED
    BY <2>1, <2>2, <2>3, RequestFacts
<1>2. CASE d \in Sections
  <2>1. n \in DOMAIN Request(d).body
    BY <1>2, SectionFacts
  <2>2. Append(d, n) \in Asks
    BY <1>2, <2>1 DEF Asks
  <2>3. PICK r \in Runs : \E k \in DOMAIN Program[r] : d = <<r, k>>
    BY <1>2 DEF Sections, RunRequests
  <2>4. PICK k \in DOMAIN Program[r] : d = <<r, k>>
    BY <2>3
  <2> DEFINE S == {r, k, n}
  <2>5. d \in Seq(S) /\ n \in S /\ d # << >>
    BY <2>4
  <2> HIDE DEF S
  <2> QED
    BY <2>2, <2>5, FrontOfAppend DEF Raiser
<1> QED
  BY <1>1, <1>2, DelegationFacts
-----------------------------------------------------------------------------
(* What is queued.                                                         *)

LEMMA ItemFacts ==
  ASSUME NEW i \in Item
  PROVE  /\ i.k \in {"start", "cancel", "failRun"} => i.d \in Roots
         /\ i.k \in {"stored", "unstored", "escalate", "answer", "escalateAck"} =>
              i.ask \in Asks /\ i.d = Raiser(i.ask)
         /\ i.k \in {"answer", "escalateAck"} => i.value \in Answers \cup {"done", "stored"}
         /\ IsEvent(i) => i.d \in Delegations
<1>1. CASE i \in [k : {"start", "cancel", "failRun"}, d : Roots] \cup [k : {"kick"}, d : {<<>>}]
  BY <1>1 DEF IsEvent, Events
<1>2. CASE i \in {AskEv(k, a) : k \in {"stored", "unstored", "escalate"}, a \in Asks}
  <2>1. PICK k \in {"stored", "unstored", "escalate"}, a \in Asks : i = AskEv(k, a)
    BY <1>2
  <2>2. i.k = k /\ i.ask = a /\ i.d = Raiser(a)
    BY <2>1 DEF AskEv
  <2> QED
    BY <2>2, AskFacts
<1>3. CASE i \in {[k |-> k, d |-> Raiser(a), ask |-> a, value |-> v] :
                    k \in {"answer", "escalateAck"}, a \in Asks, v \in Answers \cup {"done", "stored"}}
  <2>1. PICK k \in {"answer", "escalateAck"}, a \in Asks, v \in Answers \cup {"done", "stored"} :
            i = [k |-> k, d |-> Raiser(a), ask |-> a, value |-> v]
    BY <1>3
  <2>2. i.k = k /\ i.ask = a /\ i.d = Raiser(a) /\ i.value = v
    BY <2>1
  <2> QED
    BY <2>2, AskFacts
<1>4. CASE i \in [k : {"delegate", "terminate", "delegateAck", "terminateAck"}, d : Delegations]
  BY <1>4
<1> QED
  BY <1>1, <1>2, <1>3, <1>4 DEF Item

LEMMA ItemsMade ==
  /\ \A r \in Runs : \A k \in {"start", "cancel", "failRun"} : Ev(k, <<r>>) \in Item
  /\ Ev("kick", <<>>) \in Item
  /\ \A d \in Delegations :
       \A k \in {"delegate", "terminate", "delegateAck", "terminateAck"} : Ev(k, d) \in Item
  /\ \A a \in Asks : \A k \in {"stored", "unstored", "escalate"} : AskEv(k, a) \in Item
  /\ \A a \in Asks : \A v \in Answers \cup {"done", "stored"} :
       /\ Ack(a, v) \in Item
       /\ [k |-> "answer", d |-> Raiser(a), ask |-> a, value |-> v] \in Item
<1>1. \A r \in Runs : \A k \in {"start", "cancel", "failRun"} : Ev(k, <<r>>) \in Item
  BY RootFacts DEF Ev, Item
<1>2. Ev("kick", <<>>) \in Item
  BY DEF Ev, Item
<1>3. \A d \in Delegations :
        \A k \in {"delegate", "terminate", "delegateAck", "terminateAck"} : Ev(k, d) \in Item
  BY DEF Ev, Item
<1>4. \A a \in Asks : \A k \in {"stored", "unstored", "escalate"} : AskEv(k, a) \in Item
  BY DEF Item
<1>5. ASSUME NEW a \in Asks, NEW v \in Answers \cup {"done", "stored"},
             NEW k \in {"answer", "escalateAck"}
      PROVE  [k |-> k, d |-> Raiser(a), ask |-> a, value |-> v] \in Item
  <2> DEFINE S == {[k |-> l, d |-> Raiser(b), ask |-> b, value |-> w] :
                     l \in {"answer", "escalateAck"}, b \in Asks, w \in Answers \cup {"done", "stored"}}
  <2>1. [k |-> k, d |-> Raiser(a), ask |-> a, value |-> v] \in S
    OBVIOUS
  <2>2. S \subseteq Item
    BY DEF Item
  <2> QED
    BY <2>1, <2>2
<1> QED
  BY <1>1, <1>2, <1>3, <1>4, <1>5 DEF Ack

\* An item that neither starts a run nor stops its root.
Tame(i) ==
  i.k # "start" /\ (i.k \in {"terminate", "terminateAck"} => i.d \notin Roots)

-----------------------------------------------------------------------------
(* The parts of a turn.                                                    *)

\* The row of a section says that it was spawned and is routed.
SecRows(A) == A.rows \cap Sections \subseteq A.tasks \cap Spawned(A)

\* From A to B no run changes, no root is summoned and what is sent is tame.
Keeps(A, B) ==
  /\ B \in Reactor /\ SecRows(B)
  /\ B.run = A.run /\ B.rows \cap Roots \subseteq A.rows
  /\ \A i \in ToSet(B.out) : i \in ToSet(A.out) \/ Tame(i)

LEMMA KeepsTrans ==
  ASSUME NEW A, NEW B, NEW C, Keeps(A, B), Keeps(B, C)
  PROVE  Keeps(A, C)
BY DEF Keeps

LEMMA SendTame ==
  ASSUME NEW A \in Reactor, SecRows(A), NEW e \in Item, Tame(e)
  PROVE  Keeps(A, Send(A, e))
<1> DEFINE B == Send(A, e)
<1>1. A.out \in Seq(Item)
  BY DEF Reactor
<1>2. Append(A.out, e) \in Seq(Item) /\ ToSet(Append(A.out, e)) = ToSet(A.out) \cup {e}
  BY <1>1, ToSetAppend
<1>3. /\ B.out = Append(A.out, e) /\ B.run = A.run /\ B.rows = A.rows /\ B.queue = A.queue
      /\ B.tasks = A.tasks
  BY DEF Send, Reactor
<1>4. B \in Reactor
  BY <1>2 DEF Send, Reactor
<1>5. SecRows(B)
  BY <1>3 DEF SecRows, Spawned
<1> QED
  BY <1>2, <1>3, <1>4, <1>5 DEF Keeps

LEMMA SpawnTaskKeeps ==
  ASSUME NEW A \in Reactor, SecRows(A), NEW ask \in Sections, ask \in Queued(A)
  PROVE  Keeps(A, SpawnTask(A, ask))
<1> DEFINE Q == {IF t.ask = ask THEN [t EXCEPT !.spawned = TRUE] ELSE t : t \in A.queue}
           B == [A EXCEPT !.queue = Q, !.tasks = @ \cup {ask}, !.rows = @ \cup {ask}]
<1>1. Q \in SUBSET [ask : Sections, spawned : BOOLEAN, seq : Nat]
  BY DEF Reactor
<1>2. B \in Reactor
  <2> HIDE DEF Q
  <2>1. ask \in Delegations
    BY SectionFacts
  <2> QED
    BY <1>1, <2>1 DEF Reactor
<1>3. /\ B.queue = Q /\ B.tasks = A.tasks \cup {ask} /\ B.rows = A.rows \cup {ask}
      /\ B.run = A.run /\ B.out = A.out
  BY DEF Reactor
<1>4. A.queue \in SUBSET [ask : Sections, spawned : BOOLEAN, seq : Nat]
  BY DEF Reactor
<1>5. Spawned(A) \cup {ask} \subseteq Spawned(B)
  <2>1. ASSUME NEW t \in A.queue, t.spawned \/ t.ask = ask
        PROVE  t.ask \in Spawned(B)
    <3>1. CASE t.ask = ask
      <4>1. [t EXCEPT !.spawned = TRUE] \in Q
        BY <3>1
      <4>2. [t EXCEPT !.spawned = TRUE].spawned /\ [t EXCEPT !.spawned = TRUE].ask = t.ask
        BY <1>4
      <4> QED
        BY <4>1, <4>2, <1>3 DEF Spawned
    <3>2. CASE t.ask # ask
      BY <2>1, <3>2, <1>3 DEF Spawned
    <3> QED
      BY <3>1, <3>2
  <2> QED
    BY <2>1 DEF Spawned, Queued
<1>6. SecRows(B)
  BY <1>3, <1>5 DEF SecRows
<1>7. Keeps(A, B)
  BY <1>2, <1>3, <1>6, SectionFacts DEF Keeps
<1>8. Ev("delegate", ask) \in Item /\ Tame(Ev("delegate", ask))
  BY ItemsMade, SectionFacts DEF Ev, Tame
<1>9. Keeps(B, Send(B, Ev("delegate", ask)))
  BY <1>2, <1>6, <1>8, SendTame
<1> QED
  BY <1>7, <1>9, KeepsTrans DEF SpawnTask
LEMMA KeepsSelf == ASSUME NEW A \in Reactor, SecRows(A) PROVE Keeps(A, A)
BY DEF Keeps

LEMMA SpawnHeadKeeps ==
  ASSUME NEW A \in Reactor, SecRows(A)
  PROVE  Keeps(A, SpawnHeadIfIdle(A))
<1>1. CASE A.tasks \cup A.fence # {} \/ Heads(A) = {}
  BY <1>1, KeepsSelf DEF SpawnHeadIfIdle
<1>2. CASE ~(A.tasks \cup A.fence # {} \/ Heads(A) = {})
  <2> DEFINE t == CHOOSE x \in Heads(A) : TRUE
  <2>1. t \in Heads(A)
    BY <1>2
  <2> HIDE DEF t
  <2>2. t \in A.queue /\ t.ask \in Queued(A) /\ t.ask \in Sections
    BY <2>1 DEF Heads, Queued, Reactor
  <2>3. Keeps(A, SpawnTask(A, t.ask))
    BY <2>2, SpawnTaskKeeps
  <2> QED
    BY <1>2, <2>3 DEF SpawnHeadIfIdle, t
<1> QED
  BY <1>1, <1>2

LEMMA CleanupKeeps ==
  ASSUME NEW A \in Reactor, SecRows(A), NEW r
  PROVE  Keeps(A, Cleanup(A, r))
<1> DEFINE its == {t \in A.queue : RunOf(t.ask) = r}
           gone == {t.ask : t \in {x \in its : x.spawned}}
           terminate == IF gone = {} THEN <<>> ELSE <<Ev("terminate", CHOOSE d \in gone : TRUE)>>
           B == [A EXCEPT !.queue = @ \ its, !.tasks = @ \ gone, !.rows = @ \ gone,
                          !.fence = @ \cup gone, !.out = @ \o terminate]
<1>1. A.queue \in SUBSET [ask : Sections, spawned : BOOLEAN, seq : Nat] /\ A.out \in Seq(Item)
  BY DEF Reactor
<1>2. gone \subseteq Sections
  BY <1>1
<1>3. terminate \in Seq(Item) /\ \A i \in ToSet(terminate) : Tame(i)
  <2>1. CASE gone = {}
    BY <2>1, ToSetEmpty
  <2>2. CASE gone # {}
    <3> DEFINE d == CHOOSE x \in gone : TRUE
    <3>1. d \in Sections
      BY <1>2, <2>2
    <3> HIDE DEF d
    <3>2. Ev("terminate", d) \in Item /\ Tame(Ev("terminate", d))
      BY <3>1, ItemsMade, SectionFacts DEF Ev, Tame
    <3>3. terminate = <<Ev("terminate", d)>>
      BY <2>2 DEF d
    <3>4. ToSet(<<Ev("terminate", d)>>) = {Ev("terminate", d)}
      BY DEF ToSet
    <3> HIDE DEF terminate, gone
    <3> QED
      BY <3>2, <3>3, <3>4
  <2> QED
    BY <2>1, <2>2
<1>4. /\ A.out \o terminate \in Seq(Item)
      /\ ToSet(A.out \o terminate) = ToSet(A.out) \cup ToSet(terminate)
  <2> HIDE DEF terminate
  <2> QED
    BY <1>1, <1>3, ToSetConcat
<1>5. /\ B.queue = A.queue \ its /\ B.tasks = A.tasks \ gone /\ B.rows = A.rows \ gone
      /\ B.run = A.run /\ B.out = A.out \o terminate
  <2> HIDE DEF its, gone, terminate
  <2> QED
    BY DEF Reactor
<1>6. B \in Reactor
  <2> HIDE DEF its, gone, terminate
  <2> QED
    BY <1>2, <1>4 DEF Reactor
<1>7. SecRows(B)
  <2>1. ASSUME NEW s \in B.rows \cap Sections
        PROVE  s \in B.tasks /\ s \in Spawned(B)
    <3>1. s \in A.tasks /\ s \in Spawned(A) /\ s \notin gone
      BY <1>5 DEF SecRows
    <3>2. PICK t \in A.queue : t.spawned /\ t.ask = s
      BY <3>1 DEF Spawned
    <3>3. t \in B.queue
      BY <1>5, <3>1, <3>2
    <3> HIDE DEF gone, its, B
    <3>4. s \in Spawned(B)
      BY <3>2, <3>3 DEF Spawned
    <3> QED
      BY <1>5, <3>1, <3>4
  <2> HIDE DEF B
  <2> QED
    BY <2>1 DEF SecRows
<1>8. Keeps(A, B)
  <2> HIDE DEF B, terminate, gone, its
  <2> QED
    BY <1>3, <1>4, <1>5, <1>6, <1>7 DEF Keeps
<1>9. Keeps(B, SpawnHeadIfIdle(B))
  <2> HIDE DEF B
  <2> QED
    BY <1>6, <1>7, SpawnHeadKeeps
<1>10. Cleanup(A, r) = IF its = {} THEN A ELSE SpawnHeadIfIdle(B)
  BY DEF Cleanup
<1>11. Keeps(A, SpawnHeadIfIdle(B))
  <2> HIDE DEF B
  <2> QED
    BY <1>8, <1>9, KeepsTrans
<1> HIDE DEF B, its
<1> QED
  BY <1>10, <1>11, KeepsSelf

LEMMA CompleteTaskKeeps ==
  ASSUME NEW A \in Reactor, SecRows(A), NEW ask \in Sections, ask \notin A.rows
  PROVE  Keeps(A, CompleteTask(A, ask))
<1> DEFINE B == [A EXCEPT !.tasks = @ \ {ask}]
           C == [B EXCEPT !.queue = {t \in @ : t.ask # ask}]
           D == Send(C, Ack(ask, "done"))
<1>1. B \in Reactor /\ B.tasks = A.tasks \ {ask} /\ B.rows = A.rows /\ B.queue = A.queue
      /\ B.run = A.run /\ B.out = A.out
  BY DEF Reactor
<1>2. SecRows(B)
  BY <1>1 DEF SecRows, Spawned
<1>3. Keeps(A, B)
  BY <1>1, <1>2 DEF Keeps
<1> HIDE DEF B
<1>4. C \in Reactor /\ C.tasks = B.tasks /\ C.rows = B.rows /\ C.run = B.run /\ C.out = B.out
      /\ C.queue = {t \in B.queue : t.ask # ask}
  BY <1>1 DEF Reactor
<1>5. SecRows(C)
  <2> HIDE DEF C
  <2>1. ASSUME NEW s \in C.rows \cap Sections
        PROVE  s \in C.tasks /\ s \in Spawned(C)
    <3>1. s \in B.tasks /\ s \in Spawned(B) /\ s # ask
      BY <1>1, <1>2, <1>4 DEF SecRows
    <3>2. PICK t \in B.queue : t.spawned /\ t.ask = s
      BY <3>1 DEF Spawned
    <3>3. t \in C.queue
      BY <1>4, <3>1, <3>2
    <3> QED
      BY <1>4, <3>1, <3>2, <3>3 DEF Spawned
  <2> QED
    BY <2>1 DEF SecRows
<1>6. Keeps(B, C)
  <2> HIDE DEF C
  <2> QED
    BY <1>4, <1>5 DEF Keeps
<1>7. Ack(ask, "done") \in Item /\ Tame(Ack(ask, "done"))
  BY ItemsMade, SectionFacts DEF Ack, Tame
<1>8. Keeps(C, D)
  <2> HIDE DEF C
  <2> QED
    BY <1>4, <1>5, <1>7, SendTame
<1>9. Keeps(A, D)
  <2> HIDE DEF C, D
  <2> QED
    BY <1>3, <1>6, <1>8, KeepsTrans
<1>10. CompleteTask(A, ask) = SpawnHeadIfIdle(IF ask \in Queued(A) THEN D ELSE B)
  BY DEF CompleteTask, B
<1>11. ASSUME NEW E, Keeps(A, E)
       PROVE  Keeps(A, SpawnHeadIfIdle(E))
  <2>1. Keeps(E, SpawnHeadIfIdle(E))
    BY <1>11, SpawnHeadKeeps DEF Keeps
  <2> QED
    BY <1>11, <2>1, KeepsTrans
<1> HIDE DEF D
<1> QED
  BY <1>3, <1>9, <1>10, <1>11

LEMMA EnqueueKeeps ==
  ASSUME NEW A \in Reactor, SecRows(A), NEW ask \in Sections
  PROVE  Keeps(A, Enqueue(A, ask))
<1> DEFINE item == [ask |-> ask, spawned |-> FALSE, seq |-> A.seq]
           B == [A EXCEPT !.queue = @ \cup {item}, !.seq = @ + 1]
<1>1. B \in Reactor /\ B.tasks = A.tasks /\ B.rows = A.rows /\ B.run = A.run /\ B.out = A.out
      /\ A.queue \subseteq B.queue
  <2>1. A.seq \in Nat /\ A.seq + 1 \in Nat
    BY DEF Reactor
  <2>2. item \in [ask : Sections, spawned : BOOLEAN, seq : Nat]
    BY <2>1
  <2> HIDE DEF item
  <2> QED
    BY <2>1, <2>2 DEF Reactor
<1> HIDE DEF B
<1>2. SecRows(B)
  BY <1>1 DEF SecRows, Spawned
<1>3. Keeps(A, B)
  BY <1>1, <1>2 DEF Keeps
<1>4. Keeps(A, SpawnHeadIfIdle(B))
  BY <1>1, <1>2, <1>3, SpawnHeadKeeps, KeepsTrans
<1>5. Enqueue(A, ask) = IF ask \in Queued(A) THEN A ELSE SpawnHeadIfIdle(B)
  BY DEF Enqueue, B
<1> QED
  BY <1>4, <1>5, KeepsSelf
-----------------------------------------------------------------------------
(* The inductive invariant.                                                *)

Alive == {"running", "cancelling"}
Stopped == {"cancelling"} \cup Terminal

\* What may become of a run in one turn.
Moves(from, to) ==
  \/ from = to
  \/ from = "none" /\ to = "running"
  \/ from \in Alive /\ to \in {"cancelling", "done", "error"}
  \/ from = "cancelling" /\ to = "cancelled"

\* A live root is of a run without an outcome.
RootsLive(A) == \A r \in Runs : <<r>> \in A.rows => A.run[r] \in Alive

\* A root is stopped only after its run was marked.
Stops(i, r) == i.k \in {"terminate", "terminateAck"} /\ i.d = <<r>>
Stopping(r) == core[<<r>>].state = "stopping" \/ \E i \in InFlight : Stops(i, r)
StopsMeant == \A r \in Runs : Stopping(r) => api.run[r] \in Stopped

\* A run is started once: by the one command of whoever awaits it.
StartsOnce ==
  /\ \A r \in Runs : api.run[r] # "none" => promise[r] # "none"
  /\ \A n \in DOMAIN bus : bus[n].k = "start" =>
       \A r \in Runs : bus[n].d = <<r>> => promise[r] # "none" /\ api.run[r] = "none"
  /\ \A m, n \in DOMAIN bus :
       bus[m].k = "start" /\ bus[n].k = "start" /\ bus[m].d = bus[n].d => m = n

IInv == TypeOK /\ SecRows(api) /\ RootsLive(api) /\ StopsMeant /\ StartsOnce

LEMMA InitIInv == Init => IInv
<1> SUFFICES ASSUME Init PROVE IInv
  OBVIOUS
<1>1. TypeOK
  <2>1. << >> \in Seq(Item) /\ DOMAIN << >> = {}
    OBVIOUS
  <2>2. api \in Reactor /\ api.out = << >>
    BY DEF Init, Reactor, States
  <2> QED
    BY <2>1, <2>2 DEF Init, TypeOK, Dead
<1>2. SecRows(api) /\ RootsLive(api)
  BY DEF Init, SecRows, RootsLive
<1>3. StopsMeant
  <2>1. InFlight = {}
    BY ToSetEmpty DEF Init, InFlight
  <2>2. \A r \in Runs : core[<<r>>].state # "stopping"
    BY RootFacts DEF Init
  <2> QED
    BY <2>1, <2>2 DEF StopsMeant, Stopping
<1>4. StartsOnce
  BY DEF Init, StartsOnce
<1> QED
  BY <1>1, <1>2, <1>3, <1>4 DEF IInv

\* The commands that start a run stay at most one for each, `off` places
\* nearer to their turn.
LEMMA StartsKept ==
  ASSUME StartsOnce, bus' \in Seq(Item), NEW off \in {0, 1},
         \A n \in DOMAIN bus' : bus'[n].k = "start" => n + off \in DOMAIN bus /\ bus'[n] = bus[n + off],
         \A r \in Runs : promise[r] # "none" => promise'[r] # "none",
         \A r \in Runs : api.run[r] = "none" /\ api'.run[r] # "none" =>
            off = 1 /\ bus # << >> /\ bus[1].k = "start" /\ bus[1].d = <<r>>,
         bus \in Seq(Item)
  PROVE  StartsOnce'
<1>1. ASSUME NEW r \in Runs, api'.run[r] # "none"
      PROVE  promise'[r] # "none"
  <2>1. CASE api.run[r] # "none"
    BY <2>1 DEF StartsOnce
  <2>2. CASE api.run[r] = "none"
    <3>1. bus[1].k = "start" /\ bus[1].d = <<r>> /\ 1 \in DOMAIN bus
      BY <1>1, <2>2
    <3> QED
      BY <3>1 DEF StartsOnce
  <2> QED
    BY <2>1, <2>2
<1>2. ASSUME NEW n \in DOMAIN bus', bus'[n].k = "start", NEW r \in Runs, bus'[n].d = <<r>>
      PROVE  promise'[r] # "none" /\ api'.run[r] = "none"
  <2>1. n + off \in DOMAIN bus /\ bus[n + off].k = "start" /\ bus[n + off].d = <<r>>
    BY <1>2
  <2>2. promise[r] # "none" /\ api.run[r] = "none"
    BY <2>1 DEF StartsOnce
  <2>3. ASSUME api'.run[r] # "none" PROVE FALSE
    <3>1. off = 1 /\ 1 \in DOMAIN bus /\ bus[1].k = "start" /\ bus[1].d = <<r>>
      BY <2>2, <2>3
    <3>2. n + off = 1
      BY <2>1, <3>1 DEF StartsOnce
    <3> QED
      BY <3>1, <3>2
  <2> QED
    BY <2>2, <2>3
<1>3. ASSUME NEW m \in DOMAIN bus', NEW n \in DOMAIN bus',
             bus'[m].k = "start", bus'[n].k = "start", bus'[m].d = bus'[n].d
      PROVE  m = n
  <2>1. m + off \in DOMAIN bus /\ n + off \in DOMAIN bus
    BY <1>3
  <2>2. m + off = n + off
    BY <1>3, <2>1 DEF StartsOnce
  <2> QED
    BY <2>2
<1> QED
  BY <1>1, <1>2, <1>3 DEF StartsOnce

LEMMA StopsKept ==
  ASSUME StopsMeant,
         \A r \in Runs : Moves(api.run[r], api'.run[r]),
         \A r \in Runs : Stopping(r)' => Stopping(r) \/ api'.run[r] \in Stopped
  PROVE  StopsMeant'
<1> SUFFICES ASSUME NEW r \in Runs, Stopping(r)' PROVE api'.run[r] \in Stopped
  BY DEF StopsMeant
<1>1. CASE Stopping(r)
  <2>1. api.run[r] \in Stopped
    BY <1>1 DEF StopsMeant
  <2> QED
    BY <2>1 DEF Moves, Stopped, Alive, Terminal
<1> QED
  BY <1>1
-----------------------------------------------------------------------------
(* A turn of the api reactor takes the reactor from api to B.              *)

Turned(B) ==
  /\ B \in Reactor /\ SecRows(B) /\ RootsLive(B)
  /\ \A r \in Runs : Moves(api.run[r], B.run[r])
  /\ \A r \in Runs : api.run[r] = "none" /\ B.run[r] # "none" =>
        bus[1].k = "start" /\ bus[1].d = <<r>>
  /\ \A i \in ToSet(B.out) :
       i.k # "start" /\ \A r \in Runs : Stops(i, r) => B.run[r] \in Stopped
  /\ B.run = api.run \/ \E r \in Runs : B.run = [api.run EXCEPT ![r] = B.run[r]]

LEMMA TurnedSelf == IInv => Turned(api)
<1> SUFFICES ASSUME IInv PROVE Turned(api)
  OBVIOUS
<1>1. ToSet(api.out) = {}
  BY ToSetEmpty DEF IInv, TypeOK
<1> QED
  BY <1>1 DEF Turned, IInv, TypeOK, Moves

LEMMA TurnedKeeps ==
  ASSUME NEW A, NEW B, Turned(A), Keeps(A, B)
  PROVE  Turned(B)
<1>1. RootsLive(B)
  BY RootFacts DEF Turned, Keeps, RootsLive
<1>2. ASSUME NEW i \in ToSet(B.out)
      PROVE  i.k # "start" /\ \A r \in Runs : Stops(i, r) => B.run[r] \in Stopped
  <2>1. CASE i \in ToSet(A.out)
    BY <2>1 DEF Turned, Keeps
  <2>2. CASE Tame(i)
    BY <2>2, RootFacts DEF Tame, Stops
  <2> QED
    BY <2>1, <2>2 DEF Keeps
<1> QED
  BY <1>1, <1>2 DEF Turned, Keeps

LEMMA TurnKeeps ==
  ASSUME IInv, loaded, bus # << >>, NEW B, Turned(B), Commit(B),
         promise' \in [Runs -> {"none", "pending", "dropped"} \cup Terminal],
         \A r \in Runs : promise[r] # "none" => promise'[r] # "none",
         io' \in [Asks -> Nat]
  PROVE  IInv' /\ [Outcomes!Next]_(api.run)
<1> DEFINE A == [B EXCEPT !.out = <<>>]
<1>1. /\ A \in Reactor /\ A.out = <<>> /\ A.run = B.run /\ A.rows = B.rows /\ A.tasks = B.tasks
      /\ A.queue = B.queue
  <2>1. << >> \in Seq(Item)
    OBVIOUS
  <2>2. B \in Reactor
    BY DEF Turned
  <2> QED
    BY <2>1, <2>2 DEF Reactor
<1>2. api' = A
  BY DEF Commit
<1> HIDE DEF A
<1>3. /\ bus \in Seq(Item) /\ B.out \in Seq(Item) /\ bus' = Tail(bus) \o B.out
  BY DEF IInv, TypeOK, Turned, Reactor, Commit
<1>4. /\ Tail(bus) \in Seq(Item) /\ Len(Tail(bus)) = Len(bus) - 1
      /\ \A n \in 1..Len(Tail(bus)) : Tail(bus)[n] = bus[n + 1] /\ n + 1 \in DOMAIN bus
      /\ ToSet(Tail(bus)) \subseteq ToSet(bus)
  BY <1>3, ToSetHeadTail
<1>5. /\ bus' \in Seq(Item) /\ ToSet(bus') = ToSet(Tail(bus)) \cup ToSet(B.out)
      /\ Len(bus') = Len(Tail(bus)) + Len(B.out)
      /\ \A n \in 1..(Len(Tail(bus)) + Len(B.out)) :
           bus'[n] = IF n <= Len(Tail(bus)) THEN Tail(bus)[n] ELSE B.out[n - Len(Tail(bus))]
  <2> DEFINE s == Tail(bus)  u == B.out
  <2>1. s \in Seq(Item) /\ u \in Seq(Item) /\ bus' = s \o u
    BY <1>3, <1>4
  <2> HIDE DEF s, u
  <2>2. s \o u \in Seq(Item) /\ ToSet(s \o u) = ToSet(s) \cup ToSet(u)
    BY <2>1, ToSetConcat
  <2>3. /\ Len(s \o u) = Len(s) + Len(u)
        /\ \A n \in 1..(Len(s) + Len(u)) :
             (s \o u)[n] = IF n <= Len(s) THEN s[n] ELSE u[n - Len(s)]
    BY <2>1, ConcatProperties
  <2> QED
    BY <2>1, <2>2, <2>3 DEF s, u
<1>6. TypeOK'
  BY <1>1, <1>2, <1>5 DEF IInv, TypeOK, Commit
<1>7. SecRows(api)' /\ RootsLive(api)'
  BY <1>1, <1>2 DEF Turned, SecRows, Spawned, RootsLive
<1>8. StopsMeant'
  <2>1. \A r \in Runs : Moves(api.run[r], api'.run[r])
    BY <1>1, <1>2 DEF Turned
  <2>2. ASSUME NEW r \in Runs, Stopping(r)'
        PROVE  Stopping(r) \/ api'.run[r] \in Stopped
    <3>1. core' = core /\ outbox' = outbox
      BY DEF Commit
    <3>2. CASE core'[<<r>>].state = "stopping"
      BY <3>1, <3>2 DEF Stopping
    <3>3. CASE \E i \in InFlight' : Stops(i, r)
      <4>1. PICK i \in InFlight' : Stops(i, r)
        BY <3>3
      <4>2. i \in InFlight \/ i \in ToSet(B.out)
        BY <3>1, <1>4, <1>5, <4>1 DEF InFlight
      <4>3. CASE i \in ToSet(B.out)
        BY <1>1, <1>2, <4>1, <4>3 DEF Turned
      <4> QED
        BY <4>1, <4>2, <4>3 DEF Stopping
    <3> QED
      BY <2>2, <3>2, <3>3 DEF Stopping, Stops
  <2> QED
    BY <2>1, <2>2, StopsKept DEF IInv
<1>9. StartsOnce'
  <2>1. ASSUME NEW n \in DOMAIN bus', bus'[n].k = "start"
        PROVE  n + 1 \in DOMAIN bus /\ bus'[n] = bus[n + 1]
    <3>1. n \in 1..(Len(Tail(bus)) + Len(B.out)) /\ Len(Tail(bus)) \in Nat
      BY <1>3, <1>4, <1>5
    <3>2. CASE n <= Len(Tail(bus))
      BY SMTT(30), <1>4, <1>5, <3>1, <3>2
    <3>3. CASE ~(n <= Len(Tail(bus)))
      <4> DEFINE k == n - Len(Tail(bus))
      <4>1. k \in DOMAIN B.out /\ bus'[n] = B.out[k]
        BY <1>3, <1>5, <3>1, <3>3
      <4>2. B.out[k] \in ToSet(B.out)
        BY <4>1 DEF ToSet
      <4> QED
        BY <2>1, <4>1, <4>2 DEF Turned
    <3> QED
      BY <3>2, <3>3
  <2>2. \A r \in Runs : api.run[r] = "none" /\ api'.run[r] # "none" =>
            bus[1].k = "start" /\ bus[1].d = <<r>>
    BY <1>1, <1>2 DEF Turned
  <2> QED
    BY <1>3, <1>5, <2>1, <2>2, StartsKept DEF IInv
<1>10. [Outcomes!Next]_(api.run)
  <2>1. CASE B.run = api.run
    BY <1>1, <1>2, <2>1
  <2>2. CASE \E r \in Runs : B.run = [api.run EXCEPT ![r] = B.run[r]]
    <3>1. PICK r \in Runs : B.run = [api.run EXCEPT ![r] = B.run[r]]
      BY <2>2
    <3>2. Moves(api.run[r], B.run[r]) /\ api.run \in [Runs -> States]
      BY DEF Turned, IInv, TypeOK, Reactor
    <3>3. api'.run = [api.run EXCEPT ![r] = B.run[r]]
      BY <1>1, <1>2, <3>1
    <3>4. CASE api.run[r] = B.run[r]
      BY <3>2, <3>3, <3>4
    <3>5. CASE api.run[r] # B.run[r]
      BY <3>2, <3>3, <3>5
         DEF Moves, Alive, Outcomes!Next, Outcomes!Start, Outcomes!RequestCancel, Outcomes!Finish,
             Outcomes!FailIt, Outcomes!Cancelled, Outcomes!Move, Outcomes!Alive
    <3> QED
      BY <3>4, <3>5
  <2> QED
    BY <2>1, <2>2 DEF Turned
<1> QED
  BY <1>6, <1>7, <1>8, <1>9, <1>10 DEF IInv
LEMMA RetireKeeps ==
  ASSUME NEW A \in Reactor, SecRows(A), NEW d
  PROVE  Keeps(A, Retire(A, d)) /\ Retire(A, d).rows = A.rows \ {d}
<1> DEFINE B == Retire(A, d)
<1>1. /\ B \in Reactor /\ B.rows = A.rows \ {d} /\ B.tasks = A.tasks /\ B.queue = A.queue
      /\ B.run = A.run /\ B.out = A.out
  BY DEF Retire, Reactor
<1> HIDE DEF B
<1> QED
  BY <1>1 DEF Keeps, SecRows, Spawned, B

LEMMA ClosedKeeps ==
  ASSUME NEW A \in Reactor, SecRows(A), NEW r
  PROVE  Keeps(A, Closed(A, r))
<1> DEFINE B == Closed(A, r)
<1>1. /\ B \in Reactor /\ B.rows = A.rows /\ B.tasks = A.tasks /\ B.queue = A.queue
      /\ B.run = A.run /\ B.out = A.out
  BY DEF Closed, Reactor
<1> HIDE DEF B
<1> QED
  BY <1>1 DEF Keeps, SecRows, Spawned, B

\* The outcome of a run whose root is no longer live, or that is only marked.
LEMMA OutcomeTurned ==
  ASSUME NEW A, Turned(A), A.run = api.run, NEW r \in Runs, NEW to \in Stopped,
         Moves(api.run[r], to), api.run[r] # "none",
         <<r>> \in A.rows => to = "cancelling",
         api.run \in [Runs -> States]
  PROVE  Turned(Outcome(A, r, to))
<1> DEFINE B == Outcome(A, r, to)
<1>1. A \in Reactor
  BY DEF Turned
<1>2. /\ B \in Reactor /\ B.rows = A.rows /\ B.tasks = A.tasks /\ B.queue = A.queue
      /\ B.run = [api.run EXCEPT ![r] = to] /\ B.out = A.out
  BY <1>1 DEF Outcome, Reactor, Stopped, States
<1> HIDE DEF B
<1>3. \A q \in Runs : B.run[q] = IF q = r THEN to ELSE api.run[q]
  BY <1>2
<1>4. SecRows(B)
  BY <1>2 DEF Turned, SecRows, Spawned
<1>5. RootsLive(B)
  <2> SUFFICES ASSUME NEW q \in Runs, <<q>> \in B.rows PROVE B.run[q] \in Alive
    BY DEF RootsLive
  <2>1. CASE q = r
    BY <1>2, <1>3, <2>1 DEF Alive
  <2>2. CASE q # r
    BY <1>2, <1>3, <2>2 DEF Turned, RootsLive
  <2> QED
    BY <2>1, <2>2
<1>6. \A q \in Runs : Moves(api.run[q], B.run[q])
  BY <1>3 DEF Moves
<1>7. \A q \in Runs : api.run[q] = "none" => B.run[q] = "none"
  BY <1>3
<1>8. ASSUME NEW i \in ToSet(B.out)
      PROVE  i.k # "start" /\ \A q \in Runs : Stops(i, q) => B.run[q] \in Stopped
  BY <1>2, <1>3 DEF Turned
<1>9. B.run = [api.run EXCEPT ![r] = B.run[r]]
  BY <1>2, <1>3
<1> QED
  BY <1>2, <1>4, <1>5, <1>6, <1>7, <1>8, <1>9 DEF Turned, B

\* A root is told to stop once its run is marked.
LEMMA StopTurned ==
  ASSUME NEW A, Turned(A), NEW r \in Runs, A.run[r] \in Stopped
  PROVE  Turned(Send(A, Ev("terminate", <<r>>)))
<1> DEFINE e == Ev("terminate", <<r>>)
           B == Send(A, e)
<1>1. A \in Reactor /\ A.out \in Seq(Item)
  BY DEF Turned, Reactor
<1>2. e \in Item /\ e.k = "terminate" /\ e.d = <<r>>
  BY ItemsMade, RootFacts DEF Ev
<1> HIDE DEF e
<1>3. Append(A.out, e) \in Seq(Item) /\ ToSet(Append(A.out, e)) = ToSet(A.out) \cup {e}
  BY <1>1, <1>2, ToSetAppend
<1>4. /\ B \in Reactor /\ B.rows = A.rows /\ B.tasks = A.tasks /\ B.queue = A.queue
      /\ B.run = A.run /\ B.out = Append(A.out, e)
  BY <1>1, <1>3 DEF Send, Reactor
<1> HIDE DEF B
<1>5. SecRows(B) /\ RootsLive(B)
  BY <1>4 DEF Turned, SecRows, Spawned, RootsLive
<1>6. \A q \in Runs : <<q>> = <<r>> => q = r
  BY RootFacts
<1>7. \A i \in ToSet(B.out) : i.k # "start" /\ \A q \in Runs : Stops(i, q) => B.run[q] \in Stopped
  BY <1>2, <1>3, <1>4, <1>6 DEF Turned, Stops
<1> QED
  BY <1>4, <1>5, <1>7 DEF Turned, B, e

LEMMA FailTurned ==
  ASSUME IInv, NEW r \in Runs
  PROVE  Turned(Fail(api, <<r>>))
<1>1. Turned(api) /\ api \in Reactor /\ SecRows(api) /\ api.run \in [Runs -> States]
  BY TurnedSelf DEF Turned, Reactor
<1>2. CASE ~Live(api, <<r>>)
  BY <1>1, <1>2 DEF Fail
<1>3. CASE Live(api, <<r>>)
  <2> DEFINE A == Retire(api, <<r>>)  B == Outcome(A, r, "error")
  <2>1. Keeps(api, A) /\ <<r>> \notin A.rows
    BY <1>1, RetireKeeps
  <2> HIDE DEF A
  <2>2. Turned(A) /\ A.run = api.run
    BY <1>1, <2>1, TurnedKeeps DEF Keeps
  <2>3. api.run[r] \in Alive
    BY <1>3 DEF IInv, RootsLive, Live
  <2>4. "error" \in Stopped /\ Moves(api.run[r], "error") /\ api.run[r] # "none"
    BY <2>3 DEF Stopped, Terminal, Moves, Alive
  <2>5. Turned(B)
    BY <1>1, <2>1, <2>2, <2>4, OutcomeTurned
  <2>6. B.run[r] = "error"
    BY <1>1, <2>2 DEF Outcome, Turned, Reactor
  <2> HIDE DEF B
  <2>7. Turned(Send(B, Ev("terminate", <<r>>)))
    BY <2>4, <2>5, <2>6, StopTurned
  <2> QED
    BY <1>3, <2>7, RootFacts DEF Fail, A, B
<1> QED
  BY <1>2, <1>3

LEMMA CleanupTurned ==
  ASSUME NEW A, Turned(A), NEW r
  PROVE  /\ Turned(Cleanup(A, r)) /\ Cleanup(A, r).run = A.run
         /\ Cleanup(A, r).rows \cap Roots \subseteq A.rows
<1>1. Keeps(A, Cleanup(A, r))
  BY CleanupKeeps DEF Turned
<1> QED
  BY <1>1, TurnedKeeps DEF Keeps

LEMMA ClosedTurned ==
  ASSUME NEW A, Turned(A), NEW r
  PROVE  Turned(Closed(A, r))
BY ClosedKeeps, TurnedKeeps DEF Turned

LEMMA FailTaskTurned ==
  ASSUME IInv, NEW ask \in Sections
  PROVE  Turned(FailTask(api, ask))
BY SectionFacts, FailTurned, CleanupTurned DEF FailTask

LEMMA FailDelegationTurned ==
  ASSUME IInv, NEW d \in Delegations
  PROVE  Turned(FailDelegation(api, d))
<1>1. CASE d \in api.tasks
  <2>1. d \in Sections
    BY <1>1 DEF IInv, TypeOK, Reactor
  <2> QED
    BY <1>1, <2>1, FailTaskTurned, TurnedSelf DEF FailDelegation
<1>2. CASE d \notin api.tasks /\ Live(api, d)
  <2>1. d = <<RunOf(d)>> /\ RunOf(d) \in Runs
    BY <1>2, DelegationFacts DEF IInv, SecRows, Live
  <2> QED
    BY <1>2, <2>1, FailTurned, CleanupTurned DEF FailDelegation
<1>3. CASE d \notin api.tasks /\ ~Live(api, d)
  BY <1>3, TurnedSelf DEF FailDelegation
<1> QED
  BY <1>1, <1>2, <1>3
-----------------------------------------------------------------------------
(* The turns of the api reactor.                                           *)

LEMMA HeadFacts ==
  ASSUME TypeOK, bus # << >>
  PROVE  bus[1] \in Item /\ 1 \in DOMAIN bus /\ bus[1] \in InFlight
<1>1. bus \in Seq(Item)
  BY DEF TypeOK
<1>2. bus[1] \in Item /\ 1 \in DOMAIN bus /\ bus[1] \in ToSet(bus)
  BY <1>1 DEF ToSet
<1> QED
  BY <1>2 DEF InFlight

LEMMA SettleFacts ==
  ASSUME TypeOK, NEW r \in Runs, NEW how \in Terminal, Settle(r, how)
  PROVE  /\ promise' \in [Runs -> {"none", "pending", "dropped"} \cup Terminal]
         /\ \A q \in Runs : promise[q] # "none" => promise'[q] # "none"
BY DEF TypeOK, Settle, Terminal

\* A turn of the api reactor that leaves B behind, and the promises as they are.
LEMMA PlainTurn ==
  ASSUME IInv, loaded, bus # << >>, NEW B, Turned(B), Commit(B), promise' = promise, io' = io
  PROVE  IInv' /\ [Outcomes!Next]_(api.run)
<1>1. promise' \in [Runs -> {"none", "pending", "dropped"} \cup Terminal] /\ io' \in [Asks -> Nat]
  BY DEF IInv, TypeOK
<1> QED
  BY <1>1, TurnKeeps

LEMMA SettlingTurn ==
  ASSUME IInv, loaded, bus # << >>, NEW B, Turned(B), Commit(B), io' = io,
         NEW r \in Runs, NEW how \in Terminal, Settle(r, how)
  PROVE  IInv' /\ [Outcomes!Next]_(api.run)
<1>1. io' \in [Asks -> Nat]
  BY DEF IInv, TypeOK
<1>2. TypeOK
  BY DEF IInv
<1> QED
  BY <1>1, <1>2, SettleFacts, TurnKeeps

LEMMA StartRunKeeps ==
  ASSUME IInv, StartRun
  PROVE  IInv' /\ [Outcomes!Next]_(api.run)
<1>1. loaded /\ bus # << >> /\ bus[1].k = "start" /\ promise' = promise /\ io' = io
  BY DEF StartRun, At
<1>2. bus[1] \in Item /\ 1 \in DOMAIN bus
  BY <1>1, HeadFacts DEF IInv
<1>3. bus[1].d \in Roots
  BY <1>1, <1>2, ItemFacts
<1>4. PICK r \in Runs : bus[1].d = <<r>>
  BY <1>3 DEF Roots
<1>5. RunOf(bus[1].d) = r /\ <<r>> \in Roots /\ <<r>> \in Delegations /\ <<r>> \notin Sections
  BY <1>4, RootFacts
<1>6. api.run[r] = "none"
  BY <1>1, <1>2, <1>4 DEF IInv, StartsOnce
<1> DEFINE A == [Outcome(api, r, "running") EXCEPT !.rows = @ \cup {<<r>>}]
           e == Ev("delegate", <<r>>)
           B == Send(A, e)
<1>7. api \in Reactor /\ api.run \in [Runs -> States] /\ SecRows(api) /\ RootsLive(api)
  BY DEF IInv, TypeOK, Reactor
<1>8. /\ A \in Reactor /\ A.run = [api.run EXCEPT ![r] = "running"]
      /\ A.rows = api.rows \cup {<<r>>} /\ A.tasks = api.tasks /\ A.queue = api.queue
      /\ A.out = api.out
  BY <1>5, <1>7 DEF Outcome, Reactor, States
<1> HIDE DEF A
<1>9. \A q \in Runs : A.run[q] = IF q = r THEN "running" ELSE api.run[q]
  BY <1>7, <1>8
<1>10. \A q \in Runs : <<q>> = <<r>> => q = r
  BY RootFacts
<1>11. SecRows(A)
  BY <1>5, <1>7, <1>8 DEF SecRows, Spawned
<1>12. RootsLive(A)
  BY <1>7, <1>8, <1>9, <1>10 DEF RootsLive, Alive
<1>13. ToSet(A.out) = {}
  BY <1>8, ToSetEmpty DEF IInv, TypeOK
<1>14. A.run = [api.run EXCEPT ![r] = A.run[r]]
  BY <1>8, <1>9
<1>15. \A q \in Runs : Moves(api.run[q], A.run[q])
  BY <1>6, <1>9 DEF Moves
<1>16. \A q \in Runs : api.run[q] = "none" /\ A.run[q] # "none" => bus[1].k = "start" /\ bus[1].d = <<q>>
  BY <1>1, <1>4, <1>9
<1>17. Turned(A)
  BY <1>8, <1>11, <1>12, <1>13, <1>14, <1>15, <1>16 DEF Turned
<1>18. e \in Item /\ Tame(e)
  BY <1>5, ItemsMade DEF Ev, Tame
<1>19. Turned(B)
  BY <1>8, <1>11, <1>17, <1>18, SendTame, TurnedKeeps
<1>20. Commit(B)
  BY <1>4, <1>5 DEF StartRun, A
<1> QED
  BY <1>1, <1>19, <1>20, PlainTurn

LEMMA CancelRunKeeps ==
  ASSUME IInv, CancelRun
  PROVE  IInv' /\ [Outcomes!Next]_(api.run)
<1>1. loaded /\ bus # << >> /\ bus[1].k = "cancel" /\ promise' = promise /\ io' = io
  BY DEF CancelRun, At
<1>2. bus[1].d \in Roots
  BY <1>1, HeadFacts, ItemFacts DEF IInv
<1>3. PICK r \in Runs : bus[1].d = <<r>>
  BY <1>2 DEF Roots
<1>4. RunOf(<<r>>) = r
  BY RootFacts
<1> DEFINE A == Outcome(api, r, "cancelling")  B == Send(A, Ev("terminate", <<r>>))
<1>5. CASE Live(api, <<r>>)
  <2>1. Turned(api) /\ api \in Reactor /\ api.run \in [Runs -> States]
    BY TurnedSelf DEF Turned, Reactor
  <2>2. api.run[r] \in Alive
    BY <1>5 DEF IInv, RootsLive, Live
  <2>3. "cancelling" \in Stopped /\ Moves(api.run[r], "cancelling") /\ api.run[r] # "none"
    BY <2>2 DEF Stopped, Moves, Alive
  <2>4. Turned(A)
    BY <2>1, <2>3, OutcomeTurned
  <2>5. A.run[r] = "cancelling"
    BY <2>1 DEF Outcome, Reactor
  <2> HIDE DEF A
  <2>6. Turned(B)
    BY <2>3, <2>4, <2>5, StopTurned
  <2>7. Commit(B)
    BY <1>3, <1>4, <1>5 DEF CancelRun, A
  <2> QED
    BY <1>1, <2>6, <2>7, PlainTurn
<1>6. CASE ~Live(api, <<r>>)
  <2>1. Commit(api)
    BY <1>3, <1>6 DEF CancelRun
  <2> QED
    BY <1>1, <2>1, TurnedSelf, PlainTurn
<1> QED
  BY <1>5, <1>6

LEMMA FailRunKeeps ==
  ASSUME IInv, FailRun
  PROVE  IInv' /\ [Outcomes!Next]_(api.run)
<1>1. loaded /\ bus # << >> /\ bus[1].k = "failRun" /\ promise' = promise /\ io' = io
  BY DEF FailRun, At
<1>2. bus[1].d \in Roots
  BY <1>1, HeadFacts, ItemFacts DEF IInv
<1>3. PICK r \in Runs : bus[1].d = <<r>>
  BY <1>2 DEF Roots
<1> DEFINE B == IF Live(api, <<r>>) THEN Cleanup(Fail(api, <<r>>), RunOf(<<r>>)) ELSE api
<1>4. Turned(B)
  BY FailTurned, CleanupTurned, TurnedSelf
<1>5. Commit(B)
  BY <1>3 DEF FailRun
<1> HIDE DEF B
<1> QED
  BY <1>1, <1>4, <1>5, PlainTurn

LEMMA AnswersKeep ==
  ASSUME IInv, AnswerEscalation \/ StoreAnswered
  PROVE  IInv' /\ [Outcomes!Next]_(api.run)
<1>1. /\ loaded /\ bus # << >> /\ bus[1].k \in {"answer", "stored"}
      /\ promise' = promise /\ io' = io
  BY DEF AnswerEscalation, StoreAnswered, At
<1> DEFINE a == bus[1].ask
<1>2. a \in Asks /\ (bus[1].k = "answer" => bus[1].value \in Answers \cup {"done", "stored"})
  BY <1>1, HeadFacts, ItemFacts DEF IInv
<1> HIDE DEF a
<1>3. api \in Reactor /\ SecRows(api) /\ Turned(api)
  BY TurnedSelf DEF Turned
<1>4. ASSUME NEW A \in Reactor, Turned(A), NEW v \in Answers \cup {"done", "stored"}
      PROVE  Turned(Send(A, Ack(a, v)))
  <2>1. Ack(a, v) \in Item /\ Tame(Ack(a, v))
    BY <1>2, ItemsMade DEF Ack, Tame
  <2> QED
    BY <1>4, <2>1, SendTame, TurnedKeeps DEF Turned
<1>5. CASE AnswerEscalation
  <2> DEFINE A == [api EXCEPT !.open = @ \ {a}]
  <2>1. A \in Reactor /\ Keeps(api, A)
    <3>1. /\ A \in Reactor /\ A.rows = api.rows /\ A.tasks = api.tasks /\ A.queue = api.queue
          /\ A.run = api.run /\ A.out = api.out
      BY <1>3 DEF Reactor
    <3> HIDE DEF A
    <3> QED
      BY <1>3, <3>1 DEF Keeps, SecRows, Spawned
  <2>2. Turned(A)
    BY <1>3, <2>1, TurnedKeeps
  <2>3. bus[1].k = "answer"
    BY <1>5 DEF AnswerEscalation, At
  <2> HIDE DEF A
  <2>4. Turned(Send(A, Ack(a, bus[1].value)))
    BY <1>2, <1>4, <2>1, <2>2, <2>3
  <2>5. Commit(Send(A, Ack(a, bus[1].value))) \/ Commit(api)
    BY <1>5 DEF AnswerEscalation, A, a
  <2> QED
    BY <1>1, <1>3, <2>4, <2>5, PlainTurn
<1>6. CASE StoreAnswered
  <2>1. Commit(Send(api, Ack(a, "stored")))
    BY <1>6 DEF StoreAnswered, a
  <2> QED
    BY <1>1, <1>3, <1>4, <2>1, PlainTurn
<1> QED
  BY <1>5, <1>6

LEMMA SectionTurnsKeep ==
  ASSUME IInv, FailRunForStore \/ SpawnHead
  PROVE  IInv' /\ [Outcomes!Next]_(api.run)
<1>1. CASE FailRunForStore
  <2>1. loaded /\ bus # << >> /\ bus[1].k = "unstored" /\ promise' = promise /\ io' = io
    BY <1>1 DEF FailRunForStore, At
  <2>2. bus[1].d \in Delegations
    BY <2>1, HeadFacts, ItemFacts, AskFacts DEF IInv
  <2>3. Turned(FailDelegation(api, bus[1].d))
    BY <2>2, FailDelegationTurned
  <2> QED
    BY <1>1, <2>1, <2>3, PlainTurn DEF FailRunForStore
<1>2. CASE SpawnHead
  <2>1. loaded /\ bus # << >> /\ promise' = promise /\ io' = io
    BY <1>2 DEF SpawnHead, At
  <2>2. Turned(SpawnHeadIfIdle(api))
    BY TurnedSelf, SpawnHeadKeeps, TurnedKeeps DEF Turned
  <2> QED
    BY <1>2, <2>1, <2>2, PlainTurn DEF SpawnHead
<1> QED
  BY <1>1, <1>2
\* A live delegation that is no section's is the root of a run without an outcome.
LEMMA LiveRoot ==
  ASSUME IInv, NEW d \in Delegations, Live(api, d), d \notin api.tasks
  PROVE  d = <<RunOf(d)>> /\ RunOf(d) \in Runs /\ api.run[RunOf(d)] \in Alive
<1>1. d = <<RunOf(d)>> /\ RunOf(d) \in Runs
  BY DelegationFacts DEF IInv, SecRows, Live
<1> QED
  BY <1>1 DEF IInv, RootsLive, Live

\* The row of a delegation is retired: nothing else changes.
LEMMA RetireTurned ==
  ASSUME IInv, NEW d
  PROVE  /\ Turned(Retire(api, d)) /\ Retire(api, d).rows = api.rows \ {d}
         /\ Retire(api, d).run = api.run /\ Retire(api, d) \in Reactor /\ SecRows(Retire(api, d))
<1>1. api \in Reactor /\ SecRows(api) /\ Turned(api)
  BY TurnedSelf DEF Turned
<1>2. Keeps(api, Retire(api, d)) /\ Retire(api, d).rows = api.rows \ {d}
  BY <1>1, RetireKeeps
<1>3. Turned(Retire(api, d))
  BY <1>1, <1>2, TurnedKeeps
<1> QED
  BY <1>2, <1>3 DEF Keeps

\* The fence of an abandoned section is lifted, or a task is forgotten.
LEMMA ForgetTurned ==
  ASSUME IInv, NEW d, NEW A, NEW B,
         A = Retire(api, d),
         \/ B = [A EXCEPT !.fence = @ \ {d}]
         \/ B = [A EXCEPT !.tasks = @ \ {d}, !.fence = @ \ {d}]
  PROVE  Turned(SpawnHeadIfIdle(B))
<1>1. /\ Turned(A) /\ A.rows = api.rows \ {d} /\ A \in Reactor /\ SecRows(A)
  BY RetireTurned
<1>2. /\ B \in Reactor /\ B.rows = A.rows /\ A.tasks \ {d} \subseteq B.tasks /\ B.queue = A.queue
      /\ B.run = A.run /\ B.out = A.out
  <2>1. CASE B = [A EXCEPT !.fence = @ \ {d}]
    BY <1>1, <2>1 DEF Reactor
  <2>2. CASE B = [A EXCEPT !.tasks = @ \ {d}, !.fence = @ \ {d}]
    BY <1>1, <2>2 DEF Reactor
  <2> QED
    BY <2>1, <2>2
<1>3. SecRows(B)
  BY <1>1, <1>2 DEF SecRows, Spawned
<1>4. Keeps(A, B)
  BY <1>2, <1>3 DEF Keeps
<1>5. Keeps(B, SpawnHeadIfIdle(B))
  BY <1>2, <1>3, SpawnHeadKeeps
<1> QED
  BY <1>1, <1>4, <1>5, TurnedKeeps

\* The terminal of a run whose row was just retired.
LEMMA EndTurned ==
  ASSUME IInv, NEW d \in Delegations, d \notin api.tasks, NEW to \in Terminal,
         Live(api, d) => Moves(api.run[RunOf(d)], to)
  PROVE  LET A1 == Cleanup(Retire(api, d), RunOf(d))
         IN Turned(Closed(IF Live(api, d) THEN Outcome(A1, RunOf(d), to) ELSE A1, RunOf(d)))
<1> DEFINE r == RunOf(d)  A == Retire(api, d)  A1 == Cleanup(A, r)
           B == IF Live(api, d) THEN Outcome(A1, r, to) ELSE A1
<1>1. Turned(A) /\ A.run = api.run /\ A.rows = api.rows \ {d}
  BY RetireTurned
<1> HIDE DEF A
<1>2. Turned(A1) /\ A1.run = api.run /\ A1.rows \cap Roots \subseteq api.rows \ {d}
  BY <1>1, CleanupTurned
<1> HIDE DEF A1
<1>3. Turned(B)
  <2>1. CASE ~Live(api, d)
    BY <1>2, <2>1
  <2>2. CASE Live(api, d)
    <3>1. d = <<r>> /\ r \in Runs /\ api.run[r] \in Alive
      BY <2>2, LiveRoot
    <3>2. <<r>> \in Roots /\ <<r>> \notin A1.rows
      BY <1>2, <3>1, RootFacts
    <3>3. to \in Stopped /\ Moves(api.run[r], to) /\ api.run[r] # "none"
      BY <2>2, <3>1 DEF Stopped, Alive
    <3>4. api.run \in [Runs -> States]
      BY DEF IInv, TypeOK, Reactor
    <3> HIDE DEF r
    <3>5. Turned(Outcome(A1, r, to))
      BY <1>2, <3>1, <3>2, <3>3, <3>4, OutcomeTurned
    <3> QED
      BY <2>2, <3>5
  <2> QED
    BY <2>1, <2>2
<1> HIDE DEF B
<1>4. Turned(Closed(B, r))
  BY <1>3, ClosedTurned
<1> QED
  BY <1>4 DEF A, A1, B

LEMMA DelegateAckKeeps ==
  ASSUME IInv, DelegateAck
  PROVE  IInv' /\ [Outcomes!Next]_(api.run)
<1> DEFINE d == bus[1].d  A == Retire(api, d)  r == RunOf(d)
<1>1. loaded /\ bus # << >> /\ bus[1].k = "delegateAck" /\ io' = io
  BY DEF DelegateAck, At
<1>2. d \in Delegations
  BY <1>1, HeadFacts, ItemFacts DEF IInv, IsEvent, Events
<1>3. CASE d \in api.tasks
  <2>1. d \in Sections
    BY <1>3 DEF IInv, TypeOK, Reactor
  <2>2. Turned(A) /\ A.rows = api.rows \ {d} /\ A \in Reactor /\ SecRows(A)
    BY RetireTurned
  <2>3. Commit(CompleteTask(A, d)) /\ promise' = promise
    BY <1>3 DEF DelegateAck
  <2> HIDE DEF A, d
  <2>4. Turned(CompleteTask(A, d))
    BY <2>1, <2>2, CompleteTaskKeeps, TurnedKeeps
  <2> QED
    BY <1>1, <2>3, <2>4, PlainTurn
<1>4. CASE d \notin api.tasks /\ d \in api.fence
  <2> DEFINE B == [A EXCEPT !.fence = @ \ {d}]
  <2>1. Commit(SpawnHeadIfIdle(B)) /\ promise' = promise
    BY <1>4 DEF DelegateAck
  <2>2. Turned(SpawnHeadIfIdle(B))
    <3> HIDE DEF d
    <3> QED
      BY ForgetTurned
  <2> HIDE DEF B, d
  <2> QED
    BY <1>1, <2>1, <2>2, PlainTurn
<1>5. CASE d \notin api.tasks /\ d \notin api.fence
  <2> DEFINE A1 == Cleanup(A, r)
             B == Closed(IF Live(api, d) THEN Outcome(A1, r, "done") ELSE A1, r)
  <2>1. Commit(B) /\ Settle(r, "done")
    BY <1>5 DEF DelegateAck
  <2>2. "done" \in Terminal
    BY DEF Terminal
  <2> HIDE DEF d
  <2>3. r \in Runs
    BY <1>2, DelegationFacts
  <2>4. Live(api, d) => Moves(api.run[RunOf(d)], "done")
    BY <1>2, <1>5, LiveRoot DEF Moves
  <2>5. Turned(B)
    BY <1>2, <1>5, <2>2, <2>4, EndTurned
  <2> HIDE DEF B, r
  <2> QED
    BY <1>1, <2>1, <2>2, <2>3, <2>5, SettlingTurn
<1> QED
  BY <1>3, <1>4, <1>5

LEMMA TerminateAckKeeps ==
  ASSUME IInv, TerminateAck
  PROVE  IInv' /\ [Outcomes!Next]_(api.run)
<1> DEFINE d == bus[1].d  A == Retire(api, d)  r == RunOf(d)
<1>1. loaded /\ bus # << >> /\ bus[1].k = "terminateAck" /\ io' = io
  BY DEF TerminateAck, At
<1>2. d \in Delegations /\ bus[1] \in InFlight
  BY <1>1, HeadFacts, ItemFacts DEF IInv, IsEvent, Events
<1>3. CASE d \in api.tasks \cup api.fence
  <2> DEFINE B == [A EXCEPT !.tasks = @ \ {d}, !.fence = @ \ {d}]
  <2>1. Commit(SpawnHeadIfIdle(B)) /\ promise' = promise
    BY <1>3 DEF TerminateAck
  <2>2. Turned(SpawnHeadIfIdle(B))
    <3> HIDE DEF d
    <3> QED
      BY ForgetTurned
  <2> HIDE DEF B, d
  <2> QED
    BY <1>1, <2>1, <2>2, PlainTurn
<1>4. CASE d \notin api.tasks /\ d \notin api.fence
  <2> DEFINE A1 == Cleanup(A, r)
             B == Closed(IF Live(api, d) THEN Outcome(A1, r, "cancelled") ELSE A1, r)
  <2>1. Commit(B) /\ Settle(r, "cancelled")
    BY <1>4 DEF TerminateAck
  <2>2. "cancelled" \in Terminal
    BY DEF Terminal
  <2>3. Live(api, d) => Moves(api.run[r], "cancelled")
    <3> SUFFICES ASSUME Live(api, d) PROVE Moves(api.run[r], "cancelled")
      OBVIOUS
    <3>1. d = <<r>> /\ r \in Runs /\ api.run[r] \in Alive
      BY <1>2, <1>4, LiveRoot
    <3>2. Stopping(r)
      BY <1>1, <1>2, <3>1 DEF Stopping, Stops
    <3>3. api.run[r] \in Stopped
      BY <3>1, <3>2 DEF IInv, StopsMeant
    <3> QED
      BY <3>1, <3>3 DEF Stopped, Alive, Terminal, Moves
  <2> HIDE DEF d
  <2>4. r \in Runs
    BY <1>2, DelegationFacts
  <2>5. Turned(B)
    BY <1>2, <1>4, <2>2, <2>3, EndTurned
  <2> HIDE DEF B, r
  <2> QED
    BY <1>1, <2>1, <2>2, <2>4, <2>5, SettlingTurn
<1> QED
  BY <1>3, <1>4
LEMMA KindFacts == ASSUME NEW a \in Asks PROVE Request(a).kind \in Kinds
<1>1. CASE a \in RunRequests
  <2>1. PICK r \in Runs : \E k \in DOMAIN Program[r] : a = <<r, k>>
    BY <1>1 DEF RunRequests
  <2>2. Request(a) \in InRun
    BY <2>1, RequestFacts
  <2> QED
    BY <2>2 DEF InRun
<1>2. CASE a \notin RunRequests
  <2>1. PICK e \in Sections : \E k \in DOMAIN Request(e).body : a = Append(e, k)
    BY <1>2 DEF Asks
  <2>2. PICK k \in DOMAIN Request(e).body : a = Append(e, k)
    BY <2>1
  <2>3. PICK r \in Runs : \E n \in DOMAIN Program[r] : e = <<r, n>>
    BY DEF Sections, RunRequests
  <2>4. PICK n \in DOMAIN Program[r] : e = <<r, n>>
    BY <2>3
  <2> DEFINE S == {r, n, k}
  <2>5. e \in Seq(S) /\ k \in S /\ e # << >>
    BY <2>4
  <2> HIDE DEF S
  <2>6. Raiser(a) = e /\ Last(a) = k
    BY <2>2, <2>5, FrontOfAppend DEF Raiser
  <2>7. Request(a) = Request(e).body[k] /\ Request(e).body \in Seq(InSection)
    BY <2>6, SectionFacts DEF Request
  <2>8. Request(a) \in InSection
    BY <2>2, <2>7
  <2> QED
    BY <2>8 DEF InSection
<1> QED
  BY <1>1, <1>2

\* A request for the domain: of a section, which fails its run, or of a run.
LEMMA ExclusiveTurned ==
  ASSUME IInv, NEW a \in Asks, Request(a).kind = "exclusive"
  PROVE  Turned(Exclusive(api, a))
<1>1. Turned(api) /\ api \in Reactor /\ SecRows(api)
  BY TurnedSelf DEF Turned
<1>2. CASE Raiser(a) \in api.tasks
  <2>1. Raiser(a) \in Sections
    BY <1>1, <1>2 DEF Reactor
  <2>2. Turned(FailTask(api, Raiser(a)))
    BY <2>1, FailTaskTurned
  <2> QED
    BY <1>2, <2>2 DEF Exclusive
<1>3. CASE Raiser(a) \notin api.tasks /\ Live(api, Raiser(a))
  <2>1. Raiser(a) \in Roots
    BY <1>1, <1>3, AskFacts, DelegationFacts DEF SecRows, Live
  <2>2. a \in Sections
    BY <2>1, AskFacts DEF Sections
  <2>3. Turned(Enqueue(api, a))
    BY <1>1, <2>2, EnqueueKeeps, TurnedKeeps
  <2> QED
    BY <1>3, <2>3 DEF Exclusive
<1>4. CASE Raiser(a) \notin api.tasks /\ ~Live(api, Raiser(a))
  BY <1>1, <1>4 DEF Exclusive
<1> QED
  BY <1>2, <1>3, <1>4

LEMMA EscalateKeeps ==
  ASSUME IInv, Escalate
  PROVE  IInv' /\ [Outcomes!Next]_(api.run)
<1> DEFINE a == bus[1].ask  kind == Request(a).kind
<1>1. loaded /\ bus # << >> /\ bus[1].k = "escalate"
  BY DEF Escalate, At
<1>2. a \in Asks
  BY <1>1, HeadFacts, ItemFacts DEF IInv
<1>3. kind \in Kinds
  BY <1>2, KindFacts
<1>4. Turned(api) /\ api \in Reactor /\ SecRows(api) /\ TypeOK
  BY TurnedSelf DEF Turned, IInv
<1>5. CASE kind = "store"
  <2>1. Commit(api) /\ io' = [io EXCEPT ![a] = @ + 1] /\ promise' = promise
    BY <1>5 DEF Escalate
  <2> HIDE DEF a
  <2>2. io' \in [Asks -> Nat]
    BY <1>2, <1>4, <2>1 DEF TypeOK
  <2>3. promise' \in [Runs -> {"none", "pending", "dropped"} \cup Terminal]
    BY <1>4, <2>1 DEF TypeOK
  <2> QED
    BY <1>1, <1>4, <2>1, <2>2, <2>3, TurnKeeps
<1>6. CASE kind = "exclusive"
  <2>1. Commit(Exclusive(api, a)) /\ io' = io /\ promise' = promise
    BY <1>6 DEF Escalate
  <2> HIDE DEF a
  <2>2. Turned(Exclusive(api, a))
    BY <1>2, <1>6, ExclusiveTurned
  <2> QED
    BY <1>1, <2>1, <2>2, PlainTurn
<1>7. CASE kind = "user"
  <2> DEFINE B == [api EXCEPT !.open = @ \cup {a}]
  <2>1. Commit(B) /\ io' = io /\ promise' = promise
    BY <1>7 DEF Escalate
  <2>2. a \in Of("user")
    BY <1>2, <1>7 DEF Of
  <2> HIDE DEF a
  <2>3. /\ B \in Reactor /\ B.rows = api.rows /\ B.tasks = api.tasks /\ B.queue = api.queue
        /\ B.run = api.run /\ B.out = api.out
    BY <1>4, <2>2 DEF Reactor
  <2> HIDE DEF B
  <2>4. Keeps(api, B)
    BY <1>4, <2>3 DEF Keeps, SecRows, Spawned
  <2>5. Turned(B)
    BY <1>4, <2>4, TurnedKeeps
  <2> QED
    BY <1>1, <2>1, <2>5, PlainTurn
<1>8. CASE kind = "failure"
  <2> DEFINE B == Closed(FailDelegation(api, Raiser(a)), RunOf(a))
  <2>1. Commit(B) /\ io' = io /\ Settle(RunOf(a), "error")
    BY <1>8 DEF Escalate
  <2> HIDE DEF a
  <2>2. Turned(B) /\ RunOf(a) \in Runs
    BY <1>2, AskFacts, FailDelegationTurned, ClosedTurned
  <2>3. "error" \in Terminal
    BY DEF Terminal
  <2> HIDE DEF B
  <2> QED
    BY <1>1, <2>1, <2>2, <2>3, SettlingTurn
<1> QED
  BY <1>3, <1>5, <1>6, <1>7, <1>8 DEF Kinds

-----------------------------------------------------------------------------
(* The other steps leave the rows of the reactor alone.                    *)

\* A step that changes neither a run, a root's row nor the queue of sections.
LEMMA StillKeeps ==
  ASSUME IInv, TypeOK', NEW off \in {0, 1},
         api'.run = api.run, api'.rows = api.rows, api'.queue = api.queue,
         SecRows(api)',
         \A r \in Runs : promise[r] # "none" => promise'[r] # "none",
         \A n \in DOMAIN bus' : bus'[n].k = "start" => n + off \in DOMAIN bus /\ bus'[n] = bus[n + off],
         \A r \in Runs : Stopping(r)' => Stopping(r)
  PROVE  IInv' /\ [Outcomes!Next]_(api.run)
<1>1. StopsMeant'
  BY StopsKept DEF IInv, Moves
<1>2. StartsOnce'
  <2>1. bus \in Seq(Item) /\ bus' \in Seq(Item)
    BY DEF IInv, TypeOK
  <2> QED
    BY <2>1, StartsKept DEF IInv
<1>3. RootsLive(api)'
  BY DEF IInv, RootsLive
<1> QED
  BY <1>1, <1>2, <1>3 DEF IInv
\* What the queue keeps when an item is taken, and when one is added.
LEMMA Popped ==
  ASSUME NEW b \in Seq(Item), b # << >>
  PROVE  /\ Tail(b) \in Seq(Item) /\ ToSet(Tail(b)) \subseteq ToSet(b)
         /\ \A n \in DOMAIN Tail(b) : n + 1 \in DOMAIN b /\ Tail(b)[n] = b[n + 1]
BY ToSetHeadTail

LEMMA Pushed ==
  ASSUME NEW b \in Seq(Item), NEW e \in Item, e.k # "start"
  PROVE  /\ Append(b, e) \in Seq(Item) /\ ToSet(Append(b, e)) = ToSet(b) \cup {e}
         /\ \A n \in DOMAIN Append(b, e) : Append(b, e)[n].k = "start" =>
              n \in DOMAIN b /\ Append(b, e)[n] = b[n]
<1>1. Append(b, e) \in Seq(Item) /\ ToSet(Append(b, e)) = ToSet(b) \cup {e}
  BY ToSetAppend
<1>2. DOMAIN Append(b, e) = 1..(Len(b) + 1) /\ DOMAIN b = 1..Len(b) /\ Append(b, e)[Len(b) + 1] = e
  OBVIOUS
<1>3. \A n \in 1..Len(b) : Append(b, e)[n] = b[n]
  OBVIOUS
<1> QED
  BY <1>1, <1>2, <1>3

\* An item is added by a step outside the loop, or by a reactor below.
LEMMA PushKeeps ==
  ASSUME IInv, NEW e \in Item, e.k # "start", bus' = Append(bus, e),
         api' = api, promise' = promise, loaded' = loaded, outbox' = outbox,
         core' \in [Delegations -> [state : Dead \cup {"running", "asking", "stopping"}, pc : Nat \ {0}]],
         raised' \subseteq Asks, io' \in [Asks -> Nat],
         \A r \in Runs : core'[<<r>>].state = "stopping" \/ Stops(e, r) => Stopping(r)
  PROVE  IInv' /\ [Outcomes!Next]_(api.run)
<1>1. bus \in Seq(Item)
  BY DEF IInv, TypeOK
<1>2. bus' \in Seq(Item) /\ ToSet(bus') = ToSet(bus) \cup {e}
  BY <1>1, Pushed
<1>3. \A n \in DOMAIN bus' : bus'[n].k = "start" => n + 0 \in DOMAIN bus /\ bus'[n] = bus[n + 0]
  <2>1. ASSUME NEW n \in DOMAIN bus', bus'[n].k = "start"
        PROVE  n \in DOMAIN bus /\ bus'[n] = bus[n]
    BY <1>1, <2>1, Pushed
  <2>2. \A n \in DOMAIN bus : n + 0 = n
    BY <1>1
  <2> QED
    BY <2>1, <2>2
<1>4. TypeOK'
  BY <1>2 DEF IInv, TypeOK
<1>5. \A r \in Runs : Stopping(r)' => Stopping(r)
  BY <1>2 DEF Stopping, InFlight, Stops
<1>6. SecRows(api)'
  BY DEF IInv, SecRows, Spawned
<1> QED
  BY <1>3, <1>4, <1>5, <1>6, StillKeeps

\* The head of the queue is taken by a reactor below, which may add one item.
LEMMA PopKeeps ==
  ASSUME IInv, bus # << >>,
         \/ bus' = Tail(bus)
         \/ \E e \in Item : bus' = Append(Tail(bus), e) /\ e.k # "start" /\ \A r \in Runs : Stops(e, r) => Stopping(r),
         api' = api, promise' = promise, loaded' = loaded, outbox' = outbox, io' = io,
         core' \in [Delegations -> [state : Dead \cup {"running", "asking", "stopping"}, pc : Nat \ {0}]],
         raised' \subseteq Asks,
         \A r \in Runs : core'[<<r>>].state = "stopping" => Stopping(r)
  PROVE  IInv' /\ [Outcomes!Next]_(api.run)
<1>1. bus \in Seq(Item)
  BY DEF IInv, TypeOK
<1>2. /\ Tail(bus) \in Seq(Item) /\ ToSet(Tail(bus)) \subseteq ToSet(bus)
      /\ \A n \in DOMAIN Tail(bus) : n + 1 \in DOMAIN bus /\ Tail(bus)[n] = bus[n + 1]
  BY <1>1, Popped
<1>3. /\ bus' \in Seq(Item)
      /\ \A i \in ToSet(bus') : i \in ToSet(bus) \/ \A r \in Runs : Stops(i, r) => Stopping(r)
      /\ \A n \in DOMAIN bus' : bus'[n].k = "start" => n + 1 \in DOMAIN bus /\ bus'[n] = bus[n + 1]
  <2>1. CASE bus' = Tail(bus)
    BY <1>2, <2>1
  <2>2. CASE bus' # Tail(bus)
    <3>1. PICK e \in Item : /\ bus' = Append(Tail(bus), e) /\ e.k # "start"
                            /\ \A r \in Runs : Stops(e, r) => Stopping(r)
      BY <2>2
    <3> DEFINE b == Tail(bus)
    <3>2. b \in Seq(Item) /\ bus' = Append(b, e)
      BY <1>2, <3>1
    <3> HIDE DEF b
    <3>3. /\ Append(b, e) \in Seq(Item) /\ ToSet(Append(b, e)) = ToSet(b) \cup {e}
          /\ \A n \in DOMAIN Append(b, e) : Append(b, e)[n].k = "start" =>
               n \in DOMAIN b /\ Append(b, e)[n] = b[n]
      BY <3>1, <3>2, Pushed
    <3> QED
      BY <1>2, <3>1, <3>2, <3>3 DEF b
  <2> QED
    BY <2>1, <2>2
<1>4. TypeOK'
  BY <1>3 DEF IInv, TypeOK
<1>5. \A r \in Runs : Stopping(r)' => Stopping(r)
  BY <1>3 DEF Stopping, InFlight, Stops
<1>6. SecRows(api)'
  BY DEF IInv, SecRows, Spawned
<1> QED
  BY <1>3, <1>4, <1>5, <1>6, StillKeeps

CoreType == [Delegations -> [state : Dead \cup {"running", "asking", "stopping"}, pc : Nat \ {0}]]

LEMMA ToFacts ==
  ASSUME IInv, NEW d \in Delegations, NEW s \in Dead \cup {"running", "asking"}
  PROVE  To(d, s) \in CoreType /\ \A r \in Runs : To(d, s)[<<r>>].state = "stopping" => Stopping(r)
<1>1. core \in CoreType /\ "stopping" \notin Dead
  BY DEF IInv, TypeOK, CoreType, Dead
<1>2. To(d, s) \in CoreType
  BY <1>1 DEF To, CoreType
<1>3. \A e \in Delegations : To(d, s)[e].state = IF e = d THEN s ELSE core[e].state
  BY <1>1 DEF To, CoreType
<1> QED
  BY <1>1, <1>2, <1>3, RootFacts DEF Stopping

LEMMA CoreStartsKeeps ==
  ASSUME IInv, CoreStarts
  PROVE  IInv' /\ [Outcomes!Next]_(api.run)
<1> DEFINE d == bus[1].d
<1>1. bus # << >> /\ bus[1].k = "delegate" /\ bus' = Tail(bus) /\ raised' = raised
      /\ api' = api /\ promise' = promise /\ loaded' = loaded /\ outbox' = outbox /\ io' = io
  BY DEF CoreStarts, At, CoreTurn
<1>2. d \in Delegations
  BY <1>1, HeadFacts, ItemFacts DEF IInv, IsEvent, Events
<1>3. core' = [core EXCEPT ![d] = [state |-> "running", pc |-> 1]] /\ core \in CoreType
  BY DEF CoreStarts, IInv, TypeOK, CoreType
<1> HIDE DEF d
<1>4. core' \in CoreType
  BY <1>2, <1>3 DEF CoreType
<1>5. \A r \in Runs : core'[<<r>>].state = "stopping" => Stopping(r)
  <2>1. \A e \in Delegations : core'[e].state = "stopping" => core[e].state = "stopping"
    BY <1>2, <1>3 DEF CoreType
  <2> QED
    BY <2>1, RootFacts DEF Stopping
<1>6. raised' \subseteq Asks
  BY <1>1 DEF IInv, TypeOK
<1> QED
  BY <1>1, <1>4, <1>5, <1>6, PopKeeps DEF CoreType

LEMMA CoreTerminatesKeeps ==
  ASSUME IInv, CoreTerminates
  PROVE  IInv' /\ [Outcomes!Next]_(api.run)
<1> DEFINE d == bus[1].d
<1>1. bus # << >> /\ bus[1].k = "terminate" /\ raised' = raised
      /\ api' = api /\ promise' = promise /\ loaded' = loaded /\ outbox' = outbox /\ io' = io
  BY DEF CoreTerminates, At, CoreTurn
<1>2. d \in Delegations /\ bus[1] \in InFlight
  BY <1>1, HeadFacts, ItemFacts DEF IInv, IsEvent, Events
<1>3. raised' \subseteq Asks /\ core \in CoreType
  BY <1>1 DEF IInv, TypeOK, CoreType
<1>4. \A r \in Runs : d = <<r>> => Stopping(r)
  BY <1>1, <1>2 DEF Stopping, Stops
<1>5. \A r \in Runs : core[<<r>>].state = "stopping" => Stopping(r)
  BY DEF Stopping
<1>6. CASE core[d].state \in Dead
  <2> DEFINE e == Ev("terminateAck", d)
  <2>1. bus' = Append(Tail(bus), e) /\ core' = core
    BY <1>6 DEF CoreTerminates, CoreTurn
  <2> HIDE DEF d
  <2>2. e \in Item /\ e.k # "start" /\ \A r \in Runs : Stops(e, r) => Stopping(r)
    BY <1>2, <1>4, ItemsMade DEF Ev, Stops
  <2> HIDE DEF e
  <2> QED
    BY <1>1, <1>3, <1>5, <2>1, <2>2, PopKeeps DEF CoreType
<1>7. CASE core[d].state \notin Dead
  <2>1. bus' = Tail(bus) /\ core' = [core EXCEPT ![d].state = "stopping"]
    BY <1>7 DEF CoreTerminates, CoreTurn, To
  <2> HIDE DEF d
  <2>2. core' \in CoreType
    BY <1>2, <1>3, <2>1 DEF CoreType
  <2>3. \A e \in Delegations : core'[e].state = "stopping" => e = d \/ core[e].state = "stopping"
    BY <1>2, <1>3, <2>1 DEF CoreType
  <2>4. \A r \in Runs : core'[<<r>>].state = "stopping" => Stopping(r)
    BY <1>4, <1>5, <2>3, RootFacts
  <2> QED
    BY <1>1, <1>3, <2>1, <2>2, <2>4, PopKeeps DEF CoreType
<1> QED
  BY <1>6, <1>7

LEMMA CoreIsAnsweredKeeps ==
  ASSUME IInv, CoreIsAnswered
  PROVE  IInv' /\ [Outcomes!Next]_(api.run)
<1> DEFINE a == bus[1].ask  d == Raiser(a)
<1>1. bus # << >> /\ bus[1].k = "escalateAck" /\ bus' = Tail(bus) /\ raised' \subseteq raised
      /\ api' = api /\ promise' = promise /\ loaded' = loaded /\ outbox' = outbox /\ io' = io
  BY DEF CoreIsAnswered, At, CoreTurn
<1>2. d \in Delegations
  BY <1>1, HeadFacts, ItemFacts, AskFacts DEF IInv
<1>3. core' = To(d, "running") \/ core' = core
  BY DEF CoreIsAnswered
<1> HIDE DEF d
<1>4. core' \in CoreType /\ \A r \in Runs : core'[<<r>>].state = "stopping" => Stopping(r)
  <2>1. core \in CoreType /\ \A r \in Runs : core[<<r>>].state = "stopping" => Stopping(r)
    BY DEF IInv, TypeOK, CoreType, Stopping
  <2> QED
    BY <1>2, <1>3, <2>1, ToFacts
<1>5. raised' \subseteq Asks
  BY <1>1 DEF IInv, TypeOK
<1> QED
  BY <1>1, <1>4, <1>5, PopKeeps DEF CoreType

LEMMA CoreStepKeeps ==
  ASSUME IInv, NEW d \in Delegations, CoreRaises(d) \/ CoreReturns(d) \/ CoreStops(d)
  PROVE  IInv' /\ [Outcomes!Next]_(api.run)
<1>1. api' = api /\ promise' = promise /\ loaded' = loaded /\ outbox' = outbox /\ io' = io
  BY DEF CoreRaises, CoreReturns, CoreStops, CoreTurn
<1>2. core \in CoreType /\ raised \subseteq Asks /\ io' \in [Asks -> Nat]
  BY <1>1 DEF IInv, TypeOK, CoreType
<1>3. CASE CoreRaises(d)
  <2> DEFINE a == Append(d, core[d].pc)  e == AskEv("escalate", a)
             next == [state |-> IF Request(a).wait THEN "asking" ELSE "running", pc |-> core[d].pc + 1]
  <2>1. /\ core[d].state = "running" /\ core[d].pc <= Len(Body(d)) /\ core[d].pc \in Nat \ {0}
        /\ bus' = Append(bus, e) /\ raised' = raised \cup {a} /\ core' = [core EXCEPT ![d] = next]
    BY <1>2, <1>3 DEF CoreRaises, CoreTurn, CoreType
  <2>2. a \in Asks
    BY <2>1, RaisesFacts
  <2>3. next \in [state : Dead \cup {"running", "asking", "stopping"}, pc : Nat \ {0}]
        /\ next.state # "stopping"
    BY <2>1
  <2> HIDE DEF a, next
  <2>4. e \in Item /\ e.k = "escalate"
    BY <2>2, ItemsMade DEF AskEv
  <2> HIDE DEF e
  <2>5. core' \in CoreType /\ \A r \in Runs : core'[<<r>>].state = "stopping" => Stopping(r)
    <3>1. core' \in CoreType
      BY <1>2, <2>1, <2>3 DEF CoreType
    <3>2. \A c \in Delegations : core'[c].state = "stopping" => core[c].state = "stopping"
      BY <1>2, <2>1, <2>3 DEF CoreType
    <3> QED
      BY <3>1, <3>2, RootFacts DEF Stopping
  <2> QED
    BY <1>1, <1>2, <2>1, <2>2, <2>4, <2>5, PushKeeps DEF CoreType, Stops
<1>4. CASE CoreReturns(d)
  <2> DEFINE e == Ev("delegateAck", d)
  <2>1. bus' = Append(bus, e) /\ core' = To(d, "gone") /\ raised' \subseteq Asks
    BY <1>2, <1>4 DEF CoreReturns, CoreTurn
  <2>2. e \in Item /\ e.k = "delegateAck"
    BY ItemsMade DEF Ev
  <2>3. core' \in CoreType /\ \A r \in Runs : core'[<<r>>].state = "stopping" => Stopping(r)
    BY <2>1, ToFacts DEF Dead
  <2> HIDE DEF e
  <2> QED
    BY <1>1, <1>2, <2>1, <2>2, <2>3, PushKeeps DEF CoreType, Stops
<1>5. CASE CoreStops(d)
  <2> DEFINE e == Ev("terminateAck", d)
  <2>1. /\ bus' = Append(bus, e) /\ core' = To(d, "gone") /\ raised' \subseteq Asks
        /\ core[d].state = "stopping"
    BY <1>2, <1>5 DEF CoreStops, CoreTurn
  <2>2. e \in Item /\ e.k = "terminateAck" /\ e.d = d
    BY ItemsMade DEF Ev
  <2>3. core' \in CoreType /\ \A r \in Runs : core'[<<r>>].state = "stopping" => Stopping(r)
    BY <2>1, ToFacts DEF Dead
  <2>4. \A r \in Runs : Stops(e, r) => Stopping(r)
    BY <2>1, <2>2 DEF Stops, Stopping
  <2> HIDE DEF e
  <2> QED
    BY <1>1, <1>2, <2>1, <2>2, <2>3, <2>4, PushKeeps DEF CoreType
<1> QED
  BY <1>3, <1>4, <1>5
-----------------------------------------------------------------------------
(* Users, the store, and the warm state.                                   *)

LEMMA UserStartsKeeps ==
  ASSUME IInv, NEW r \in Runs, UserStarts(r)
  PROVE  IInv' /\ [Outcomes!Next]_(api.run)
<1> DEFINE e == Ev("start", <<r>>)
<1>1. /\ bus' = Append(bus, e) /\ promise[r] = "none"
      /\ promise' = [promise EXCEPT ![r] = "pending"]
      /\ api' = api /\ loaded' = loaded /\ outbox' = outbox /\ core' = core /\ raised' = raised /\ io' = io
  BY DEF UserStarts, Submit
<1>2. e \in Item /\ e.k = "start" /\ e.d = <<r>> /\ \A q \in Runs : <<q>> = <<r>> => q = r
  BY ItemsMade, RootFacts DEF Ev
<1>3. /\ bus \in Seq(Item)
      /\ promise \in [Runs -> {"none", "pending", "dropped"} \cup Terminal]
  BY DEF IInv, TypeOK
<1> HIDE DEF e
<1>4. /\ bus' \in Seq(Item) /\ ToSet(bus') = ToSet(bus) \cup {e}
      /\ DOMAIN bus' = 1..(Len(bus) + 1) /\ DOMAIN bus = 1..Len(bus) /\ Len(bus) \in Nat
      /\ bus'[Len(bus) + 1] = e
      /\ \A n \in 1..Len(bus) : bus'[n] = bus[n]
  <2>1. Append(bus, e) \in Seq(Item) /\ ToSet(Append(bus, e)) = ToSet(bus) \cup {e}
    BY <1>2, <1>3, ToSetAppend
  <2> QED
    BY <1>1, <1>2, <1>3, <2>1
<1>5. \A q \in Runs : promise'[q] # "none" <=> q = r \/ promise[q] # "none"
  BY <1>1, <1>3
<1>6. TypeOK'
  BY <1>1, <1>3, <1>4 DEF IInv, TypeOK
<1>7. StopsMeant'
  BY <1>1, <1>2, <1>4 DEF IInv, StopsMeant, Stopping, InFlight, Stops
<1>8. StartsOnce'
  <2>1. ASSUME NEW n \in DOMAIN bus, bus[n].k = "start"
        PROVE  bus[n].d # <<r>>
    BY <1>1, <2>1 DEF IInv, StartsOnce
  <2>2. \A n \in DOMAIN bus' : n = Len(bus) + 1 \/ (n \in DOMAIN bus /\ n # Len(bus) + 1)
    BY <1>4
  <2>3. \A q \in Runs : api'.run[q] # "none" => promise'[q] # "none"
    BY <1>1, <1>5 DEF IInv, StartsOnce
  <2>4. api.run[r] = "none"
    BY <1>1 DEF IInv, StartsOnce
  <2>5. ASSUME NEW n \in DOMAIN bus', bus'[n].k = "start", NEW q \in Runs, bus'[n].d = <<q>>
        PROVE  promise'[q] # "none" /\ api'.run[q] = "none"
    <3>1. CASE n = Len(bus) + 1
      BY <1>1, <1>2, <1>4, <1>5, <2>4, <2>5, <3>1
    <3>2. CASE n \in DOMAIN bus
      BY <1>1, <1>4, <1>5, <2>5, <3>2 DEF IInv, StartsOnce
    <3> QED
      BY <2>2, <3>1, <3>2
  <2>6. ASSUME NEW m \in DOMAIN bus', NEW n \in DOMAIN bus',
               bus'[m].k = "start", bus'[n].k = "start", bus'[m].d = bus'[n].d
        PROVE  m = n
    <3>1. CASE m \in DOMAIN bus /\ n \in DOMAIN bus
      BY <1>4, <2>6, <3>1 DEF IInv, StartsOnce
    <3>2. CASE m = Len(bus) + 1 /\ n \in DOMAIN bus
      BY <1>2, <1>4, <2>1, <2>6, <3>2
    <3>3. CASE m \in DOMAIN bus /\ n = Len(bus) + 1
      BY <1>2, <1>4, <2>1, <2>6, <3>3
    <3> QED
      BY <2>2, <3>1, <3>2, <3>3
  <2> QED
    BY <2>3, <2>5, <2>6 DEF StartsOnce
<1>9. SecRows(api)' /\ RootsLive(api)'
  BY <1>1 DEF IInv, SecRows, Spawned, RootsLive
<1> QED
  BY <1>1, <1>6, <1>7, <1>8, <1>9 DEF IInv

LEMMA SubmitsKeep ==
  ASSUME IInv,
         \/ \E r \in Runs : UserCancels(r)
         \/ \E a \in Of("user"), value \in Answers : UserAnswers(a, value)
         \/ StoreStep
  PROVE  IInv' /\ [Outcomes!Next]_(api.run)
<1>1. /\ core \in CoreType /\ raised \subseteq Asks /\ io \in [Asks -> Nat]
      /\ \A r \in Runs : core[<<r>>].state = "stopping" => Stopping(r)
  BY DEF IInv, TypeOK, CoreType, Stopping
<1>2. CASE \E r \in Runs : UserCancels(r)
  <2>1. PICK r \in Runs : UserCancels(r)
    BY <1>2
  <2> DEFINE e == Ev("cancel", <<r>>)
  <2>2. e \in Item /\ e.k = "cancel"
    BY ItemsMade DEF Ev
  <2>3. /\ bus' = Append(bus, e) /\ api' = api /\ promise' = promise /\ loaded' = loaded
        /\ outbox' = outbox /\ core' = core /\ raised' = raised /\ io' = io
    BY <2>1 DEF UserCancels, Submit
  <2> HIDE DEF e
  <2> QED
    BY <1>1, <2>2, <2>3, PushKeeps DEF CoreType, Stops
<1>3. CASE \E a \in Of("user"), value \in Answers : UserAnswers(a, value)
  <2>1. PICK a \in Of("user"), value \in Answers : UserAnswers(a, value)
    BY <1>3
  <2> DEFINE e == [k |-> "answer", d |-> Raiser(a), ask |-> a, value |-> value]
  <2>2. e \in Item /\ e.k = "answer"
    BY ItemsMade DEF Of
  <2>3. /\ bus' = Append(bus, e) /\ api' = api /\ promise' = promise /\ loaded' = loaded
        /\ outbox' = outbox /\ core' = core /\ raised' = raised /\ io' = io
    BY <2>1 DEF UserAnswers, Submit
  <2> HIDE DEF e
  <2> QED
    BY <1>1, <2>2, <2>3, PushKeeps DEF CoreType, Stops
<1>4. CASE StoreStep
  <2>1. PICK a \in Asks : StoreLands(a)
    BY <1>4 DEF StoreStep
  <2>2. PICK k \in {"stored", "unstored"} : bus' = Append(bus, AskEv(k, a))
    BY <2>1 DEF StoreLands, Submit
  <2> DEFINE e == AskEv(k, a)
  <2>3. e \in Item /\ e.k \in {"stored", "unstored"}
    BY ItemsMade DEF AskEv
  <2>4. /\ bus' = Append(bus, e) /\ api' = api /\ promise' = promise /\ loaded' = loaded
        /\ outbox' = outbox /\ core' = core /\ raised' = raised
    BY <2>1, <2>2 DEF StoreLands
  <2>5. io' \in [Asks -> Nat]
    BY <1>1, <2>1 DEF StoreLands
  <2> HIDE DEF e
  <2> QED
    BY <1>1, <2>3, <2>4, <2>5, PushKeeps DEF CoreType, Stops
<1> QED
  BY <1>2, <1>3, <1>4

LEMMA RowsOfFacts ==
  ASSUME NEW b \in Seq(Item), NEW rows \in RowsOf(b)
  PROVE  /\ rows \in Seq(Item) /\ ToSet(rows) \subseteq ToSet(b)
         /\ \A i \in DOMAIN rows : IsEvent(rows[i])
<1> DEFINE places == {i \in DOMAIN b : IsEvent(b[i])}
           N == Cardinality(places)
<1>1. N \in Nat
  <2>1. DOMAIN b = 1..Len(b) /\ Len(b) \in Nat
    OBVIOUS
  <2>2. IsFiniteSet(1..Len(b))
    BY <2>1, FS_Interval
  <2>3. IsFiniteSet(places)
    BY <2>1, <2>2, FS_Subset
  <2> QED
    BY <2>3, FS_CardinalityType
<1> HIDE DEF N
<1>2. PICK f \in [1..N -> places] : rows = [i \in 1..N |-> b[f[i]]]
  BY DEF RowsOf, N
<1>3. \A i \in 1..N : f[i] \in DOMAIN b /\ IsEvent(b[f[i]]) /\ b[f[i]] \in Item
  BY <1>2
<1>4. rows \in Seq(Item) /\ DOMAIN rows = 1..N
  BY <1>1, <1>2, <1>3, IsASeq
<1> QED
  BY <1>2, <1>3, <1>4 DEF ToSet

LEMMA DropWarmKeeps ==
  ASSUME IInv, loaded, NEW events \in Seq(Item), ToSet(events) \subseteq ToSet(bus), DropWarm(events),
         \/ bus' = << >>
         \/ \E r \in Runs : bus' = <<Ev("failRun", <<r>>)>>,
         io' \in [Asks -> Nat]
  PROVE  IInv' /\ [Outcomes!Next]_(api.run)
<1>1. loaded' = FALSE /\ api' = api /\ core' = core /\ raised' = raised
  BY DEF DropWarm
<1>2. /\ outbox' \in Seq(Item) /\ ToSet(outbox') \subseteq ToSet(bus)
      /\ \A i \in DOMAIN outbox' : IsEvent(outbox'[i])
  BY RowsOfFacts DEF DropWarm
<1>3. promise' \in [Runs -> {"none", "pending", "dropped"} \cup Terminal]
      /\ \A r \in Runs : promise[r] # "none" => promise'[r] # "none"
  BY DEF DropWarm, PoisonRunPromises, IInv, TypeOK
<1>4. /\ bus' \in Seq(Item)
      /\ \A n \in DOMAIN bus' : bus'[n].k = "failRun"
  <2>1. CASE bus' = << >>
    BY <2>1
  <2>2. CASE \E r \in Runs : bus' = <<Ev("failRun", <<r>>)>>
    <3>1. PICK r \in Runs : bus' = <<Ev("failRun", <<r>>)>>
      BY <2>2
    <3>2. Ev("failRun", <<r>>) \in Item /\ Ev("failRun", <<r>>).k = "failRun"
      BY ItemsMade DEF Ev
    <3> QED
      BY <3>1, <3>2
  <2> QED
    BY <2>1, <2>2
<1>5. TypeOK'
  BY <1>1, <1>2, <1>3, <1>4 DEF IInv, TypeOK
<1>6. \A r \in Runs : Stopping(r)' => Stopping(r)
  BY <1>1, <1>2, <1>4 DEF Stopping, InFlight, Stops, ToSet
<1>7. SecRows(api)'
  BY <1>1 DEF IInv, SecRows, Spawned
<1> QED
  BY <1>1, <1>3, <1>4, <1>5, <1>6, <1>7, StillKeeps

LEMMA DropsKeep ==
  ASSUME IInv, Reloads \/ DropsPoison
  PROVE  IInv' /\ [Outcomes!Next]_(api.run)
<1>1. bus \in Seq(Item) /\ io \in [Asks -> Nat]
  BY DEF IInv, TypeOK
<1>2. CASE Reloads
  <2>1. loaded /\ DropWarm(bus) /\ bus' = << >> /\ io' \in [Asks -> Nat]
    BY <1>1, <1>2 DEF Reloads
  <2> QED
    BY <1>1, <2>1, DropWarmKeeps
<1>3. CASE DropsPoison
  <2>1. loaded /\ bus # << >> /\ IsEvent(bus[1]) /\ DropWarm(Tail(bus)) /\ io' \in [Asks -> Nat]
        /\ bus' = <<Ev("failRun", <<RunOf(bus[1].d)>>)>>
    BY <1>1, <1>3 DEF DropsPoison
  <2>2. RunOf(bus[1].d) \in Runs
    BY <2>1, HeadFacts, ItemFacts, DelegationFacts DEF IInv
  <2>3. Tail(bus) \in Seq(Item) /\ ToSet(Tail(bus)) \subseteq ToSet(bus)
    BY <1>1, <2>1, Popped
  <2> QED
    BY <2>1, <2>2, <2>3, DropWarmKeeps
<1> QED
  BY <1>2, <1>3

LEMMA LoadKeeps ==
  ASSUME IInv, Load
  PROVE  IInv' /\ [Outcomes!Next]_(api.run)
<1> DEFINE kick == IF api.queue # {} THEN <<Ev("kick", <<>>)>> ELSE <<>>
<1>1. /\ loaded' = TRUE /\ bus' = bus \o kick \o outbox /\ outbox' = << >> /\ promise' = promise
      /\ core' = core /\ raised' = raised
  BY DEF Load
<1>2. bus \in Seq(Item) /\ outbox \in Seq(Item) /\ api \in Reactor /\ raised \subseteq Asks
  BY DEF IInv, TypeOK
<1>3. kick \in Seq(Item) /\ \A i \in ToSet(kick) : i.k = "kick"
  <2>1. Ev("kick", <<>>) \in Item /\ Ev("kick", <<>>).k = "kick"
    BY ItemsMade DEF Ev
  <2> QED
    BY <2>1 DEF ToSet
<1> HIDE DEF kick
<1>4. bus \o kick \in Seq(Item) /\ ToSet(bus \o kick) = ToSet(bus) \cup ToSet(kick)
  BY <1>2, <1>3, ToSetConcat
<1>5. bus' \in Seq(Item) /\ ToSet(bus') = ToSet(bus) \cup ToSet(kick) \cup ToSet(outbox)
  <2> DEFINE b == bus \o kick
  <2>1. b \in Seq(Item) /\ bus' = b \o outbox /\ ToSet(b) = ToSet(bus) \cup ToSet(kick)
    BY <1>1, <1>4
  <2> HIDE DEF b
  <2> QED
    BY <1>2, <2>1, ToSetConcat
<1>6. /\ api' \in Reactor /\ api'.run = api.run /\ api'.rows = api.rows /\ api'.queue = api.queue
      /\ api'.tasks = Spawned(api) /\ api'.out = api.out
  <2>1. Spawned(api) \subseteq Sections /\ raised \cap Of("user") \subseteq Of("user")
    BY <1>2 DEF Spawned, Reactor
  <2>2. api' = [api EXCEPT !.open = raised \cap Of("user"), !.tasks = Spawned(api), !.fence = {}]
    BY DEF Load
  <2> QED
    BY <1>2, <2>1, <2>2 DEF Reactor
<1>7. io' \in [Asks -> Nat]
  BY DEF Load, IInv, TypeOK
<1>8. TypeOK'
  <2>1. DOMAIN << >> = {} /\ << >> \in Seq(Item)
    OBVIOUS
  <2> QED
    BY <1>1, <1>5, <1>6, <1>7, <2>1 DEF IInv, TypeOK
<1>9. SecRows(api)'
  BY <1>6 DEF IInv, SecRows, Spawned
<1>10. \A n \in DOMAIN bus' : bus'[n].k = "start" => n + 0 \in DOMAIN bus /\ bus'[n] = bus[n + 0]
  <2> SUFFICES ASSUME NEW n \in DOMAIN bus', bus'[n].k = "start"
               PROVE  n + 0 \in DOMAIN bus /\ bus'[n] = bus[n + 0]
    OBVIOUS
  <2>1. \A i \in ToSet(outbox) : i.k # "start"
    BY DEF IInv, TypeOK, IsEvent, Events, ToSet
  <2>2. /\ Len(bus \o kick) = Len(bus) + Len(kick)
        /\ \A i \in 1..(Len(bus) + Len(kick)) :
             (bus \o kick)[i] = IF i <= Len(bus) THEN bus[i] ELSE kick[i - Len(bus)]
    BY <1>2, <1>3, ConcatProperties
  <2> DEFINE b == bus \o kick
  <2>3. b \in Seq(Item) /\ bus' = b \o outbox
    BY <1>1, <1>4
  <2> HIDE DEF b
  <2>4. /\ Len(b \o outbox) = Len(b) + Len(outbox)
        /\ \A i \in 1..(Len(b) + Len(outbox)) :
             (b \o outbox)[i] = IF i <= Len(b) THEN b[i] ELSE outbox[i - Len(b)]
    BY <1>2, <2>3, ConcatProperties
  <2>5. n \in 1..(Len(b) + Len(outbox)) /\ Len(b) \in Nat /\ Len(outbox) \in Nat /\ Len(bus) \in Nat
        /\ Len(kick) \in Nat /\ DOMAIN bus = 1..Len(bus) /\ DOMAIN kick = 1..Len(kick)
        /\ DOMAIN outbox = 1..Len(outbox)
    BY <1>2, <1>3, <1>5, <2>3, <2>4
  <2>6. n <= Len(b)
    <3> SUFFICES ASSUME ~(n <= Len(b)) PROVE FALSE
      OBVIOUS
    <3>1. n - Len(b) \in DOMAIN outbox /\ bus'[n] = outbox[n - Len(b)]
      BY <2>3, <2>4, <2>5
    <3> QED
      BY <2>1, <3>1 DEF ToSet
  <2>7. bus'[n] = b[n]
    BY <2>3, <2>4, <2>5, <2>6
  <2>8. n <= Len(bus)
    <3> SUFFICES ASSUME ~(n <= Len(bus)) PROVE FALSE
      OBVIOUS
    <3>1. n - Len(bus) \in DOMAIN kick /\ b[n] = kick[n - Len(bus)]
      BY <2>2, <2>5, <2>6 DEF b
    <3> QED
      BY <1>3, <2>7, <3>1 DEF ToSet
  <2> QED
    BY <2>2, <2>5, <2>6, <2>7, <2>8 DEF b
<1>11. \A r \in Runs : Stopping(r)' => Stopping(r)
  BY <1>1, <1>3, <1>5, ToSetEmpty DEF Stopping, InFlight, Stops
<1> QED
  BY <1>1, <1>6, <1>8, <1>9, <1>10, <1>11, StillKeeps

-----------------------------------------------------------------------------
(* The theorems.                                                           *)

LEMMA NextKeeps == IInv /\ [Next]_vars => IInv' /\ [Outcomes!Next]_(api.run)
<1> SUFFICES ASSUME IInv, [Next]_vars PROVE IInv' /\ [Outcomes!Next]_(api.run)
  OBVIOUS
<1>1. CASE Turn
  BY <1>1, StartRunKeeps, CancelRunKeeps, FailRunKeeps, AnswersKeep, SectionTurnsKeep,
     DelegateAckKeeps, TerminateAckKeeps, EscalateKeeps, CoreStartsKeeps, CoreTerminatesKeeps,
     CoreIsAnsweredKeeps DEF Turn
<1>2. CASE CoreStep
  BY <1>2, CoreStepKeeps DEF CoreStep
<1>3. CASE StoreStep
  BY <1>3, SubmitsKeep
<1>4. CASE User
  BY <1>4, UserStartsKeeps, SubmitsKeep DEF User
<1>5. CASE Load
  BY <1>5, LoadKeeps
<1>6. CASE Reloads \/ DropsPoison
  BY <1>6, DropsKeep
<1>7. CASE UNCHANGED vars
  <2>1. /\ TypeOK' /\ SecRows(api)' /\ RootsLive(api)' /\ StopsMeant' /\ StartsOnce' /\ api' = api
    BY <1>7 DEF vars, IInv, TypeOK, SecRows, Spawned, RootsLive, StopsMeant, Stopping, InFlight,
       StartsOnce
  <2> QED
    BY <2>1 DEF IInv
<1> QED
  BY <1>1, <1>2, <1>3, <1>4, <1>5, <1>6, <1>7 DEF Next

\* The reactor's state stays typed, whatever is cancelled, failed, dropped and reloaded.
THEOREM ApiTypeCorrect == Spec => []TypeOK
<1>1. IInv => TypeOK
  BY DEF IInv
<1> QED
  BY InitIInv, NextKeeps, <1>1, PTL DEF Spec

\* Whichever of its result, its cancellation and a failure retires the root of
\* a run first fixes the outcome; `cancelled` only for a run that was marked.
THEOREM OutcomeFixed == Spec => OutcomeIsFinal
<1>1. Init => Outcomes!Init
  BY DEF Init, Outcomes!Init
<1> QED
  BY <1>1, InitIInv, NextKeeps, PTL DEF Spec, OutcomeIsFinal, Outcomes!Spec

-----------------------------------------------------------------------------
(* The account of the critical sections.                                   *)

\* The committed events, in the order of their turns.
Line == IF loaded THEN bus ELSE outbox
Quiet == ~loaded => \A n \in DOMAIN bus : ~IsEvent(bus[n])

\* The events the account is about.
Signals == {"delegate", "terminate", "delegateAck", "terminateAck"}
Marks ==
  {Ev("delegate", d) : d \in Delegations} \cup {Ev(k, s) : k \in Signals, s \in Sections}
    \cup {AskEv("escalate", s) : s \in Sections}

Asked(s, L) == Has(L, AskEv("escalate", s))
Unstarted(s, L) == core[s].state = "absent" /\ \A k \in Signals : ~Has(L, Ev(k, s))
Due(s, L) == Working(s) \/ Has(L, Ev("delegate", s))
Hands(L, s, t) == Precedes(L, Ev("terminate", s), Ev("delegate", t))

\* What the reactor holds: the spawned head, or one that is being torn down.
Held(A) ==
  /\ A.tasks = Spawned(A)
  /\ \A s, t \in A.tasks \cup A.fence : s = t
  /\ \A t, u \in A.queue : t.ask = u.ask => t = u

\* A section that was not reached, is on its way or waits was never started.
Waits(A, L, s) ==
  /\ core[Raiser(s)].pc <= Last(s) => ~Asked(s, L) /\ s \notin Queued(A) /\ Unstarted(s, L)
  /\ Asked(s, L) => s \notin Queued(A) /\ Unstarted(s, L)
  /\ s \in Queued(A) \ Spawned(A) => Unstarted(s, L)

\* A delegation that is to start is not there, and starts from its first request.
Starts(L, d) ==
  /\ core[d].state = "absent" => core[d].pc = 1
  /\ Has(L, Ev("delegate", d)) => core[d].state = "absent"
  /\ ~Precedes(L, Ev("delegate", d), Ev("delegate", d))
Fresh(A, L, r) ==
  A.run[r] = "none" => core[<<r>>].state = "absent" /\ ~Has(L, Ev("delegate", <<r>>))

\* A section that answered is over, and one told to stop left the queue.
Ends(A, L, s) ==
  /\ Has(L, Ev("delegateAck", s)) \/ Has(L, Ev("terminateAck", s)) =>
       core[s].state \in Dead /\ ~Has(L, Ev("delegate", s))
  /\ Has(L, Ev("terminate", s)) \/ Has(L, Ev("terminateAck", s)) \/ core[s].state = "stopping" =>
       s \notin Queued(A)
  /\ ~Precedes(L, AskEv("escalate", s), AskEv("escalate", s))
  /\ ~Precedes(L, Ev("terminate", s), Ev("delegate", s))

\* While no event was dropped: a section that works or will is held or told to
\* stop, and of two such sections one is stopped before the other starts.
Lined(A, L) ==
  spent.drops = 0 =>
    /\ \A s \in Sections : Due(s, L) => s \in A.tasks \/ Has(L, Ev("terminate", s))
    /\ \A s, t \in Sections : s # t /\ Due(s, L) /\ Due(t, L) => Hands(L, s, t) \/ Hands(L, t, s)

\* While nothing was lost at all, it is held or fenced until it is gone.
Guarded(A, L) ==
  Undisturbed =>
    /\ loaded
    /\ \A s \in Sections :
         core[s].state \notin Dead \/ Has(L, Ev("delegate", s)) => s \in A.tasks \cup A.fence

Account(A, L) ==
  /\ Held(A)
  /\ \A s \in Sections : Waits(A, L, s) /\ Ends(A, L, s)
  /\ \A d \in Delegations : Starts(L, d)
  /\ \A r \in Runs : Fresh(A, L, r)
  /\ Lined(A, L) /\ Guarded(A, L)

SInv == Quiet /\ Account(api, Line)

-----------------------------------------------------------------------------
(* Events.                                                                 *)

LEMMA EvFacts ==
  /\ \A k, j, d, e : Ev(k, d) = Ev(j, e) <=> k = j /\ d = e
  /\ \A k, j, d, a : Ev(k, d) # AskEv(j, a)
  /\ \A k, d, a, v : Ev(k, d) # Ack(a, v)
  /\ \A k, j, a, b : AskEv(k, a) = AskEv(j, b) <=> k = j /\ a = b
  /\ \A k, a, b, v : AskEv(k, a) # Ack(b, v)
<1>1. ASSUME NEW k, NEW j, NEW d, NEW e, Ev(k, d) = Ev(j, e) PROVE k = j /\ d = e
  <2>1. Ev(k, d).k = k /\ Ev(j, e).k = j /\ Ev(k, d).d = d /\ Ev(j, e).d = e
    BY DEF Ev
  <2> QED
    BY <1>1, <2>1
<1>2. ASSUME NEW k, NEW j, NEW d, NEW a PROVE Ev(k, d) # AskEv(j, a)
  <2>1. DOMAIN Ev(k, d) = {"k", "d"} /\ DOMAIN AskEv(j, a) = {"k", "d", "ask"}
    BY DEF Ev, AskEv
  <2> QED
    BY <2>1
<1>3. ASSUME NEW k, NEW d, NEW a, NEW v PROVE Ev(k, d) # Ack(a, v)
  <2>1. DOMAIN Ev(k, d) = {"k", "d"} /\ DOMAIN Ack(a, v) = {"k", "d", "ask", "value"}
    BY DEF Ev, Ack
  <2> QED
    BY <2>1
<1>4. ASSUME NEW k, NEW j, NEW a, NEW b, AskEv(k, a) = AskEv(j, b) PROVE k = j /\ a = b
  <2>1. AskEv(k, a).k = k /\ AskEv(j, b).k = j /\ AskEv(k, a).ask = a /\ AskEv(j, b).ask = b
    BY DEF AskEv
  <2> QED
    BY <1>4, <2>1
<1>5. ASSUME NEW k, NEW a, NEW b, NEW v PROVE AskEv(k, a) # Ack(b, v)
  <2>1. DOMAIN AskEv(k, a) = {"k", "d", "ask"} /\ DOMAIN Ack(b, v) = {"k", "d", "ask", "value"}
    BY DEF AskEv, Ack
  <2> QED
    BY <2>1
<1> QED
  BY <1>1, <1>2, <1>3, <1>4, <1>5

\* Nothing is added to the line that the account is about.
Shrinks(L, M) ==
  /\ \A x \in Marks : Has(M, x) => Has(L, x)
  /\ \A x, y \in Marks : Precedes(M, x, y) => Precedes(L, x, y)

\* And no terminate of a section leaves it.
Thins(L, M) ==
  /\ Shrinks(L, M)
  /\ \A s \in Sections : Has(L, Ev("terminate", s)) => Has(M, Ev("terminate", s))
  /\ \A s, t \in Sections : Hands(L, s, t) => Hands(M, s, t)

LEMMA MarkFacts ==
  /\ \A d \in Delegations : Ev("delegate", d) \in Marks
  /\ \A s \in Sections : AskEv("escalate", s) \in Marks /\ \A k \in Signals : Ev(k, s) \in Marks
  /\ \A e : Ev("kick", e) \notin Marks
  /\ \A a, v : Ack(a, v) \notin Marks
BY EvFacts DEF Marks, Signals

\* The part of the account that survives the loss of an event.
LEMMA ThinTally ==
  ASSUME NEW A, NEW B, NEW L, NEW M, Account(A, L), Shrinks(L, M),
         B.tasks = A.tasks, B.fence = A.fence, B.queue = A.queue,
         \A r \in Runs : B.run[r] = "none" => A.run[r] = "none"
  PROVE  /\ Held(B)
         /\ \A s \in Sections : Waits(B, M, s) /\ Ends(B, M, s)
         /\ \A d \in Delegations : Starts(M, d)
         /\ \A r \in Runs : Fresh(B, M, r)
<1>1. Queued(B) = Queued(A) /\ Spawned(B) = Spawned(A)
  BY DEF Queued, Spawned
<1>2. Held(B)
  BY <1>1 DEF Account, Held
<1>3. ASSUME NEW s \in Sections
      PROVE  /\ \A k \in Signals : Has(M, Ev(k, s)) => Has(L, Ev(k, s))
             /\ Asked(s, M) => Asked(s, L)
             /\ Unstarted(s, L) => Unstarted(s, M)
  <2>1. \A k \in Signals : Has(M, Ev(k, s)) => Has(L, Ev(k, s))
    BY MarkFacts DEF Shrinks
  <2>2. Asked(s, M) => Asked(s, L)
    BY MarkFacts DEF Shrinks, Asked
  <2> QED
    BY <2>1, <2>2 DEF Unstarted
<1>4. ASSUME NEW s \in Sections PROVE Waits(B, M, s)
  BY <1>1, <1>3 DEF Account, Waits
<1>5. ASSUME NEW s \in Sections PROVE Ends(B, M, s)
  <2>1. ~Precedes(M, AskEv("escalate", s), AskEv("escalate", s))
    BY MarkFacts DEF Account, Ends, Shrinks
  <2>2. ~Precedes(M, Ev("terminate", s), Ev("delegate", s))
    BY MarkFacts DEF Account, Ends, Shrinks, Signals
  <2>3. Ends(A, L, s)
    BY DEF Account
  <2> QED
    BY <1>1, <1>3, <2>1, <2>2, <2>3 DEF Ends, Signals
<1>6. ASSUME NEW d \in Delegations PROVE Starts(M, d)
  BY MarkFacts DEF Account, Starts, Shrinks
<1>7. ASSUME NEW r \in Runs PROVE Fresh(B, M, r)
  BY MarkFacts, RootFacts DEF Account, Fresh, Shrinks
<1> QED
  BY <1>2, <1>4, <1>5, <1>6, <1>7

LEMMA ThinAccount ==
  ASSUME NEW A, NEW B, NEW L, NEW M, Account(A, L), Thins(L, M),
         B.tasks = A.tasks, B.fence = A.fence, B.queue = A.queue,
         \A r \in Runs : B.run[r] = "none" => A.run[r] = "none"
  PROVE  Account(B, M)
<1>1. /\ Held(B)
      /\ \A s \in Sections : Waits(B, M, s) /\ Ends(B, M, s)
      /\ \A d \in Delegations : Starts(M, d)
      /\ \A r \in Runs : Fresh(B, M, r)
  BY ThinTally DEF Thins
<1>2. ASSUME NEW s \in Sections PROVE Has(M, Ev("delegate", s)) => Has(L, Ev("delegate", s))
  BY MarkFacts DEF Thins, Shrinks, Signals
<1>3. Lined(B, M)
  BY <1>2 DEF Account, Lined, Thins, Due
<1>4. Guarded(B, M)
  BY <1>2 DEF Account, Guarded
<1> QED
  BY <1>1, <1>3, <1>4 DEF Account

LEMMA ThinSame ==
  ASSUME NEW L, NEW M,
         \A x \in Marks : Has(M, x) <=> Has(L, x),
         \A x, y \in Marks : Precedes(M, x, y) <=> Precedes(L, x, y)
  PROVE  Thins(L, M)
BY MarkFacts DEF Thins, Shrinks, Hands, Signals

LEMMA ThinAppend ==
  ASSUME NEW L \in Seq(Item), NEW e \in Item, e \notin Marks
  PROVE  Thins(L, Append(L, e))
<1>1. \A x, y \in Marks : /\ Has(Append(L, e), x) <=> Has(L, x)
                          /\ Precedes(Append(L, e), x, y) <=> Precedes(L, x, y)
  BY OrderAppend
<1> QED
  BY <1>1, ThinSame

LEMMA ThinTail ==
  ASSUME NEW L \in Seq(Item), L # << >>, \A s \in Sections : L[1] # Ev("terminate", s)
  PROVE  Thins(L, Tail(L))
<1>1. \A x, y \in Marks : /\ Has(Tail(L), x) => Has(L, x)
                          /\ Precedes(Tail(L), x, y) => Precedes(L, x, y)
  BY OrderTail
<1>2. ASSUME NEW s \in Sections
      PROVE  Has(L, Ev("terminate", s)) => Has(Tail(L), Ev("terminate", s))
  BY OrderTail
<1>3. ASSUME NEW s \in Sections, NEW t \in Sections
      PROVE  Hands(L, s, t) => Hands(Tail(L), s, t)
  BY OrderTail DEF Hands
<1> QED
  BY <1>1, <1>2, <1>3 DEF Thins, Shrinks

-----------------------------------------------------------------------------
(* The parts of a turn: q is the rest of the line, A.out what is sent.     *)

Midway(q, A) == Account(A, q \o A.out)

LEMMA OutAppend ==
  ASSUME NEW q \in Seq(Item), NEW s \in Seq(Item), NEW e \in Item
  PROVE  q \o Append(s, e) = Append(q \o s, e) /\ q \o s \in Seq(Item)
<1>1. q \o s \in Seq(Item) /\ Append(s, e) \in Seq(Item)
  OBVIOUS
<1>2. q \o Append(s, e) \in Seq(Item) /\ Append(q \o s, e) \in Seq(Item)
  BY <1>1
<1>3. Len(q \o Append(s, e)) = Len(Append(q \o s, e))
  BY <1>1
<1>4. \A i \in 1..Len(q \o Append(s, e)) : (q \o Append(s, e))[i] = Append(q \o s, e)[i]
  BY <1>1
<1> QED
  BY <1>1, <1>2, <1>3, <1>4, SeqEqual

LEMMA MidwaySame ==
  ASSUME NEW q, NEW A, NEW B, Midway(q, A),
         B.tasks = A.tasks, B.fence = A.fence, B.queue = A.queue, B.out = A.out,
         \A r \in Runs : B.run[r] = "none" => A.run[r] = "none"
  PROVE  Midway(q, B)
<1> DEFINE L == q \o A.out
<1>1. Thins(L, L)
  BY ThinSame
<1>2. Account(A, L) /\ q \o B.out = L
  BY DEF Midway
<1> HIDE DEF L
<1> QED
  BY <1>1, <1>2, ThinAccount DEF Midway

LEMMA MidwaySend ==
  ASSUME NEW q \in Seq(Item), NEW A \in Reactor, Midway(q, A), NEW e \in Item, e \notin Marks
  PROVE  Midway(q, Send(A, e))
<1> DEFINE B == Send(A, e)  L == q \o A.out
<1>1. /\ B.tasks = A.tasks /\ B.fence = A.fence /\ B.queue = A.queue /\ B.run = A.run
      /\ B.out = Append(A.out, e)
  BY DEF Send, Reactor
<1>2. A.out \in Seq(Item)
  BY DEF Reactor
<1>3. q \o B.out = Append(L, e) /\ L \in Seq(Item)
  BY <1>1, <1>2, OutAppend
<1>4. Account(A, L)
  BY DEF Midway
<1> HIDE DEF B, L
<1>5. Thins(L, Append(L, e))
  BY <1>3, ThinAppend
<1>6. Account(B, Append(L, e))
  BY <1>1, <1>4, <1>5, ThinAccount
<1> QED
  BY <1>3, <1>6 DEF Midway, B

LEMMA SpawnTaskFacts ==
  ASSUME NEW A \in Reactor, NEW ask \in Sections, ask \in Queued(A), A.tasks = {}, Held(A)
  PROVE  LET C == SpawnTask(A, ask)
         IN /\ C.tasks = {ask} /\ C.fence = A.fence /\ C.run = A.run
            /\ C.out = Append(A.out, Ev("delegate", ask))
            /\ Queued(C) = Queued(A) /\ Spawned(C) = {ask}
            /\ \A t, u \in C.queue : t.ask = u.ask => t = u
<1> DEFINE Mark(t) == IF t.ask = ask THEN [t EXCEPT !.spawned = TRUE] ELSE t
           Q == {Mark(t) : t \in A.queue}
           B == [A EXCEPT !.queue = Q, !.tasks = @ \cup {ask}, !.rows = @ \cup {ask}]
           C == SpawnTask(A, ask)
<1>1. A.queue \in SUBSET [ask : Sections, spawned : BOOLEAN, seq : Nat]
  BY DEF Reactor
<1>2. \A t \in A.queue : Mark(t).ask = t.ask /\ (t.ask = ask => Mark(t).spawned) /\ (t.ask # ask => Mark(t) = t)
  BY <1>1
<1>3. C = Send(B, Ev("delegate", ask))
  BY DEF SpawnTask
<1> HIDE DEF Mark
<1>4. \A x \in Q : \E t \in A.queue : x = Mark(t)
  OBVIOUS
<1>5. \A t \in A.queue : Mark(t) \in Q
  OBVIOUS
<1> HIDE DEF Q
<1>6. /\ B.queue = Q /\ B.tasks = A.tasks \cup {ask} /\ B.run = A.run /\ B.out = A.out
      /\ B.fence = A.fence
  BY DEF Reactor
<1>7. B \in [run : {B.run}, rows : {B.rows}, open : {B.open}, queue : {B.queue}, seq : {B.seq},
             tasks : {B.tasks}, fence : {B.fence}, out : {B.out}]
  BY DEF Reactor
<1> HIDE DEF B
<1>8. /\ C.queue = B.queue /\ C.tasks = B.tasks /\ C.run = B.run /\ C.fence = B.fence
      /\ C.out = Append(B.out, Ev("delegate", ask))
  BY <1>3, <1>7 DEF Send
<1> HIDE DEF C
<1>9. C.queue = Q /\ C.tasks = {ask}
  BY <1>6, <1>8
<1>10. \A t \in A.queue : ~t.spawned
  BY DEF Held, Spawned
<1>11. PICK h \in A.queue : h.ask = ask
  BY DEF Queued
<1>12. Queued(C) = Queued(A)
  BY <1>2, <1>4, <1>5, <1>9 DEF Queued
<1>13. Spawned(C) = {ask}
  <2>1. ask \in Spawned(C)
    BY <1>2, <1>5, <1>9, <1>11 DEF Spawned
  <2>2. ASSUME NEW x \in C.queue, x.spawned PROVE x.ask = ask
    BY <1>2, <1>4, <1>9, <1>10, <2>2
  <2> QED
    BY <2>1, <2>2 DEF Spawned
<1>14. \A t, u \in C.queue : t.ask = u.ask => t = u
  BY <1>2, <1>4, <1>9 DEF Held
<1> QED
  BY <1>6, <1>8, <1>9, <1>12, <1>13, <1>14 DEF C
LEMMA MidwaySpawnTask ==
  ASSUME NEW q \in Seq(Item), NEW A \in Reactor, Midway(q, A), NEW ask \in Sections,
         ask \in Queued(A), A.tasks \cup A.fence = {}
  PROVE  Midway(q, SpawnTask(A, ask))
<1> DEFINE C == SpawnTask(A, ask)  L == q \o A.out  e == Ev("delegate", ask)  M == Append(L, e)
<1>1. Account(A, L)
  BY DEF Midway
<1>2. /\ C.tasks = {ask} /\ C.fence = {} /\ C.run = A.run /\ C.out = Append(A.out, e)
      /\ Queued(C) = Queued(A) /\ Spawned(C) = {ask}
      /\ \A t, u \in C.queue : t.ask = u.ask => t = u
  BY <1>1, SpawnTaskFacts DEF Account
<1>3. e \in Item /\ A.out \in Seq(Item)
  BY ItemsMade, SectionFacts DEF Reactor
<1>4. q \o C.out = M /\ L \in Seq(Item)
  BY <1>2, <1>3, OutAppend
<1>5. Spawned(A) = {}
  BY <1>1 DEF Account, Held
<1>6. Unstarted(ask, L) /\ ~Asked(ask, L) /\ ~(core[Raiser(ask)].pc <= Last(ask))
  BY <1>1, <1>5 DEF Account, Waits
<1> HIDE DEF C, L, e
<1>7. \A x, y : (Has(M, x) <=> Has(L, x) \/ x = e)
                /\ (Precedes(M, x, y) <=> Precedes(L, x, y) \/ (Has(L, x) /\ y = e))
  BY <1>3, <1>4, OrderAppend
<1> HIDE DEF M
<1>8. Held(C)
  BY <1>2 DEF Held
<1>9. ASSUME NEW s \in Sections, s # ask
      PROVE  /\ \A k \in Signals : Has(M, Ev(k, s)) <=> Has(L, Ev(k, s))
             /\ Asked(s, M) <=> Asked(s, L)
             /\ Unstarted(s, L) <=> Unstarted(s, M)
             /\ Due(s, M) <=> Due(s, L)
  <2>1. \A k \in Signals : Has(M, Ev(k, s)) <=> Has(L, Ev(k, s))
    <3>1. \A k : Ev(k, s) # e
      BY <1>9, EvFacts DEF e
    <3> QED
      BY <1>7, <3>1
  <2>2. Asked(s, M) <=> Asked(s, L)
    <3>1. AskEv("escalate", s) # e
      BY EvFacts DEF e
    <3> QED
      BY <1>7, <3>1 DEF Asked
  <2> QED
    BY <2>1, <2>2 DEF Unstarted, Due, Signals
<1>10. /\ \A k \in Signals : k # "delegate" => ~Has(M, Ev(k, ask))
       /\ ~Asked(ask, M)
  BY <1>6, <1>7, EvFacts DEF e, Asked, Unstarted
<1>11. ASSUME NEW s \in Sections PROVE Waits(C, M, s)
  <2>1. Waits(A, L, s)
    BY <1>1 DEF Account
  <2>2. CASE s = ask
    BY <1>2, <1>6, <1>10, <2>2 DEF Waits
  <2>3. CASE s # ask
    BY <1>2, <1>9, <2>1, <2>3, <1>5 DEF Waits
  <2> QED
    BY <2>2, <2>3
<1>12. ASSUME NEW s \in Sections PROVE Ends(C, M, s)
  <2>1. Ends(A, L, s)
    BY <1>1 DEF Account
  <2>2. ~Precedes(M, AskEv("escalate", s), AskEv("escalate", s))
    BY <1>7, <2>1, EvFacts DEF Ends, e
  <2>3. CASE s = ask
    <3>1. ~Has(L, Ev("terminate", s)) /\ core[s].state = "absent"
      BY <1>6, <2>3 DEF Unstarted, Signals
    <3>2. ~Precedes(M, Ev("terminate", s), Ev("delegate", s))
      BY <1>7, <2>1, <3>1 DEF Ends
    <3> QED
      BY <1>10, <2>2, <2>3, <3>1, <3>2 DEF Ends, Signals
  <2>4. CASE s # ask
    <3>1. ~Precedes(M, Ev("terminate", s), Ev("delegate", s))
      BY <1>7, <2>1, <2>4, EvFacts DEF Ends, e
    <3> QED
      BY <1>2, <1>9, <2>1, <2>2, <2>4, <3>1 DEF Ends, Signals
  <2> QED
    BY <2>3, <2>4
<1>13. ASSUME NEW d \in Delegations PROVE Starts(M, d)
  <2>1. Starts(L, d)
    BY <1>1 DEF Account
  <2>2. CASE d = ask
    BY <1>6, <1>7, <2>1, <2>2 DEF Starts, Unstarted, Signals
  <2>3. CASE d # ask
    BY <1>7, <2>1, <2>3, EvFacts DEF Starts, e
  <2> QED
    BY <2>2, <2>3
<1>14. ASSUME NEW r \in Runs PROVE Fresh(C, M, r)
  <2>1. <<r>> # ask
    BY RootFacts
  <2>2. Fresh(A, L, r)
    BY <1>1 DEF Account
  <2>3. Ev("delegate", <<r>>) # e
    BY <2>1, EvFacts DEF e
  <2> QED
    BY <1>2, <1>7, <2>2, <2>3 DEF Fresh
<1>15. Lined(C, M)
  <2> SUFFICES ASSUME spent.drops = 0
               PROVE  /\ \A s \in Sections : Due(s, M) => s \in C.tasks \/ Has(M, Ev("terminate", s))
                      /\ \A s, t \in Sections :
                           s # t /\ Due(s, M) /\ Due(t, M) => Hands(M, s, t) \/ Hands(M, t, s)
    BY DEF Lined
  <2>1. Lined(A, L)
    BY <1>1 DEF Account
  <2>2. \A s \in Sections : s # ask /\ Due(s, M) => Has(L, Ev("terminate", s)) /\ Hands(M, s, ask)
    BY <1>7, <1>9, <2>1 DEF Lined, Hands, e
  <2>3. \A s \in Sections : Due(s, M) => s \in C.tasks \/ Has(M, Ev("terminate", s))
    BY <1>2, <1>7, <2>2
  <2>4. \A s, t \in Sections : s # t /\ Due(s, M) /\ Due(t, M) => Hands(M, s, t) \/ Hands(M, t, s)
    BY <1>7, <1>9, <2>1, <2>2 DEF Lined, Hands
  <2> QED
    BY <2>3, <2>4
<1>16. Guarded(C, M)
  <2>1. Guarded(A, L)
    BY <1>1 DEF Account
  <2> QED
    BY <1>2, <1>6, <1>7, <1>9, <2>1 DEF Guarded, Signals, Unstarted, Dead
<1>17. Account(C, M)
  BY <1>8, <1>11, <1>12, <1>13, <1>14, <1>15, <1>16 DEF Account
<1> QED
  BY <1>4, <1>17 DEF Midway, C

LEMMA MidwaySpawnHead ==
  ASSUME NEW q \in Seq(Item), NEW A \in Reactor, Midway(q, A)
  PROVE  Midway(q, SpawnHeadIfIdle(A))
<1>1. CASE A.tasks \cup A.fence # {} \/ Heads(A) = {}
  BY <1>1 DEF SpawnHeadIfIdle
<1>2. CASE ~(A.tasks \cup A.fence # {} \/ Heads(A) = {})
  <2> DEFINE t == CHOOSE x \in Heads(A) : TRUE
  <2>1. t \in Heads(A)
    BY <1>2
  <2> HIDE DEF t
  <2>2. t.ask \in Queued(A) /\ t.ask \in Sections
    BY <2>1 DEF Heads, Queued, Reactor
  <2>3. Midway(q, SpawnTask(A, t.ask))
    BY <1>2, <2>2, MidwaySpawnTask
  <2> QED
    BY <1>2, <2>3 DEF SpawnHeadIfIdle, t
<1> QED
  BY <1>1, <1>2
\* A section leaves the queue, the domain and the fence: its place in the
\* account is empty, or its terminate is the last event of the line.
LEMMA ForgetAccount ==
  ASSUME NEW A, NEW B, NEW L, Account(A, L), NEW gone, gone \subseteq Sections,
         B.tasks = A.tasks \ gone, B.fence \subseteq A.fence, B.run = A.run,
         Spawned(B) = Spawned(A) \ gone, B.queue \subseteq A.queue,
         \A s \in Sections : s \in gone \/ s \in A.fence \ B.fence =>
            core[s].state \in Dead /\ ~Has(L, Ev("delegate", s))
  PROVE  Account(B, L)
<1>1. Queued(B) \subseteq Queued(A) /\ Queued(B) \ Spawned(B) \subseteq (Queued(A) \ Spawned(A)) \cup gone
  BY DEF Queued
<1>2. Held(B)
  BY DEF Account, Held
<1>3. ASSUME NEW s \in Sections PROVE Waits(B, L, s)
  <2>1. CASE s \in Queued(B) \ Spawned(B)
    <3>1. PICK t \in B.queue : t.ask = s
      BY <2>1 DEF Queued
    <3>2. ~t.spawned
      BY <2>1, <3>1 DEF Spawned
    <3>3. s \in Queued(A) \ Spawned(A)
      BY <3>1, <3>2 DEF Account, Held, Queued, Spawned
    <3> QED
      BY <1>1, <3>3 DEF Account, Waits
  <2>2. CASE s \notin Queued(B) \ Spawned(B)
    BY <1>1, <2>2 DEF Account, Waits
  <2> QED
    BY <2>1, <2>2
<1>4. ASSUME NEW s \in Sections PROVE Ends(B, L, s)
  BY <1>1 DEF Account, Ends
<1>5. ASSUME NEW r \in Runs PROVE Fresh(B, L, r)
  BY DEF Account, Fresh
<1>6. Lined(B, L)
  BY DEF Account, Lined, Due, Working, Dead
<1>7. Guarded(B, L)
  BY DEF Account, Guarded
<1> QED
  BY <1>2, <1>3, <1>4, <1>5, <1>6, <1>7 DEF Account

\* What Cleanup takes from the queue and what it tears down, before the next head.
Its(A, r) == {t \in A.queue : RunOf(t.ask) = r}
Gone(A, r) == {t.ask : t \in {x \in Its(A, r) : x.spawned}}
TornDown(A, r) ==
  LET gone == Gone(A, r)
      terminate == IF gone = {} THEN <<>> ELSE <<Ev("terminate", CHOOSE d \in gone : TRUE)>>
  IN [A EXCEPT !.queue = @ \ Its(A, r), !.tasks = @ \ gone, !.rows = @ \ gone,
               !.fence = @ \cup gone, !.out = @ \o terminate]

LEMMA CleanupFacts ==
  ASSUME NEW A \in Reactor, NEW r, Held(A)
  PROVE  /\ Cleanup(A, r) = IF Its(A, r) = {} THEN A ELSE SpawnHeadIfIdle(TornDown(A, r))
         /\ TornDown(A, r) \in Reactor
         /\ TornDown(A, r).tasks = A.tasks \ Gone(A, r)
         /\ TornDown(A, r).fence = A.fence \cup Gone(A, r)
         /\ TornDown(A, r).run = A.run
         /\ TornDown(A, r).queue = A.queue \ Its(A, r)
         /\ Spawned(TornDown(A, r)) = Spawned(A) \ Gone(A, r)
         /\ Gone(A, r) \subseteq A.tasks /\ Gone(A, r) \cap Queued(TornDown(A, r)) = {}
         /\ Gone(A, r) \subseteq Sections
         /\ \/ Gone(A, r) = {} /\ TornDown(A, r).out = A.out
            \/ \E d \in Sections :
                 /\ Gone(A, r) = {d}
                 /\ TornDown(A, r).out = Append(A.out, Ev("terminate", d))
<1> DEFINE its == {t \in A.queue : RunOf(t.ask) = r}
           gone == {t.ask : t \in {x \in its : x.spawned}}
           terminate == IF gone = {} THEN <<>> ELSE <<Ev("terminate", CHOOSE d \in gone : TRUE)>>
           B == [A EXCEPT !.queue = @ \ its, !.tasks = @ \ gone, !.rows = @ \ gone,
                          !.fence = @ \cup gone, !.out = @ \o terminate]
<1>1. A.queue \in SUBSET [ask : Sections, spawned : BOOLEAN, seq : Nat] /\ A.out \in Seq(Item)
  BY DEF Reactor
<1>2. gone \subseteq Sections /\ gone \subseteq A.tasks
  BY <1>1 DEF Held, Spawned
<1>3. \A x, y \in gone : x = y
  BY <1>2 DEF Held
<1>4. /\ terminate \in Seq(Item)
      /\ \/ gone = {} /\ A.out \o terminate = A.out
         \/ \E d \in Sections : gone = {d} /\ A.out \o terminate = Append(A.out, Ev("terminate", d))
  <2>1. CASE gone = {}
    <3>1. terminate = << >>
      BY <2>1
    <3> HIDE DEF terminate, gone
    <3>2. A.out \o << >> = A.out /\ << >> \in Seq(Item)
      BY <1>1
    <3> QED
      BY <2>1, <3>1, <3>2
  <2>2. CASE gone # {}
    <3> DEFINE d == CHOOSE x \in gone : TRUE
    <3>1. d \in gone
      BY <2>2
    <3>2. terminate = <<Ev("terminate", d)>>
      BY <2>2
    <3> HIDE DEF d, terminate, gone
    <3>3. gone = {d} /\ d \in Sections
      BY <1>2, <1>3, <3>1
    <3>4. Ev("terminate", d) \in Item
      BY <3>3, ItemsMade, SectionFacts
    <3> DEFINE e == Ev("terminate", d)
    <3> HIDE DEF e
    <3>5. A.out \o <<e>> = Append(A.out, e) /\ <<e>> \in Seq(Item)
      BY <1>1, <3>4 DEF e
    <3> QED
      BY <3>2, <3>3, <3>5 DEF e
  <2> QED
    BY <2>1, <2>2
<1>5. A.out \o terminate \in Seq(Item)
  <2> HIDE DEF terminate
  <2> QED
    BY <1>1, <1>4
<1>6. /\ B \in Reactor /\ B.tasks = A.tasks \ gone /\ B.fence = A.fence \cup gone /\ B.run = A.run
      /\ B.queue = A.queue \ its /\ B.out = A.out \o terminate
  <2> HIDE DEF its, gone, terminate
  <2> QED
    BY <1>2, <1>5 DEF Reactor
<1>7. \A t \in its : t \in A.queue /\ (t.spawned => t.ask \in gone) /\ RunOf(t.ask) = r
  OBVIOUS
<1>8. \A d \in gone : RunOf(d) = r
  OBVIOUS
<1>9. \A t \in A.queue : t \notin its => RunOf(t.ask) # r
  OBVIOUS
<1>10. Cleanup(A, r) = IF its = {} THEN A ELSE SpawnHeadIfIdle(B)
  BY DEF Cleanup
<1> HIDE DEF its, gone, terminate, B
<1>11. Spawned(B) = Spawned(A) \ gone
  <2>1. ASSUME NEW t \in B.queue, t.spawned PROVE t.ask \in Spawned(A) \ gone
    BY <1>6, <1>8, <1>9, <2>1 DEF Spawned
  <2>2. ASSUME NEW t \in A.queue, t.spawned, t.ask \notin gone PROVE t.ask \in Spawned(B)
    <3>1. t \in B.queue
      BY <1>6, <1>7, <2>2
    <3> QED
      BY <2>2, <3>1 DEF Spawned
  <2> QED
    BY <2>1, <2>2 DEF Spawned
<1>12. gone \cap Queued(B) = {}
  BY <1>6, <1>8, <1>9 DEF Queued
<1> QED
  BY <1>2, <1>4, <1>6, <1>10, <1>11, <1>12 DEF its, gone, terminate, B, Its, Gone, TornDown

LEMMA MidwayCleanup ==
  ASSUME NEW q \in Seq(Item), NEW A \in Reactor, Midway(q, A), NEW r
  PROVE  Midway(q, Cleanup(A, r))
<1> DEFINE its == Its(A, r)  gone == Gone(A, r)  B == TornDown(A, r)  L == q \o A.out
<1>1. Account(A, L) /\ Held(A)
  BY DEF Midway, Account
<1>2. /\ Cleanup(A, r) = IF its = {} THEN A ELSE SpawnHeadIfIdle(B)
      /\ B \in Reactor /\ B.tasks = A.tasks \ gone /\ B.fence = A.fence \cup gone /\ B.run = A.run
      /\ B.queue = A.queue \ its
      /\ Spawned(B) = Spawned(A) \ gone
      /\ gone \subseteq A.tasks /\ gone \cap Queued(B) = {}
      /\ gone \subseteq Sections
      /\ \/ gone = {} /\ B.out = A.out
         \/ \E d \in Sections : gone = {d} /\ B.out = Append(A.out, Ev("terminate", d))
  BY <1>1, CleanupFacts
<1>3. A.out \in Seq(Item)
  BY DEF Reactor
<1> HIDE DEF its, gone, B, L
<1>4. CASE gone = {} /\ B.out = A.out
  <2>1. Account(B, L)
    BY <1>1, <1>2, <1>4, ForgetAccount
  <2>2. Midway(q, B)
    BY <1>4, <2>1 DEF Midway, L
  <2> QED
    BY <1>2, <2>2, MidwaySpawnHead
<1>5. CASE \E d \in Sections : gone = {d} /\ B.out = Append(A.out, Ev("terminate", d))
  <2>1. PICK d \in Sections : gone = {d} /\ B.out = Append(A.out, Ev("terminate", d))
    BY <1>5
  <2> DEFINE e == Ev("terminate", d)  M == Append(L, e)
  <2>2. e \in Item
    BY ItemsMade, SectionFacts
  <2>3. q \o B.out = M /\ L \in Seq(Item)
    BY <1>3, <2>1, <2>2, OutAppend DEF L
  <2> HIDE DEF e
  <2>4. \A x, y : (Has(M, x) <=> Has(L, x) \/ x = e)
                  /\ (Precedes(M, x, y) <=> Precedes(L, x, y) \/ (Has(L, x) /\ y = e))
    BY <2>2, <2>3, OrderAppend
  <2> HIDE DEF M
  <2>5. \A f : Ev("delegate", f) # e /\ Ev("delegateAck", f) # e /\ Ev("terminateAck", f) # e
               /\ AskEv("escalate", f) # e /\ (Ev("terminate", f) = e => f = d)
    BY EvFacts DEF e
  <2>6. \A s : /\ Has(M, Ev("delegate", s)) <=> Has(L, Ev("delegate", s))
               /\ Has(M, Ev("delegateAck", s)) <=> Has(L, Ev("delegateAck", s))
               /\ Has(M, Ev("terminateAck", s)) <=> Has(L, Ev("terminateAck", s))
               /\ s # d => (Has(M, Ev("terminate", s)) <=> Has(L, Ev("terminate", s)))
               /\ Asked(s, M) <=> Asked(s, L)
               /\ Due(s, M) <=> Due(s, L)
               /\ s # d => (Unstarted(s, M) <=> Unstarted(s, L))
    BY <2>4, <2>5 DEF Asked, Due, Unstarted, Signals
  <2>7. \A s, t : /\ Hands(M, s, t) <=> Hands(L, s, t)
                  /\ Precedes(M, Ev("delegate", s), Ev("delegate", t)) <=>
                       Precedes(L, Ev("delegate", s), Ev("delegate", t))
                  /\ Precedes(M, AskEv("escalate", s), AskEv("escalate", t)) <=>
                       Precedes(L, AskEv("escalate", s), AskEv("escalate", t))
    BY <2>4, <2>5 DEF Hands
  <2>8. d \in Queued(A) /\ d \in Spawned(A) /\ d \notin Queued(B) /\ Queued(B) \subseteq Queued(A)
    BY <1>1, <1>2, <2>1 DEF Held, Queued, Spawned
  <2>9. Held(B)
    BY <1>1, <1>2 DEF Held
  <2>10. ASSUME NEW s \in Sections PROVE Waits(B, M, s)
    <3>1. Waits(A, L, s)
      BY <1>1 DEF Account
    <3>2. CASE s = d
      BY <2>6, <2>8, <3>1, <3>2 DEF Waits
    <3>3. CASE s # d
      BY <1>2, <2>1, <2>6, <2>8, <3>1, <3>3 DEF Waits
    <3> QED
      BY <3>2, <3>3
  <2>11. ASSUME NEW s \in Sections PROVE Ends(B, M, s)
    <3>1. Ends(A, L, s)
      BY <1>1 DEF Account
    <3> QED
      BY <2>6, <2>7, <2>8, <3>1 DEF Ends, Hands
  <2>12. ASSUME NEW f \in Delegations PROVE Starts(M, f)
    BY <1>1, <2>6, <2>7 DEF Account, Starts
  <2>13. ASSUME NEW u \in Runs PROVE Fresh(B, M, u)
    BY <1>1, <1>2, <2>6 DEF Account, Fresh
  <2>14. Lined(B, M)
    BY <1>1, <1>2, <2>1, <2>4, <2>6, <2>7 DEF Account, Lined, e
  <2>15. Guarded(B, M)
    BY <1>1, <1>2, <2>6 DEF Account, Guarded
  <2>16. Account(B, M)
    BY <2>9, <2>10, <2>11, <2>12, <2>13, <2>14, <2>15 DEF Account
  <2>17. Midway(q, B)
    BY <2>3, <2>16 DEF Midway
  <2> QED
    BY <1>2, <2>17, MidwaySpawnHead
<1> QED
  BY <1>2, <1>4, <1>5
\* A section is over: nothing of it will start and nothing of it works.
Over(s, L) == core[s].state \in Dead /\ ~Has(L, Ev("delegate", s))

LEMMA MidwayComplete ==
  ASSUME NEW q \in Seq(Item), NEW A \in Reactor, Midway(q, A), NEW ask \in A.tasks,
         Over(ask, q \o A.out)
  PROVE  Midway(q, CompleteTask(A, ask))
<1> DEFINE L == q \o A.out
           B == [A EXCEPT !.tasks = @ \ {ask}]
           C == [B EXCEPT !.queue = {t \in @ : t.ask # ask}]
           D == Send(C, Ack(ask, "done"))
<1>1. Account(A, L) /\ Held(A) /\ ask \in Spawned(A) /\ ask \in Queued(A) /\ ask \in Sections
  BY DEF Midway, Account, Held, Spawned, Queued, Reactor
<1>2. CompleteTask(A, ask) = SpawnHeadIfIdle(D)
  BY <1>1 DEF CompleteTask
<1>3. /\ C \in Reactor /\ C.tasks = A.tasks \ {ask} /\ C.fence = A.fence /\ C.run = A.run
      /\ C.queue = {t \in A.queue : t.ask # ask} /\ C.out = A.out
  <2>1. /\ B \in Reactor /\ B.tasks = A.tasks \ {ask} /\ B.fence = A.fence /\ B.run = A.run
        /\ B.queue = A.queue /\ B.out = A.out
    BY DEF Reactor
  <2> HIDE DEF B
  <2> QED
    BY <2>1 DEF Reactor
<1> HIDE DEF C
<1>4. Spawned(C) = Spawned(A) \ {ask}
  BY <1>3 DEF Spawned
<1>5. C.tasks = A.tasks \ {ask} /\ C.fence \subseteq A.fence /\ C.queue \subseteq A.queue
      /\ A.fence \ C.fence = {} /\ {ask} \subseteq Sections
  BY <1>1, <1>3
<1>6. Account(C, L)
  BY <1>1, <1>3, <1>4, <1>5, ForgetAccount DEF Over
<1>7. Midway(q, C)
  BY <1>3, <1>6 DEF Midway
<1>8. Ack(ask, "done") \in Item /\ Ack(ask, "done") \notin Marks
  BY <1>1, ItemsMade, MarkFacts, SectionFacts
<1>9. Midway(q, D)
  BY <1>3, <1>7, <1>8, MidwaySend
<1>10. D \in Reactor
  <2>1. Append(C.out, Ack(ask, "done")) \in Seq(Item)
    BY <1>3, <1>8 DEF Reactor
  <2> QED
    BY <1>3, <2>1 DEF Send, Reactor
<1> HIDE DEF D
<1> QED
  BY <1>2, <1>9, <1>10, MidwaySpawnHead

\* A section that was raised and is not there yet, nor queued, nor on its way.
New(A, L, s) == ~Asked(s, L) /\ s \notin Queued(A) /\ Unstarted(s, L) /\ core[Raiser(s)].pc > Last(s)

LEMMA MidwayEnqueue ==
  ASSUME NEW q \in Seq(Item), NEW A \in Reactor, Midway(q, A), NEW ask \in Sections,
         New(A, q \o A.out, ask), core[Raiser(ask)].pc \in Nat
  PROVE  Midway(q, Enqueue(A, ask))
<1> DEFINE L == q \o A.out
           item == [ask |-> ask, spawned |-> FALSE, seq |-> A.seq]
           B == [A EXCEPT !.queue = @ \cup {item}, !.seq = @ + 1]
<1>1. Account(A, L) /\ Held(A)
  BY DEF Midway, Account
<1>2. Enqueue(A, ask) = SpawnHeadIfIdle(B)
  BY DEF Enqueue, New
<1>3. /\ B \in Reactor /\ B.tasks = A.tasks /\ B.fence = A.fence /\ B.run = A.run
      /\ B.queue = A.queue \cup {item} /\ B.out = A.out
  <2>1. A.seq \in Nat /\ A.seq + 1 \in Nat
    BY DEF Reactor
  <2>2. item \in [ask : Sections, spawned : BOOLEAN, seq : Nat]
    BY <2>1
  <2> HIDE DEF item
  <2> QED
    BY <2>1, <2>2 DEF Reactor
<1>4. item.ask = ask /\ ~item.spawned
  OBVIOUS
<1> HIDE DEF B, item
<1>5. Queued(B) = Queued(A) \cup {ask} /\ Spawned(B) = Spawned(A)
  BY <1>3, <1>4 DEF Queued, Spawned
<1>6. Held(B)
  BY <1>1, <1>3, <1>4, <1>5 DEF Held, New, Queued
<1> DEFINE M == L
<1>7. New(A, M, ask) /\ ~(core[Raiser(ask)].pc <= Last(ask))
  <2>1. \E k \in Nat : Last(ask) = k
    <3>1. PICK r \in Runs : \E k \in DOMAIN Program[r] : ask = <<r, k>>
      BY DEF Sections, RunRequests
    <3>2. PICK k \in DOMAIN Program[r] : ask = <<r, k>>
      BY <3>1
    <3>3. DOMAIN Program[r] \subseteq Nat
      BY ProgramAssumption
    <3> QED
      BY <3>2, <3>3, FrontOfPair
  <2> QED
    BY <2>1 DEF New
<1> HIDE DEF L, M
<1>8. ASSUME NEW s \in Sections PROVE Waits(B, L, s)
  <2>1. Waits(A, L, s)
    BY <1>1 DEF Account
  <2> QED
    BY <1>5, <1>7, <2>1 DEF Waits, New, M
<1>9. ASSUME NEW s \in Sections PROVE Ends(B, L, s)
  <2>1. Ends(A, L, s)
    BY <1>1 DEF Account
  <2>2. CASE s = ask
    BY <1>7, <2>1, <2>2 DEF Ends, New, Unstarted, Signals, M
  <2>3. CASE s # ask
    BY <1>5, <2>1, <2>3 DEF Ends
  <2> QED
    BY <2>2, <2>3
<1>10. ASSUME NEW r \in Runs PROVE Fresh(B, L, r)
  BY <1>1, <1>3 DEF Account, Fresh
<1>11. Lined(B, L) /\ Guarded(B, L)
  BY <1>1, <1>3 DEF Account, Lined, Guarded
<1>12. Account(B, L)
  BY <1>1, <1>6, <1>8, <1>9, <1>10, <1>11 DEF Account
<1>13. Midway(q, B)
  BY <1>3, <1>12 DEF Midway, L
<1> QED
  BY <1>2, <1>3, <1>13, MidwaySpawnHead

\* The answer of a section that is not held lifts its fence.
LEMMA MidwayLift ==
  ASSUME NEW q \in Seq(Item), NEW A \in Reactor, NEW B, Midway(q, A), NEW d \in Sections,
         d \notin A.tasks, Over(d, q \o A.out),
         \/ B = [A EXCEPT !.fence = @ \ {d}]
         \/ B = [A EXCEPT !.tasks = @ \ {d}, !.fence = @ \ {d}]
  PROVE  Midway(q, SpawnHeadIfIdle(B))
<1> DEFINE L == q \o A.out
<1>1. /\ B \in Reactor /\ B.tasks = A.tasks /\ B.fence = A.fence \ {d} /\ B.run = A.run
      /\ B.queue = A.queue /\ B.out = A.out
  <2>1. CASE B = [A EXCEPT !.fence = @ \ {d}]
    BY <2>1 DEF Reactor
  <2>2. CASE B = [A EXCEPT !.tasks = @ \ {d}, !.fence = @ \ {d}]
    BY <2>2 DEF Reactor
  <2> QED
    BY <2>1, <2>2
<1>2. Account(A, L) /\ Spawned(B) = Spawned(A)
  BY <1>1 DEF Midway, Spawned
<1>3. Account(B, L)
  <2> DEFINE none == {}
  <2>1. /\ B.tasks = A.tasks \ none /\ Spawned(B) = Spawned(A) \ none /\ none \subseteq Sections
        /\ B.fence \subseteq A.fence /\ B.queue \subseteq A.queue
    BY <1>1, <1>2
  <2>2. \A s \in Sections : s \in none \/ s \in A.fence \ B.fence =>
           core[s].state \in Dead /\ ~Has(L, Ev("delegate", s))
    BY <1>1 DEF Over
  <2> HIDE DEF L, none
  <2> QED
    BY <1>1, <1>2, <2>1, <2>2, ForgetAccount
<1>4. Midway(q, B)
  BY <1>1, <1>3 DEF Midway
<1> QED
  BY <1>1, <1>4, MidwaySpawnHead

-----------------------------------------------------------------------------
(* What ends a run.                                                        *)

LEMMA MidwayOutcome ==
  ASSUME NEW q, NEW A \in Reactor, Midway(q, A), NEW r \in Runs, NEW to, to # "none"
  PROVE  Midway(q, Outcome(A, r, to))
<1>1. /\ Outcome(A, r, to).tasks = A.tasks /\ Outcome(A, r, to).fence = A.fence
      /\ Outcome(A, r, to).queue = A.queue /\ Outcome(A, r, to).out = A.out
      /\ \A u \in Runs : Outcome(A, r, to).run[u] = "none" => A.run[u] = "none"
  BY DEF Outcome, Reactor
<1> QED
  BY <1>1, MidwaySame

LEMMA MidwayRetire ==
  ASSUME NEW q, NEW A \in Reactor, Midway(q, A), NEW d
  PROVE  Midway(q, Retire(A, d)) /\ Retire(A, d) \in Reactor
         /\ Retire(A, d).tasks = A.tasks /\ Retire(A, d).fence = A.fence /\ Retire(A, d).out = A.out
<1>1. /\ Retire(A, d).tasks = A.tasks /\ Retire(A, d).fence = A.fence
      /\ Retire(A, d).queue = A.queue /\ Retire(A, d).out = A.out
      /\ \A u \in Runs : Retire(A, d).run[u] = "none" => A.run[u] = "none"
      /\ Retire(A, d) \in Reactor
  BY DEF Retire, Reactor
<1> QED
  BY <1>1, MidwaySame

LEMMA MidwayClosed ==
  ASSUME NEW q, NEW A \in Reactor, Midway(q, A), NEW r
  PROVE  Midway(q, Closed(A, r))
<1>1. /\ Closed(A, r).tasks = A.tasks /\ Closed(A, r).fence = A.fence
      /\ Closed(A, r).queue = A.queue /\ Closed(A, r).out = A.out
      /\ \A u \in Runs : Closed(A, r).run[u] = "none" => A.run[u] = "none"
  BY DEF Closed, Reactor
<1> QED
  BY <1>1, MidwaySame

LEMMA RootEvents ==
  ASSUME NEW r \in Runs
  PROVE  Ev("terminate", <<r>>) \in Item /\ Ev("terminate", <<r>>) \notin Marks
<1>1. <<r>> \notin Sections /\ <<r>> \in Delegations
  BY RootFacts
<1> QED
  BY <1>1, ItemsMade, EvFacts DEF Marks

LEMMA MidwayFail ==
  ASSUME NEW q \in Seq(Item), NEW A \in Reactor, Midway(q, A), NEW r \in Runs
  PROVE  Midway(q, Fail(A, <<r>>)) /\ Fail(A, <<r>>) \in Reactor
<1> DEFINE B == Retire(A, <<r>>)  C == Outcome(B, r, "error")
<1>1. Midway(q, B) /\ B \in Reactor
  BY MidwayRetire
<1> HIDE DEF B
<1>2. Midway(q, C) /\ C \in Reactor
  <2>1. C \in Reactor
    BY <1>1 DEF Outcome, Reactor, States, Terminal
  <2> QED
    BY <1>1, <2>1, MidwayOutcome
<1> HIDE DEF C
<1> DEFINE e == Ev("terminate", <<r>>)  D == Send(C, e)
<1>3. e \in Item /\ e \notin Marks
  BY RootEvents
<1> HIDE DEF e
<1>4. Midway(q, D)
  BY <1>2, <1>3, MidwaySend
<1>5. D \in Reactor
  <2>1. Append(C.out, e) \in Seq(Item)
    BY <1>2, <1>3 DEF Reactor
  <2> QED
    BY <1>2, <2>1 DEF Send, Reactor
<1>6. Fail(A, <<r>>) = IF Live(A, <<r>>) THEN D ELSE A
  BY RootFacts DEF Fail, e, C, B
<1> QED
  BY <1>4, <1>5, <1>6

LEMMA MidwayFailTask ==
  ASSUME NEW q \in Seq(Item), NEW A \in Reactor, Midway(q, A), NEW ask \in Sections
  PROVE  Midway(q, FailTask(A, ask))
<1>1. Raiser(ask) = <<RunOf(ask)>> /\ RunOf(ask) \in Runs
  BY SectionFacts
<1>2. Midway(q, Fail(A, Raiser(ask))) /\ Fail(A, Raiser(ask)) \in Reactor
  BY <1>1, MidwayFail
<1> QED
  BY <1>2, MidwayCleanup DEF FailTask

LEMMA MidwayFailDelegation ==
  ASSUME NEW q \in Seq(Item), NEW A \in Reactor, Midway(q, A), SecRows(A), NEW d \in Delegations
  PROVE  Midway(q, FailDelegation(A, d))
<1>1. CASE d \in A.tasks
  <2>1. d \in Sections
    BY <1>1 DEF Reactor
  <2> QED
    BY <1>1, <2>1, MidwayFailTask DEF FailDelegation
<1>2. CASE d \notin A.tasks /\ Live(A, d)
  <2>1. d \notin Sections
    BY <1>2 DEF SecRows, Live
  <2>2. d = <<RunOf(d)>> /\ RunOf(d) \in Runs
    BY <2>1, DelegationFacts
  <2>3. Midway(q, Fail(A, d)) /\ Fail(A, d) \in Reactor
    BY <2>2, MidwayFail
  <2>4. Midway(q, Cleanup(Fail(A, d), RunOf(d)))
    BY <2>3, MidwayCleanup
  <2> QED
    BY <1>2, <2>4 DEF FailDelegation
<1>3. CASE d \notin A.tasks /\ ~Live(A, d)
  BY <1>3 DEF FailDelegation
<1> QED
  BY <1>1, <1>2, <1>3
-----------------------------------------------------------------------------
(* Turns of the api reactor.                                               *)

LEMMA ItemForms ==
  ASSUME NEW i \in Item
  PROVE  /\ i.k \in Signals => i.d \in Delegations /\ i = Ev(i.k, i.d)
         /\ i.k = "escalate" => i.ask \in Asks /\ i = AskEv("escalate", i.ask)
<1>1. CASE i \in [k : {"start", "cancel", "failRun"}, d : Roots] \cup [k : {"kick"}, d : {<<>>}]
  BY <1>1 DEF Signals
<1>2. CASE i \in {AskEv(k, a) : k \in {"stored", "unstored", "escalate"}, a \in Asks}
  BY <1>2 DEF AskEv, Signals
<1>3. CASE i \in {[k |-> k, d |-> Raiser(a), ask |-> a, value |-> v] :
                    k \in {"answer", "escalateAck"}, a \in Asks, v \in Answers \cup {"done", "stored"}}
  BY <1>3 DEF Signals
<1>4. CASE i \in [k : {"delegate", "terminate", "delegateAck", "terminateAck"}, d : Delegations]
  BY <1>4 DEF Ev, Signals
<1> QED
  BY <1>1, <1>2, <1>3, <1>4 DEF Item

LEMMA MarkKinds == ASSUME NEW x \in Marks PROVE x.k \in Signals \cup {"escalate"} /\ IsEvent(x)
BY DEF Marks, Ev, AskEv, Signals, IsEvent, Events

\* A step that leaves the instances below alone changes the account as it changes
\* the reactor and the line.
LEMMA AccountPrimed ==
  ASSUME NEW A, NEW L, Account(A, L), core' = core,
         spent'.drops = 0 => spent.drops = 0, Undisturbed' => Undisturbed /\ loaded',
         api'.tasks = A.tasks, api'.fence = A.fence, api'.queue = A.queue, api'.run = A.run, Line' = L
  PROVE  Account(api, Line)'
<1>1. Queued(api)' = Queued(A) /\ Spawned(api)' = Spawned(A)
  BY DEF Queued, Spawned
<1>2. Held(api)'
  BY <1>1 DEF Account, Held
<1>3. ASSUME NEW s \in Sections PROVE Waits(api, Line, s)'
  <2>1. Waits(A, L, s)
    BY DEF Account
  <2> QED
    BY <1>1, <2>1 DEF Waits, Asked, Unstarted
<1>4. ASSUME NEW s \in Sections PROVE Ends(api, Line, s)'
  <2>1. Ends(A, L, s)
    BY DEF Account
  <2> QED
    BY <1>1, <2>1 DEF Ends
<1>5. ASSUME NEW d \in Delegations PROVE Starts(Line, d)'
  BY DEF Account, Starts
<1>6. ASSUME NEW r \in Runs PROVE Fresh(api, Line, r)'
  BY DEF Account, Fresh
<1>7. Lined(api, Line)'
  BY DEF Account, Lined, Due, Working, Hands
<1>8. Guarded(api, Line)'
  BY DEF Account, Guarded
<1> QED
  BY <1>2, <1>3, <1>4, <1>5, <1>6, <1>7, <1>8 DEF Account

LEMMA TurnAccount ==
  ASSUME IInv, loaded, bus # << >>, NEW B \in Reactor, Midway(Tail(bus), B), Commit(B), core' = core
  PROVE  SInv'
<1>1. /\ api' = [B EXCEPT !.out = <<>>] /\ bus' = Tail(bus) \o B.out
      /\ loaded' = loaded /\ spent' = spent
  BY DEF Commit
<1>2. api'.tasks = B.tasks /\ api'.fence = B.fence /\ api'.queue = B.queue /\ api'.run = B.run
  BY <1>1 DEF Reactor
<1>3. Line' = Tail(bus) \o B.out
  BY <1>1 DEF Line
<1>4. Account(B, Tail(bus) \o B.out)
  BY DEF Midway
<1>5. Account(api, Line)'
  <2>1. (spent'.drops = 0 => spent.drops = 0) /\ (Undisturbed' => Undisturbed /\ loaded')
    BY <1>1 DEF Undisturbed
  <2> QED
    BY <1>1, <1>2, <1>3, <1>4, <2>1, AccountPrimed
<1>6. Quiet'
  BY <1>1 DEF Quiet
<1> QED
  BY <1>5, <1>6 DEF SInv

\* The head of the line is taken by a turn of the api reactor.
LEMMA MidwayStart ==
  ASSUME IInv, SInv, loaded, bus # << >>, bus[1].k # "terminate"
  PROVE  /\ Tail(bus) \in Seq(Item) /\ Midway(Tail(bus), api)
         /\ Tail(bus) \o api.out = Tail(bus)
         /\ Account(api, bus) /\ api \in Reactor
<1>1. bus \in Seq(Item) /\ api \in Reactor /\ api.out = << >>
  BY DEF IInv, TypeOK
<1>2. Tail(bus) \in Seq(Item)
  BY <1>1
<1>3. Tail(bus) \o api.out = Tail(bus)
  <2> DEFINE q == Tail(bus)
  <2>1. q \in Seq(Item)
    BY <1>2
  <2> HIDE DEF q
  <2>2. q \o << >> = q
    BY <2>1
  <2> QED
    BY <1>1, <2>2 DEF q
<1>4. Account(api, bus)
  BY DEF SInv, Line
<1>5. \A s \in Sections : bus[1] # Ev("terminate", s)
  BY DEF Ev
<1>6. Thins(bus, Tail(bus))
  BY <1>1, <1>5, ThinTail
<1>7. Account(api, Tail(bus))
  BY <1>4, <1>6, ThinAccount
<1> QED
  BY <1>1, <1>2, <1>3, <1>4, <1>7 DEF Midway

LEMMA StartRunAccount ==
  ASSUME IInv, SInv, StartRun
  PROVE  SInv'
<1>1. loaded /\ bus # << >> /\ bus[1].k = "start" /\ core' = core
  BY DEF StartRun, At, Commit
<1>2. bus[1] \in Item /\ 1 \in DOMAIN bus
  BY <1>1, HeadFacts DEF IInv
<1>3. PICK r \in Runs : bus[1].d = <<r>>
  BY <1>1, <1>2, ItemFacts DEF Roots
<1>4. RunOf(bus[1].d) = r /\ <<r>> \in Delegations /\ <<r>> \notin Sections
  BY <1>3, RootFacts
<1>5. api.run[r] = "none"
  BY <1>1, <1>2, <1>3 DEF IInv, StartsOnce
<1> DEFINE q == Tail(bus)
           A == [Outcome(api, r, "running") EXCEPT !.rows = @ \cup {<<r>>}]
           e == Ev("delegate", <<r>>)
           B == Send(A, e)
           M == Append(q, e)
<1>6. q \in Seq(Item) /\ Midway(q, api) /\ Account(api, q) /\ api \in Reactor /\ api.out = << >>
  BY <1>1, MidwayStart DEF IInv, TypeOK, Midway
<1>7. /\ A \in Reactor /\ A.run = [api.run EXCEPT ![r] = "running"] /\ A.tasks = api.tasks
      /\ A.fence = api.fence /\ A.queue = api.queue /\ A.out = << >>
  BY <1>4, <1>6 DEF Outcome, Reactor, States
<1>8. Commit(B)
  BY <1>3, <1>4 DEF StartRun
<1>9. e \in Item
  BY <1>4, ItemsMade
<1> HIDE DEF A, e
<1>10. /\ B \in Reactor /\ B.run = A.run /\ B.tasks = A.tasks /\ B.fence = A.fence
       /\ B.queue = A.queue /\ B.out = <<e>>
  <2>1. Append(A.out, e) = <<e>> /\ <<e>> \in Seq(Item)
    BY <1>7, <1>9
  <2> QED
    BY <1>7, <2>1 DEF Send, Reactor
<1>11. q \o B.out = M
  <2> HIDE DEF B
  <2>1. q \o <<e>> = Append(q, e)
    BY <1>6, <1>9
  <2> QED
    BY <1>10, <2>1
<1> HIDE DEF B, q
<1>12. \A x, y : (Has(M, x) <=> Has(q, x) \/ x = e)
                 /\ (Precedes(M, x, y) <=> Precedes(q, x, y) \/ (Has(q, x) /\ y = e))
  BY <1>6, <1>9, OrderAppend
<1> HIDE DEF M
<1>13. \A s : s # <<r>> => \A k : Ev(k, s) # e
  BY EvFacts DEF e
<1>14. \A a : AskEv("escalate", a) # e
  BY EvFacts DEF e
<1>15. ASSUME NEW s \in Sections
       PROVE  /\ \A k \in Signals : Has(M, Ev(k, s)) <=> Has(q, Ev(k, s))
              /\ Asked(s, M) <=> Asked(s, q)
              /\ Unstarted(s, M) <=> Unstarted(s, q)
              /\ Due(s, M) <=> Due(s, q)
  <2>1. \A k \in Signals : Has(M, Ev(k, s)) <=> Has(q, Ev(k, s))
    BY <1>4, <1>12, <1>13
  <2> QED
    BY <1>12, <1>14, <2>1 DEF Asked, Unstarted, Due, Signals
<1>16. Queued(B) = Queued(api) /\ Spawned(B) = Spawned(api)
  BY <1>7, <1>10 DEF Queued, Spawned
<1>17. Held(B)
  BY <1>6, <1>7, <1>10, <1>16 DEF Account, Held
<1>18. ASSUME NEW s \in Sections PROVE Waits(B, M, s)
  BY <1>6, <1>15, <1>16 DEF Account, Waits
<1>19. ASSUME NEW s \in Sections PROVE Ends(B, M, s)
  <2>1. Ends(api, q, s)
    BY <1>6 DEF Account
  <2>2. s # <<r>>
    BY <1>4
  <2>3. /\ ~Precedes(M, AskEv("escalate", s), AskEv("escalate", s))
        /\ ~Precedes(M, Ev("terminate", s), Ev("delegate", s))
    BY <1>12, <1>13, <1>14, <2>1, <2>2 DEF Ends
  <2> QED
    BY <1>15, <1>16, <2>1, <2>3 DEF Ends, Signals
<1>20. ASSUME NEW d \in Delegations PROVE Starts(M, d)
  <2>1. Starts(q, d)
    BY <1>6 DEF Account
  <2>2. CASE d = <<r>>
    <3>1. core[d].state = "absent" /\ ~Has(q, Ev("delegate", d))
      BY <1>5, <1>6, <2>2 DEF Account, Fresh
    <3> QED
      BY <1>12, <2>1, <3>1 DEF Starts
  <2>3. CASE d # <<r>>
    BY <1>12, <1>13, <2>1, <2>3 DEF Starts
  <2> QED
    BY <2>2, <2>3
<1>21. ASSUME NEW u \in Runs PROVE Fresh(B, M, u)
  <2>1. Fresh(api, q, u)
    BY <1>6 DEF Account
  <2>2. B.run[u] = "none" => api.run[u] = "none" /\ u # r
    BY <1>6, <1>7, <1>10 DEF Reactor
  <2>3. u # r => <<u>> # <<r>>
    OBVIOUS
  <2> QED
    BY <1>12, <1>13, <2>1, <2>2, <2>3 DEF Fresh
<1>22. Lined(B, M)
  <2>1. ASSUME NEW s \in Sections, NEW t \in Sections PROVE Hands(q, s, t) => Hands(M, s, t)
    BY <1>12 DEF Hands
  <2> QED
    BY <1>6, <1>7, <1>10, <1>12, <1>15, <2>1 DEF Account, Lined
<1>23. Guarded(B, M)
  BY <1>6, <1>7, <1>10, <1>15 DEF Account, Guarded, Signals
<1>24. Midway(q, B)
  BY <1>11, <1>17, <1>18, <1>19, <1>20, <1>21, <1>22, <1>23 DEF Account, Midway
<1> QED
  BY <1>1, <1>8, <1>10, <1>24, TurnAccount DEF q
\* CancelRun, FailRun, AnswerEscalation, StoreAnswered, FailRunForStore and SpawnHead.
LEMMA CommandAccount ==
  ASSUME IInv, SInv,
         CancelRun \/ FailRun \/ AnswerEscalation \/ StoreAnswered \/ FailRunForStore \/ SpawnHead
  PROVE  SInv' /\ core' = core
<1> DEFINE q == Tail(bus)  d == bus[1].d  a == bus[1].ask
<1>1. loaded /\ bus # << >> /\ bus[1].k # "terminate" /\ core' = core
  BY DEF CancelRun, FailRun, AnswerEscalation, StoreAnswered, FailRunForStore, SpawnHead, At, Commit
<1>2. q \in Seq(Item) /\ Midway(q, api) /\ api \in Reactor /\ SecRows(api)
  BY <1>1, MidwayStart DEF IInv
<1>3. bus[1] \in Item
  BY <1>1, HeadFacts DEF IInv
<1>4. \A A \in Reactor : \A e \in Item : Send(A, e) \in Reactor
  <2> SUFFICES ASSUME NEW A \in Reactor, NEW e \in Item PROVE Send(A, e) \in Reactor
    OBVIOUS
  <2>1. Append(A.out, e) \in Seq(Item)
    BY DEF Reactor
  <2> QED
    BY <2>1 DEF Send, Reactor
<1>5. CASE CancelRun
  <2>1. bus[1].k = "cancel" /\ d \in Roots
    BY <1>3, <1>5, ItemFacts DEF CancelRun, At
  <2>2. PICK r \in Runs : d = <<r>>
    BY <2>1 DEF Roots
  <2> DEFINE A == Outcome(api, r, "cancelling")  e == Ev("terminate", <<r>>)
             B == IF Live(api, d) THEN Send(A, e) ELSE api
  <2>3. Commit(B)
    BY <1>5, <2>2, RootFacts DEF CancelRun
  <2>4. A \in Reactor /\ Midway(q, A)
    <3>1. A \in Reactor
      BY <1>2 DEF Outcome, Reactor, States
    <3> HIDE DEF q
    <3> QED
      BY <1>2, <3>1, MidwayOutcome
  <2> HIDE DEF A
  <2>5. e \in Item /\ e \notin Marks
    BY RootEvents
  <2> HIDE DEF e
  <2>6. B \in Reactor
    BY <1>2, <1>4, <2>4, <2>5
  <2>7. Midway(q, B)
    <3>1. Midway(q, Send(A, e))
      <4> HIDE DEF q
      <4> QED
        BY <1>2, <2>4, <2>5, MidwaySend
    <3> QED
      BY <1>2, <3>1
  <2> HIDE DEF B
  <2> QED
    BY <1>1, <2>3, <2>6, <2>7, TurnAccount
<1>6. CASE FailRun
  <2>1. bus[1].k = "failRun" /\ d \in Roots
    BY <1>3, <1>6, ItemFacts DEF FailRun, At
  <2>2. PICK r \in Runs : d = <<r>>
    BY <2>1 DEF Roots
  <2> DEFINE A == Fail(api, <<r>>)  B == IF Live(api, d) THEN Cleanup(A, r) ELSE api
  <2>3. Commit(B)
    BY <1>6, <2>2, RootFacts DEF FailRun
  <2>4. A \in Reactor /\ Midway(q, A) /\ SecRows(A)
    <3>1. A \in Reactor /\ Midway(q, A)
      <4> HIDE DEF q
      <4> QED
        BY <1>2, MidwayFail
    <3>2. SecRows(A)
      BY FailTurned DEF Turned
    <3> QED
      BY <3>1, <3>2
  <2> HIDE DEF A
  <2>5. Midway(q, B) /\ B \in Reactor
    <3> HIDE DEF q
    <3>1. Midway(q, Cleanup(A, r)) /\ Cleanup(A, r) \in Reactor
      BY <1>2, <2>4, MidwayCleanup, CleanupKeeps DEF Keeps
    <3> QED
      BY <1>2, <3>1
  <2> HIDE DEF B
  <2> QED
    BY <1>1, <2>3, <2>5, TurnAccount
<1>7. CASE AnswerEscalation
  <2> DEFINE A == [api EXCEPT !.open = @ \ {a}]  e == Ack(a, bus[1].value)
             B == IF a \in api.open THEN Send(A, e) ELSE api
  <2>1. bus[1].k = "answer" /\ Commit(B)
    BY <1>7 DEF AnswerEscalation, At
  <2>2. e \in Item /\ e \notin Marks
    BY <1>3, <2>1, ItemFacts, ItemsMade, MarkFacts
  <2>3. A \in Reactor /\ A.tasks = api.tasks /\ A.fence = api.fence /\ A.queue = api.queue
        /\ A.out = api.out /\ A.run = api.run
    BY <1>2 DEF Reactor
  <2> HIDE DEF A, e
  <2>4. Midway(q, B) /\ B \in Reactor
    <3> HIDE DEF q
    <3>1. Midway(q, A)
      BY <1>2, <2>3, MidwaySame
    <3>2. Midway(q, Send(A, e))
      BY <1>2, <2>2, <2>3, <3>1, MidwaySend
    <3> QED
      BY <1>2, <1>4, <2>2, <2>3, <3>2
  <2> HIDE DEF B
  <2> QED
    BY <1>1, <2>1, <2>4, TurnAccount
<1>8. CASE StoreAnswered
  <2> DEFINE e == Ack(a, "stored")  B == Send(api, e)
  <2>1. bus[1].k = "stored" /\ Commit(B)
    BY <1>8 DEF StoreAnswered, At
  <2>2. e \in Item /\ e \notin Marks
    BY <1>3, <2>1, ItemFacts, ItemsMade, MarkFacts
  <2> HIDE DEF e
  <2>3. Midway(q, B) /\ B \in Reactor
    <3> HIDE DEF q
    <3> QED
      BY <1>2, <1>4, <2>2, MidwaySend
  <2> HIDE DEF B
  <2> QED
    BY <1>1, <2>1, <2>3, TurnAccount
<1>9. CASE FailRunForStore
  <2> DEFINE B == FailDelegation(api, d)
  <2>1. bus[1].k = "unstored" /\ Commit(B)
    BY <1>9 DEF FailRunForStore, At
  <2>2. d \in Delegations
    BY <1>3, <2>1, ItemFacts, AskFacts
  <2> HIDE DEF d
  <2>3. Midway(q, B) /\ B \in Reactor
    <3> HIDE DEF q
    <3> QED
      BY <1>2, <2>2, MidwayFailDelegation, FailDelegationTurned DEF Turned
  <2> HIDE DEF B
  <2> QED
    BY <1>1, <2>1, <2>3, TurnAccount
<1>10. CASE SpawnHead
  <2> DEFINE B == SpawnHeadIfIdle(api)
  <2>1. Commit(B)
    BY <1>10 DEF SpawnHead
  <2>2. Midway(q, B) /\ B \in Reactor
    <3> HIDE DEF q
    <3> QED
      BY <1>2, MidwaySpawnHead, SpawnHeadKeeps DEF Keeps
  <2> HIDE DEF B
  <2> QED
    BY <1>1, <2>1, <2>2, TurnAccount
<1> QED
  BY <1>5, <1>6, <1>7, <1>8, <1>9, <1>10

\* What ends a run that the delegation d answered for.
LEMMA MidwayEnd ==
  ASSUME NEW q \in Seq(Item), Midway(q, api), api \in Reactor, SecRows(api), NEW d \in Delegations,
         NEW to \in Terminal
  PROVE  LET A1 == Cleanup(Retire(api, d), RunOf(d))
         IN Midway(q, Closed(IF Live(api, d) THEN Outcome(A1, RunOf(d), to) ELSE A1, RunOf(d)))
<1> DEFINE r == RunOf(d)  A == Retire(api, d)  A1 == Cleanup(A, r)
           B == IF Live(api, d) THEN Outcome(A1, r, to) ELSE A1
<1>1. Midway(q, A) /\ A \in Reactor /\ SecRows(A)
  BY MidwayRetire, RetireKeeps DEF Keeps
<1>2. r \in Runs
  BY DelegationFacts
<1> HIDE DEF A, r
<1>3. Midway(q, A1) /\ A1 \in Reactor
  BY <1>1, MidwayCleanup, CleanupKeeps DEF Keeps
<1> HIDE DEF A1
<1>4. Midway(q, B) /\ B \in Reactor
  <2>1. to # "none" /\ to \in States
    BY DEF Terminal, States
  <2>2. Midway(q, Outcome(A1, r, to)) /\ Outcome(A1, r, to) \in Reactor
    <3>1. Outcome(A1, r, to) \in Reactor
      BY <1>2, <1>3, <2>1 DEF Outcome, Reactor
    <3> QED
      BY <1>2, <1>3, <2>1, <3>1, MidwayOutcome
  <2> QED
    BY <1>3, <2>2
<1> HIDE DEF B
<1>5. Midway(q, Closed(B, r))
  BY <1>4, MidwayClosed
<1> QED
  BY <1>5 DEF A, A1, B, r

LEMMA DelegateAckAccount ==
  ASSUME IInv, SInv, DelegateAck
  PROVE  SInv' /\ core' = core
<1> DEFINE d == bus[1].d  A == Retire(api, d)  r == RunOf(d)  q == Tail(bus)
<1>1. loaded /\ bus # << >> /\ bus[1].k = "delegateAck" /\ core' = core
  BY DEF DelegateAck, At, Commit
<1>2. /\ q \in Seq(Item) /\ Midway(q, api) /\ api \in Reactor /\ SecRows(api)
      /\ q \o api.out = q /\ Account(api, bus)
  BY <1>1, MidwayStart DEF IInv
<1>3. bus[1] \in Item /\ 1 \in DOMAIN bus /\ bus \in Seq(Item)
  BY <1>1, HeadFacts DEF IInv, TypeOK
<1>4. d \in Delegations /\ bus[1] = Ev("delegateAck", d)
  BY <1>1, <1>3, ItemForms DEF Signals
<1>5. \A s \in Sections : d = s => Over(s, q)
  <2> SUFFICES ASSUME NEW s \in Sections, d = s PROVE Over(s, q)
    OBVIOUS
  <2>1. Has(bus, Ev("delegateAck", s))
    BY <1>3, <1>4 DEF Has
  <2>2. core[s].state \in Dead /\ ~Has(bus, Ev("delegate", s))
    BY <1>2, <2>1 DEF Account, Ends
  <2> QED
    BY <1>1, <1>3, <2>2, OrderTail DEF Over
<1> HIDE DEF q
<1>6. /\ Midway(q, A) /\ A \in Reactor /\ A.tasks = api.tasks /\ A.fence = api.fence
      /\ A.out = api.out /\ SecRows(A) /\ A.rows = api.rows \ {d}
  BY <1>2, MidwayRetire, RetireKeeps DEF Keeps
<1>7. CASE d \in api.tasks
  <2>1. d \in Sections
    BY <1>2, <1>7 DEF Reactor
  <2>2. Commit(CompleteTask(A, d))
    BY <1>7 DEF DelegateAck
  <2> HIDE DEF A, d
  <2>3. Midway(q, CompleteTask(A, d)) /\ CompleteTask(A, d) \in Reactor
    BY <1>2, <1>5, <1>6, <1>7, <2>1, MidwayComplete, CompleteTaskKeeps DEF Keeps
  <2> QED
    BY <1>1, <2>2, <2>3, TurnAccount DEF q
<1>8. CASE d \notin api.tasks /\ d \in api.fence
  <2> DEFINE B == [A EXCEPT !.fence = @ \ {d}]
  <2>1. Commit(SpawnHeadIfIdle(B))
    BY <1>8 DEF DelegateAck
  <2>2. SpawnHeadIfIdle(B) \in Reactor
    <3> HIDE DEF d
    <3> QED
      BY ForgetTurned DEF Turned
  <2>3. d \in Sections
    BY <1>2, <1>8 DEF Reactor
  <2> HIDE DEF A, d
  <2>4. Midway(q, SpawnHeadIfIdle(B))
    BY <1>2, <1>5, <1>6, <1>8, <2>3, MidwayLift
  <2> HIDE DEF B
  <2> QED
    BY <1>1, <2>1, <2>2, <2>4, TurnAccount DEF q
<1>9. CASE d \notin api.tasks /\ d \notin api.fence
  <2> DEFINE A1 == Cleanup(A, r)
             B == Closed(IF Live(api, d) THEN Outcome(A1, r, "done") ELSE A1, r)
  <2>1. Commit(B)
    BY <1>9 DEF DelegateAck
  <2>2. "done" \in Terminal
    BY DEF Terminal
  <2> HIDE DEF d
  <2>3. Live(api, d) => Moves(api.run[RunOf(d)], "done")
    BY <1>4, <1>9, LiveRoot DEF Moves
  <2>4. Midway(q, B)
    BY <1>2, <1>4, <2>2, MidwayEnd
  <2>5. B \in Reactor
    <3>1. Turned(B)
      BY <1>4, <1>9, <2>2, <2>3, EndTurned
    <3> HIDE DEF B
    <3> QED
      BY <3>1 DEF Turned
  <2> HIDE DEF B
  <2> QED
    BY <1>1, <2>1, <2>4, <2>5, TurnAccount DEF q
<1> QED
  BY <1>7, <1>8, <1>9
LEMMA TerminateAckAccount ==
  ASSUME IInv, SInv, TerminateAck
  PROVE  SInv' /\ core' = core
<1> DEFINE d == bus[1].d  A == Retire(api, d)  r == RunOf(d)  q == Tail(bus)
<1>1. loaded /\ bus # << >> /\ bus[1].k = "terminateAck" /\ core' = core
  BY DEF TerminateAck, At, Commit
<1>2. /\ q \in Seq(Item) /\ Midway(q, api) /\ api \in Reactor /\ SecRows(api)
      /\ q \o api.out = q /\ Account(api, bus)
  BY <1>1, MidwayStart DEF IInv
<1>3. bus[1] \in Item /\ 1 \in DOMAIN bus /\ bus \in Seq(Item) /\ bus[1] \in InFlight
  BY <1>1, HeadFacts DEF IInv, TypeOK
<1>4. d \in Delegations /\ bus[1] = Ev("terminateAck", d)
  BY <1>1, <1>3, ItemForms DEF Signals
<1>5. \A s \in Sections : d = s => Over(s, q) /\ s \notin api.tasks
  <2> SUFFICES ASSUME NEW s \in Sections, d = s PROVE Over(s, q) /\ s \notin api.tasks
    OBVIOUS
  <2>1. Has(bus, Ev("terminateAck", s))
    BY <1>3, <1>4 DEF Has
  <2>2. core[s].state \in Dead /\ ~Has(bus, Ev("delegate", s)) /\ s \notin Queued(api)
    BY <1>2, <2>1 DEF Account, Ends
  <2>3. s \notin api.tasks
    BY <1>2, <2>2 DEF Account, Held, Spawned, Queued
  <2> QED
    BY <1>1, <1>3, <2>2, <2>3, OrderTail DEF Over
<1> HIDE DEF q
<1>6. /\ Midway(q, A) /\ A \in Reactor /\ A.tasks = api.tasks /\ A.fence = api.fence
      /\ A.out = api.out /\ SecRows(A) /\ A.rows = api.rows \ {d}
  BY <1>2, MidwayRetire, RetireKeeps DEF Keeps
<1>7. CASE d \in api.tasks \cup api.fence
  <2> DEFINE B == [A EXCEPT !.tasks = @ \ {d}, !.fence = @ \ {d}]
  <2>1. Commit(SpawnHeadIfIdle(B))
    BY <1>7 DEF TerminateAck
  <2>2. SpawnHeadIfIdle(B) \in Reactor
    <3> HIDE DEF d
    <3> QED
      BY ForgetTurned DEF Turned
  <2>3. d \in Sections
    BY <1>2, <1>7 DEF Reactor
  <2> HIDE DEF A, d
  <2>4. Midway(q, SpawnHeadIfIdle(B))
    BY <1>2, <1>5, <1>6, <2>3, MidwayLift
  <2> HIDE DEF B
  <2> QED
    BY <1>1, <2>1, <2>2, <2>4, TurnAccount DEF q
<1>8. CASE d \notin api.tasks /\ d \notin api.fence
  <2> DEFINE A1 == Cleanup(A, r)
             B == Closed(IF Live(api, d) THEN Outcome(A1, r, "cancelled") ELSE A1, r)
  <2>1. Commit(B)
    BY <1>8 DEF TerminateAck
  <2>2. "cancelled" \in Terminal
    BY DEF Terminal
  <2>3. Live(api, d) => Moves(api.run[RunOf(d)], "cancelled")
    <3> SUFFICES ASSUME Live(api, d) PROVE Moves(api.run[r], "cancelled")
      OBVIOUS
    <3>1. d = <<r>> /\ r \in Runs /\ api.run[r] \in Alive
      BY <1>4, <1>8, LiveRoot
    <3>2. Stopping(r)
      BY <1>1, <1>3, <3>1 DEF Stopping, Stops
    <3>3. api.run[r] \in Stopped
      BY <3>1, <3>2 DEF IInv, StopsMeant
    <3> QED
      BY <3>1, <3>3 DEF Stopped, Alive, Terminal, Moves
  <2> HIDE DEF d
  <2>4. Midway(q, B)
    BY <1>2, <1>4, <2>2, MidwayEnd
  <2>5. B \in Reactor
    <3>1. Turned(B)
      BY <1>4, <1>8, <2>2, <2>3, EndTurned
    <3> HIDE DEF B
    <3> QED
      BY <3>1 DEF Turned
  <2> HIDE DEF B
  <2> QED
    BY <1>1, <2>1, <2>4, <2>5, TurnAccount DEF q
<1> QED
  BY <1>7, <1>8

LEMMA EscalateAccount ==
  ASSUME IInv, SInv, Escalate
  PROVE  SInv' /\ core' = core
<1> DEFINE a == bus[1].ask  kind == Request(a).kind  q == Tail(bus)
<1>1. loaded /\ bus # << >> /\ bus[1].k = "escalate" /\ core' = core
  BY DEF Escalate, At, Commit
<1>2. /\ q \in Seq(Item) /\ Midway(q, api) /\ api \in Reactor /\ SecRows(api)
      /\ q \o api.out = q /\ Account(api, bus)
  BY <1>1, MidwayStart DEF IInv
<1>3. bus[1] \in Item /\ 1 \in DOMAIN bus /\ bus \in Seq(Item)
  BY <1>1, HeadFacts DEF IInv, TypeOK
<1>4. a \in Asks /\ bus[1] = AskEv("escalate", a)
  BY <1>1, <1>3, ItemForms
<1>5. kind \in Kinds
  BY <1>4, KindFacts
<1>6. \A s \in Sections : a = s => New(api, q, s) /\ core[Raiser(s)].pc \in Nat
  <2> SUFFICES ASSUME NEW s \in Sections, a = s PROVE New(api, q, s) /\ core[Raiser(s)].pc \in Nat
    OBVIOUS
  <2>1. Asked(s, bus)
    BY <1>3, <1>4 DEF Has, Asked
  <2>2. ~(core[Raiser(s)].pc <= Last(s)) /\ s \notin Queued(api) /\ Unstarted(s, bus)
    BY <1>2, <2>1 DEF Account, Waits
  <2>3. ~Precedes(bus, AskEv("escalate", s), AskEv("escalate", s))
    BY <1>2 DEF Account, Ends
  <2>4. ~Asked(s, q)
    BY <1>1, <1>3, <1>4, <2>3, OrderTail DEF Asked
  <2>5. Unstarted(s, q)
    BY <1>1, <1>3, <2>2, OrderTail DEF Unstarted
  <2>6. core[Raiser(s)].pc \in Nat
    BY SectionFacts, RootFacts DEF IInv, TypeOK, Roots
  <2>7. Last(s) \in Nat
    <3>1. PICK r \in Runs : \E k \in DOMAIN Program[r] : s = <<r, k>>
      BY DEF Sections, RunRequests
    <3>2. PICK k \in DOMAIN Program[r] : s = <<r, k>>
      BY <3>1
    <3>3. DOMAIN Program[r] \subseteq Nat
      BY ProgramAssumption
    <3> QED
      BY <3>2, <3>3, FrontOfPair
  <2> QED
    BY <2>2, <2>4, <2>5, <2>6, <2>7 DEF New
<1> HIDE DEF q
<1>7. CASE kind = "store"
  <2>1. Commit(api)
    BY <1>7 DEF Escalate
  <2> QED
    BY <1>1, <1>2, <2>1, TurnAccount DEF q
<1>8. CASE kind = "exclusive"
  <2> DEFINE B == Exclusive(api, a)
  <2>1. Commit(B)
    BY <1>8 DEF Escalate
  <2> HIDE DEF a
  <2>2. B \in Reactor
    BY <1>4, <1>8, ExclusiveTurned DEF Turned
  <2>3. Midway(q, B)
    <3>1. CASE Raiser(a) \in api.tasks
      <4>1. Raiser(a) \in Sections
        BY <1>2, <3>1 DEF Reactor
      <4> QED
        BY <1>2, <3>1, <4>1, MidwayFailTask DEF Exclusive
    <3>2. CASE Raiser(a) \notin api.tasks /\ Live(api, Raiser(a))
      <4>1. Raiser(a) \in Roots
        BY <1>2, <1>4, <3>2, AskFacts, DelegationFacts DEF SecRows, Live
      <4>2. a \in Sections
        BY <1>4, <1>8, <4>1, AskFacts DEF Sections
      <4>3. Midway(q, Enqueue(api, a))
        BY <1>2, <1>6, <4>2, MidwayEnqueue
      <4> QED
        BY <3>2, <4>3 DEF Exclusive
    <3>3. CASE Raiser(a) \notin api.tasks /\ ~Live(api, Raiser(a))
      BY <1>2, <3>3 DEF Exclusive
    <3> QED
      BY <3>1, <3>2, <3>3
  <2> HIDE DEF B
  <2> QED
    BY <1>1, <2>1, <2>2, <2>3, TurnAccount DEF q
<1>9. CASE kind = "user"
  <2> DEFINE B == [api EXCEPT !.open = @ \cup {a}]
  <2>1. Commit(B)
    BY <1>9 DEF Escalate
  <2>2. a \in Of("user")
    BY <1>4, <1>9 DEF Of
  <2> HIDE DEF a
  <2>3. /\ B \in Reactor /\ B.tasks = api.tasks /\ B.queue = api.queue /\ B.fence = api.fence
        /\ B.run = api.run /\ B.out = api.out
    BY <1>2, <2>2 DEF Reactor
  <2> HIDE DEF B
  <2>4. Midway(q, B)
    BY <1>2, <2>3, MidwaySame
  <2> QED
    BY <1>1, <2>1, <2>3, <2>4, TurnAccount DEF q
<1>10. CASE kind = "failure"
  <2> DEFINE A == FailDelegation(api, Raiser(a))  B == Closed(A, RunOf(a))
  <2>1. Commit(B)
    BY <1>10 DEF Escalate
  <2> HIDE DEF a
  <2>2. Turned(A) /\ Turned(B) /\ Raiser(a) \in Delegations
    BY <1>4, AskFacts, FailDelegationTurned, ClosedTurned
  <2>3. Midway(q, A)
    BY <1>2, <2>2, MidwayFailDelegation
  <2>4. A \in Reactor /\ B \in Reactor
    <3> HIDE DEF A, B
    <3> QED
      BY <2>2 DEF Turned
  <2> HIDE DEF A
  <2>5. Midway(q, B)
    BY <2>3, <2>4, MidwayClosed
  <2> HIDE DEF B
  <2> QED
    BY <1>1, <2>1, <2>4, <2>5, TurnAccount DEF q
<1> QED
  BY <1>5, <1>7, <1>8, <1>9, <1>10 DEF Kinds
-----------------------------------------------------------------------------
(* The reactors below.                                                     *)

\* A section that was started is not started again, and stays gone.
Onward ==
  \A s \in Sections : core[s].state # "absent" =>
    /\ core'[s].state # "absent" /\ core'[s].pc >= core[s].pc
    /\ core[s].state = "gone" => core'[s].state = "gone"

LEMMA OnwardSame == ASSUME IInv, core' = core PROVE Onward
BY SectionFacts DEF Onward, IInv, TypeOK

Alike(a, b) == a = b \/ {a, b} \subseteq {"running", "asking"}

\* A step that leaves every instance where it was, and what the account is about.
LEMMA StillAccount ==
  ASSUME IInv, SInv, Thins(Line, Line'), Quiet',
         api' = api, spent'.drops = spent.drops, spent'.reloads = spent.reloads, loaded' = loaded,
         \A d \in Delegations : core'[d].pc = core[d].pc /\ Alike(core[d].state, core'[d].state)
  PROVE  SInv' /\ Onward
<1> DEFINE L == Line  M == Line'
<1>1. Account(api, L)
  BY DEF SInv
<1>2. Account(api, M)
  BY <1>1, ThinAccount
<1>3. \A d \in Delegations :
        /\ core'[d].state = "absent" <=> core[d].state = "absent"
        /\ core'[d].state = "stopping" <=> core[d].state = "stopping"
        /\ core'[d].state = "gone" <=> core[d].state = "gone"
        /\ core'[d].state \in Dead <=> core[d].state \in Dead
        /\ core'[d].state \in {"running", "asking"} <=> core[d].state \in {"running", "asking"}
        /\ core'[d].pc = core[d].pc
  BY DEF Alike, Dead
<1>4. \A s \in Sections : s \in Delegations /\ Raiser(s) \in Delegations
  BY SectionFacts, RootFacts DEF Roots
<1> HIDE DEF L
<1>5. Held(api)'
  BY <1>2 DEF Account, Held, Spawned
<1>6. ASSUME NEW s \in Sections PROVE Waits(api, Line, s)'
  <2>1. Waits(api, M, s)
    BY <1>2 DEF Account
  <2> QED
    BY <1>3, <1>4, <2>1 DEF Waits, Asked, Unstarted, Queued, Spawned
<1>7. ASSUME NEW s \in Sections PROVE Ends(api, Line, s)'
  <2>1. Ends(api, M, s)
    BY <1>2 DEF Account
  <2> QED
    BY <1>3, <1>4, <2>1 DEF Ends, Queued
<1>8. ASSUME NEW d \in Delegations PROVE Starts(Line, d)'
  <2>1. Starts(M, d)
    BY <1>2 DEF Account
  <2> QED
    BY <1>3, <2>1 DEF Starts
<1>9. ASSUME NEW r \in Runs PROVE Fresh(api, Line, r)'
  <2>1. Fresh(api, M, r)
    BY <1>2 DEF Account
  <2> QED
    BY <1>3, <2>1, RootFacts DEF Fresh
<1>10. Lined(api, Line)'
  <2>1. Lined(api, M)
    BY <1>2 DEF Account
  <2> QED
    BY <1>3, <1>4, <2>1 DEF Lined, Due, Working, Hands
<1>11. Guarded(api, Line)'
  <2>1. Guarded(api, M)
    BY <1>2 DEF Account
  <2> QED
    BY <1>3, <1>4, <2>1 DEF Guarded, Undisturbed
<1>12. Onward
  <2>1. \A s \in Sections : core[s].pc \in Nat
    BY SectionFacts DEF IInv, TypeOK
  <2> QED
    BY <1>3, <1>4, <2>1 DEF Onward
<1> QED
  BY <1>5, <1>6, <1>7, <1>8, <1>9, <1>10, <1>11, <1>12 DEF Account, SInv

LEMMA CoreIsAnsweredAccount ==
  ASSUME IInv, SInv, CoreIsAnswered
  PROVE  SInv' /\ Onward
<1>1. /\ bus # << >> /\ bus[1].k = "escalateAck" /\ bus' = Tail(bus) /\ loaded
      /\ api' = api /\ loaded' = loaded /\ spent' = spent
  BY DEF CoreIsAnswered, At, CoreTurn
<1>2. bus \in Seq(Item) /\ core \in CoreType
  BY DEF IInv, TypeOK, CoreType
<1>3. Thins(Line, Line') /\ Quiet'
  <2>1. \A s : bus[1] # Ev("terminate", s)
    BY <1>1 DEF Ev
  <2> QED
    BY <1>1, <1>2, <2>1, ThinTail DEF Line, Quiet
<1>4. \A d \in Delegations : core'[d].pc = core[d].pc /\ Alike(core[d].state, core'[d].state)
  <2> DEFINE e == Raiser(bus[1].ask)
  <2>1. core' = core \/ (core' = To(e, "running") /\ core[e].state = "asking")
    BY DEF CoreIsAnswered
  <2> HIDE DEF e
  <2> QED
    BY <1>2, <2>1 DEF To, CoreType, Alike
<1> QED
  BY <1>1, <1>3, <1>4, StillAccount

LEMMA CoreStartsAccount ==
  ASSUME IInv, SInv, CoreStarts
  PROVE  SInv' /\ Onward
<1> DEFINE d == bus[1].d  M == Tail(bus)
<1>1. /\ bus # << >> /\ bus[1].k = "delegate" /\ bus' = M /\ loaded
      /\ api' = api /\ loaded' = loaded /\ spent' = spent
      /\ core' = [core EXCEPT ![d] = [state |-> "running", pc |-> 1]]
  BY DEF CoreStarts, At, CoreTurn
<1>2. bus \in Seq(Item) /\ core \in CoreType /\ bus[1] \in Item /\ 1 \in DOMAIN bus
  BY <1>1, HeadFacts DEF IInv, TypeOK, CoreType
<1>3. d \in Delegations /\ bus[1] = Ev("delegate", d)
  BY <1>1, <1>2, ItemForms DEF Signals
<1>4. Account(api, bus) /\ Line' = M
  BY <1>1 DEF SInv, Line
<1> HIDE DEF d, M
<1>5. Has(bus, Ev("delegate", d))
  BY <1>2, <1>3 DEF Has
<1>6. core[d].state = "absent" /\ core[d].pc = 1 /\ ~Precedes(bus, Ev("delegate", d), Ev("delegate", d))
  BY <1>3, <1>4, <1>5 DEF Account, Starts
<1>7. \A x, y : (Has(M, x) => Has(bus, x)) /\ (Precedes(M, x, y) => Precedes(bus, x, y))
                /\ (x # Ev("delegate", d) => (Has(bus, x) => Has(M, x))
                                             /\ (Precedes(bus, x, y) => Precedes(M, x, y)))
  BY <1>1, <1>2, <1>3, OrderTail DEF M
<1>8. ~Has(M, Ev("delegate", d))
  BY <1>1, <1>2, <1>3, <1>6, OrderTail DEF M
<1>9. /\ \A e \in Delegations : e # d => core'[e] = core[e]
      /\ core'[d].state = "running" /\ core'[d].pc = 1
  BY <1>1, <1>2, <1>3 DEF CoreType
<1>10. \A e \in Delegations : core'[e].pc = core[e].pc
  BY <1>6, <1>9
<1>11. \A s \in Sections : s \in Delegations /\ Raiser(s) \in Delegations
  BY SectionFacts, RootFacts DEF Roots
<1>12. Held(api)'
  BY <1>1, <1>4 DEF Account, Held, Spawned
<1>13. ASSUME NEW s \in Sections PROVE Waits(api, Line, s)'
  <2>1. Waits(api, bus, s)
    BY <1>4 DEF Account
  <2>2. Asked(s, M) => Asked(s, bus)
    BY <1>7 DEF Asked
  <2>3. CASE s = d
    <3>1. ~Unstarted(s, bus)
      BY <1>5, <2>3 DEF Unstarted, Signals
    <3> QED
      BY <1>1, <1>4, <1>10, <1>11, <2>1, <2>2, <3>1 DEF Waits, Asked, Queued, Spawned
  <2>4. CASE s # d
    <3>1. Unstarted(s, bus) => Unstarted(s, M)
      BY <1>7 DEF Unstarted
    <3> QED
      BY <1>1, <1>4, <1>9, <1>10, <1>11, <2>1, <2>2, <2>4, <3>1 DEF Waits, Asked, Unstarted, Queued, Spawned
  <2> QED
    BY <2>3, <2>4
<1>14. ASSUME NEW s \in Sections PROVE Ends(api, Line, s)'
  <2>1. Ends(api, bus, s)
    BY <1>4 DEF Account
  <2>2. CASE s = d
    BY <1>1, <1>4, <1>5, <1>7, <1>9, <2>1, <2>2 DEF Ends, Queued
  <2>3. CASE s # d
    BY <1>1, <1>4, <1>7, <1>9, <1>11, <2>1, <2>3 DEF Ends, Queued
  <2> QED
    BY <2>2, <2>3
<1>15. ASSUME NEW e \in Delegations PROVE Starts(Line, e)'
  <2>1. Starts(bus, e)
    BY <1>4 DEF Account
  <2> QED
    BY <1>4, <1>7, <1>8, <1>9, <2>1 DEF Starts
<1>16. ASSUME NEW r \in Runs PROVE Fresh(api, Line, r)'
  <2>1. Fresh(api, bus, r) /\ <<r>> \in Delegations
    BY <1>4, RootFacts DEF Account
  <2> QED
    BY <1>1, <1>4, <1>5, <1>7, <1>9, <2>1 DEF Fresh
<1>17. \A s \in Sections :
         core'[s].state \in {"running", "asking"} \/ Has(M, Ev("delegate", s)) => Due(s, bus)
  BY <1>5, <1>7, <1>9, <1>11 DEF Due, Working
<1>18. \A s, t : Hands(bus, s, t) => Hands(M, s, t)
  BY <1>7, EvFacts DEF Hands
<1>19. \A s : Has(bus, Ev("terminate", s)) => Has(M, Ev("terminate", s))
  BY <1>7, EvFacts
<1>20. Lined(api, Line)'
  <2>1. Lined(api, bus)
    BY <1>4 DEF Account
  <2>2. \A s \in Sections : Due(s, Line)' => Due(s, bus)
    BY <1>4, <1>17 DEF Due, Working
  <2> QED
    BY <1>1, <1>4, <1>18, <1>19, <2>1, <2>2 DEF Lined, Hands
<1>21. Guarded(api, Line)'
  <2>1. Guarded(api, bus)
    BY <1>4 DEF Account
  <2> QED
    BY <1>1, <1>4, <1>5, <1>7, <1>9, <1>11, <2>1 DEF Guarded, Undisturbed
<1>22. Onward
  <2>1. \A s \in Sections : core[s].pc \in Nat
    BY SectionFacts DEF IInv, TypeOK
  <2> QED
    BY <1>6, <1>9, <1>11, <2>1 DEF Onward
<1> QED
  BY <1>1, <1>12, <1>13, <1>14, <1>15, <1>16, <1>20, <1>21, <1>22 DEF Account, SInv, Quiet
LEMMA CoreRaisesAccount ==
  ASSUME IInv, SInv, NEW d \in Delegations, CoreRaises(d)
  PROVE  SInv' /\ Onward
<1> DEFINE a == Append(d, core[d].pc)  e == AskEv("escalate", a)  M == Append(bus, e)
           to == IF Request(a).wait THEN "asking" ELSE "running"
<1>1. bus \in Seq(Item) /\ core \in CoreType
  BY DEF IInv, TypeOK, CoreType
<1>2. /\ loaded /\ core[d].state = "running" /\ core[d].pc <= Len(Body(d)) /\ core[d].pc \in Nat \ {0}
      /\ api' = api /\ loaded' = loaded /\ spent' = spent /\ bus' = M
      /\ core' = [core EXCEPT ![d] = [state |-> to, pc |-> core[d].pc + 1]]
  BY <1>1 DEF CoreRaises, CoreTurn, CoreType
<1>3. a \in Asks /\ Raiser(a) = d
  BY <1>2, RaisesFacts
<1>4. Last(a) = core[d].pc
  <2>1. \E S : d \in Seq(S) /\ core[d].pc \in S /\ d # << >>
    <3>1. CASE d \in Roots
      <4>1. PICK r \in Runs : d = <<r>>
        BY <3>1 DEF Roots
      <4>2. d \in Seq({r, core[d].pc}) /\ d # << >>
        BY <4>1
      <4> QED
        BY <4>2
    <3>2. CASE d \in Sections
      <4>1. PICK r \in Runs : \E k \in DOMAIN Program[r] : d = <<r, k>>
        BY <3>2 DEF Sections, RunRequests
      <4>2. PICK k \in DOMAIN Program[r] : d = <<r, k>>
        BY <4>1
      <4>3. d \in Seq({r, k, core[d].pc}) /\ d # << >>
        BY <4>2
      <4> QED
        BY <4>3
    <3> QED
      BY <3>1, <3>2, DelegationFacts
  <2>2. PICK S : d \in Seq(S) /\ core[d].pc \in S /\ d # << >>
    BY <2>1
  <2> QED
    BY <2>2, FrontOfAppend
<1>5. e \in Item
  BY <1>3, ItemsMade
<1>6. Account(api, bus) /\ Line' = M
  BY <1>2 DEF SInv, Line
<1>7. to \in {"asking", "running"}
  OBVIOUS
<1> HIDE DEF a, e, M, to
<1>8. \A x, y : (Has(M, x) <=> Has(bus, x) \/ x = e)
                /\ (Precedes(M, x, y) <=> Precedes(bus, x, y) \/ (Has(bus, x) /\ y = e))
  BY <1>1, <1>5, OrderAppend DEF M
<1>9. (\A k, s : Ev(k, s) # e) /\ (\A s : AskEv("escalate", s) = e <=> s = a)
  BY EvFacts DEF e
<1>10. \A k, s : Has(M, Ev(k, s)) <=> Has(bus, Ev(k, s))
  BY <1>8, <1>9
<1>11. \A s, t, j, k : Precedes(M, Ev(j, s), Ev(k, t)) <=> Precedes(bus, Ev(j, s), Ev(k, t))
  BY <1>8, <1>9
<1>12. /\ \A c \in Delegations : c # d => core'[c] = core[c]
       /\ core'[d].state = to /\ core'[d].pc = core[d].pc + 1
  BY <1>1, <1>2 DEF CoreType
<1>13. \A s \in Sections : /\ s \in Delegations /\ Raiser(s) \in Delegations /\ Raiser(s) # s
                           /\ Last(s) \in Nat
  <2> SUFFICES ASSUME NEW s \in Sections
               PROVE  s \in Delegations /\ Raiser(s) \in Delegations /\ Raiser(s) # s /\ Last(s) \in Nat
    OBVIOUS
  <2>1. PICK r \in Runs : \E k \in DOMAIN Program[r] : s = <<r, k>>
    BY DEF Sections, RunRequests
  <2>2. PICK k \in DOMAIN Program[r] : s = <<r, k>>
    BY <2>1
  <2>3. DOMAIN Program[r] \subseteq Nat
    BY ProgramAssumption
  <2>4. Last(s) \in Nat
    BY <2>2, <2>3, FrontOfPair
  <2> QED
    BY <2>4, SectionFacts, RootFacts DEF Roots
<1>14. Held(api)'
  BY <1>2, <1>6 DEF Account, Held, Spawned
<1>15. ASSUME NEW s \in Sections PROVE Waits(api, Line, s)'
  <2>1. Waits(api, bus, s)
    BY <1>6 DEF Account
  <2>2. Unstarted(s, bus) => core'[s].state = "absent" /\ \A k \in Signals : ~Has(M, Ev(k, s))
    BY <1>2, <1>10, <1>12, <1>13 DEF Unstarted
  <2>3. Queued(api)' = Queued(api) /\ Spawned(api)' = Spawned(api)
    BY <1>2 DEF Queued, Spawned
  <2>4. CASE s = a
    <3>1. s \notin Queued(api) /\ Unstarted(s, bus)
      BY <1>2, <1>3, <1>4, <2>1, <2>4 DEF Waits
    <3>2. ~(core'[Raiser(s)].pc <= Last(s))
      BY <1>2, <1>3, <1>4, <1>12, <2>4
    <3> QED
      BY <1>6, <2>2, <2>3, <3>1, <3>2 DEF Waits, Unstarted
  <2>5. CASE s # a
    <3>1. Has(M, AskEv("escalate", s)) <=> Has(bus, AskEv("escalate", s))
      BY <1>8, <1>9, <2>5
    <3>2. core'[Raiser(s)].pc <= Last(s) => core[Raiser(s)].pc <= Last(s)
      BY <1>2, <1>12, <1>13
    <3> QED
      BY <1>6, <2>1, <2>2, <2>3, <3>1, <3>2 DEF Waits, Unstarted, Asked
  <2> QED
    BY <2>4, <2>5
<1>16. ASSUME NEW s \in Sections PROVE Ends(api, Line, s)'
  <2>1. Ends(api, bus, s) /\ Waits(api, bus, s)
    BY <1>6 DEF Account
  <2>2. ~Precedes(M, AskEv("escalate", s), AskEv("escalate", s))
    <3>1. CASE s = a
      <4>1. ~Has(bus, AskEv("escalate", s))
        BY <1>2, <1>3, <1>4, <2>1, <3>1 DEF Waits, Asked
      <4> QED
        BY <1>8, <2>1, <4>1 DEF Ends
    <3>2. CASE s # a
      BY <1>8, <1>9, <2>1, <3>2 DEF Ends
    <3> QED
      BY <3>1, <3>2
  <2>3. core[s].state \in Dead \/ core[s].state = "stopping" => core'[s] = core[s]
    BY <1>2, <1>12, <1>13 DEF Dead
  <2>4. core'[s].state = "stopping" => core[s].state = "stopping"
    BY <1>2, <1>7, <1>12, <1>13
  <2> QED
    BY <1>2, <1>6, <1>10, <1>11, <2>1, <2>2, <2>3, <2>4 DEF Ends, Queued
<1>17. ASSUME NEW c \in Delegations PROVE Starts(Line, c)'
  <2>1. Starts(bus, c)
    BY <1>6 DEF Account
  <2>2. core'[c].state = "absent" => c # d
    BY <1>7, <1>12
  <2> QED
    BY <1>2, <1>6, <1>10, <1>11, <1>12, <2>1, <2>2 DEF Starts
<1>18. ASSUME NEW r \in Runs PROVE Fresh(api, Line, r)'
  <2>1. Fresh(api, bus, r) /\ <<r>> \in Delegations
    BY <1>6, RootFacts DEF Account
  <2> QED
    BY <1>2, <1>6, <1>10, <1>12, <2>1 DEF Fresh
<1>19. \A s \in Sections : core'[s].state \in {"running", "asking"} => Working(s)
  BY <1>2, <1>12, <1>13 DEF Working
<1>20. Lined(api, Line)'
  <2>1. Lined(api, bus)
    BY <1>6 DEF Account
  <2> QED
    BY <1>2, <1>6, <1>10, <1>11, <1>19, <2>1 DEF Lined, Due, Working, Hands
<1>21. Guarded(api, Line)'
  <2>1. Guarded(api, bus)
    BY <1>6 DEF Account
  <2>2. \A s \in Sections : core'[s].state \notin Dead => core[s].state \notin Dead
    BY <1>2, <1>12, <1>13 DEF Dead
  <2> QED
    BY <1>2, <1>6, <1>10, <2>1, <2>2 DEF Guarded, Undisturbed
<1>22. Onward
  <2>1. \A s \in Sections : core[s].pc \in Nat
    BY SectionFacts DEF IInv, TypeOK
  <2> QED
    BY <1>2, <1>7, <1>12, <1>13, <2>1 DEF Onward
<1> QED
  BY <1>2, <1>14, <1>15, <1>16, <1>17, <1>18, <1>20, <1>21, <1>22 DEF Account, SInv, Quiet

\* An instance ends with its result, or with the terminate it was told.
LEMMA CoreEndsAccount ==
  ASSUME IInv, SInv, NEW d \in Delegations, CoreReturns(d) \/ CoreStops(d)
  PROVE  SInv' /\ Onward
<1> DEFINE e == IF CoreReturns(d) THEN Ev("delegateAck", d) ELSE Ev("terminateAck", d)
           M == Append(bus, e)
<1>1. bus \in Seq(Item) /\ core \in CoreType
  BY DEF IInv, TypeOK, CoreType
<1>2. /\ loaded /\ api' = api /\ loaded' = loaded /\ spent' = spent
      /\ core[d].state \in {"running", "stopping"}
      /\ core' = [core EXCEPT ![d].state = "gone"]
  BY DEF CoreReturns, CoreStops, CoreTurn, To
<1>3. \/ bus' = M /\ e = Ev("delegateAck", d)
      \/ bus' = M /\ e = Ev("terminateAck", d) /\ core[d].state = "stopping"
  BY DEF CoreReturns, CoreStops, CoreTurn
<1>4. e \in Item
  BY <1>3, ItemsMade
<1>5. Account(api, bus) /\ Line' = M
  BY <1>2, <1>3 DEF SInv, Line
<1> HIDE DEF e, M
<1>6. \A x, y : (Has(M, x) <=> Has(bus, x) \/ x = e)
                /\ (Precedes(M, x, y) <=> Precedes(bus, x, y) \/ (Has(bus, x) /\ y = e))
  BY <1>1, <1>4, OrderAppend DEF M
<1>7. /\ \A s : Ev("delegate", s) # e /\ Ev("terminate", s) # e /\ AskEv("escalate", s) # e
      /\ \A s, k : Ev(k, s) = e => s = d
      /\ Ev("terminateAck", d) = e => core[d].state = "stopping"
  BY <1>3, EvFacts
<1>8. \A s, t : /\ Has(M, Ev("delegate", s)) <=> Has(bus, Ev("delegate", s))
                /\ Has(M, Ev("terminate", s)) <=> Has(bus, Ev("terminate", s))
                /\ Has(M, AskEv("escalate", s)) <=> Has(bus, AskEv("escalate", s))
                /\ Hands(M, s, t) <=> Hands(bus, s, t)
                /\ Precedes(M, Ev("delegate", s), Ev("delegate", t)) <=>
                     Precedes(bus, Ev("delegate", s), Ev("delegate", t))
                /\ Precedes(M, AskEv("escalate", s), AskEv("escalate", t)) <=>
                     Precedes(bus, AskEv("escalate", s), AskEv("escalate", t))
  BY <1>6, <1>7 DEF Hands
<1>9. \A s : s # d => \A k : Has(M, Ev(k, s)) <=> Has(bus, Ev(k, s))
  BY <1>6, <1>7
<1>10. /\ \A c \in Delegations : c # d => core'[c] = core[c]
       /\ \A c \in Delegations : core'[c].pc = core[c].pc
       /\ core'[d].state = "gone"
  BY <1>1, <1>2 DEF CoreType
<1>11. \A s \in Sections : s \in Delegations /\ Raiser(s) \in Delegations
  BY SectionFacts, RootFacts DEF Roots
<1>12. ~Has(bus, Ev("delegate", d))
  BY <1>2, <1>5 DEF Account, Starts
<1>13. Held(api)' /\ Queued(api)' = Queued(api) /\ Spawned(api)' = Spawned(api)
  BY <1>2, <1>5 DEF Account, Held, Spawned, Queued
<1>14. ASSUME NEW s \in Sections PROVE Waits(api, Line, s)'
  <2>1. Waits(api, bus, s)
    BY <1>5 DEF Account
  <2>2. Unstarted(s, bus) => core'[s].state = "absent" /\ \A k \in Signals : ~Has(M, Ev(k, s))
    <3>1. Unstarted(s, bus) => s # d
      BY <1>2 DEF Unstarted
    <3> QED
      BY <1>9, <1>10, <1>11, <3>1 DEF Unstarted
  <2> QED
    BY <1>5, <1>8, <1>10, <1>11, <1>13, <2>1, <2>2 DEF Waits, Asked, Unstarted
<1>15. ASSUME NEW s \in Sections PROVE Ends(api, Line, s)'
  <2>1. Ends(api, bus, s)
    BY <1>5 DEF Account
  <2>2. CASE s = d
    BY <1>5, <1>6, <1>7, <1>8, <1>10, <1>12, <1>13, <2>1, <2>2 DEF Ends, Dead, Hands
  <2>3. CASE s # d
    BY <1>5, <1>8, <1>9, <1>10, <1>11, <1>13, <2>1, <2>3 DEF Ends, Hands
  <2> QED
    BY <2>2, <2>3
<1>16. ASSUME NEW c \in Delegations PROVE Starts(Line, c)'
  <2>1. Starts(bus, c)
    BY <1>5 DEF Account
  <2> QED
    BY <1>5, <1>8, <1>10, <1>12, <2>1 DEF Starts
<1>17. ASSUME NEW r \in Runs PROVE Fresh(api, Line, r)'
  <2>1. Fresh(api, bus, r) /\ <<r>> \in Delegations
    BY <1>5, RootFacts DEF Account
  <2> QED
    BY <1>2, <1>5, <1>8, <1>10, <2>1 DEF Fresh
<1>18. \A s \in Sections : core'[s].state \notin Dead => core'[s] = core[s]
  BY <1>10, <1>11 DEF Dead
<1>19. Lined(api, Line)'
  <2>1. Lined(api, bus)
    BY <1>5 DEF Account
  <2>2. \A s \in Sections : Due(s, Line)' => Due(s, bus)
    BY <1>5, <1>8, <1>18 DEF Due, Working, Dead
  <2> QED
    BY <1>2, <1>5, <1>8, <2>1, <2>2 DEF Lined, Hands
<1>20. Guarded(api, Line)'
  <2>1. Guarded(api, bus)
    BY <1>5 DEF Account
  <2> QED
    BY <1>2, <1>5, <1>8, <1>18, <2>1 DEF Guarded, Undisturbed
<1>21. Onward
  <2>1. \A s \in Sections : core[s].pc \in Nat
    BY SectionFacts DEF IInv, TypeOK
  <2> QED
    BY <1>10, <1>11, <2>1 DEF Onward
<1> QED
  BY <1>2, <1>13, <1>14, <1>15, <1>16, <1>17, <1>19, <1>20, <1>21 DEF Account, SInv, Quiet
LEMMA CoreTerminatesAccount ==
  ASSUME IInv, SInv, CoreTerminates
  PROVE  SInv' /\ Onward
<1> DEFINE d == bus[1].d  q == Tail(bus)  e == Ev("terminateAck", d)
           dead == core[d].state \in Dead
           M == IF dead THEN Append(q, e) ELSE q
<1>1. bus \in Seq(Item) /\ core \in CoreType
  BY DEF IInv, TypeOK, CoreType
<1>2. /\ bus # << >> /\ bus[1].k = "terminate" /\ loaded
      /\ api' = api /\ loaded' = loaded /\ spent' = spent /\ bus' = M
      /\ core' = IF dead THEN core ELSE [core EXCEPT ![d].state = "stopping"]
  BY DEF CoreTerminates, At, CoreTurn, To
<1>3. bus[1] \in Item /\ 1 \in DOMAIN bus
  BY <1>2, HeadFacts DEF IInv
<1>4. d \in Delegations /\ bus[1] = Ev("terminate", d)
  BY <1>2, <1>3, ItemForms DEF Signals
<1>5. q \in Seq(Item) /\ e \in Item
  BY <1>1, <1>2, <1>4, ItemsMade
<1>6. Account(api, bus) /\ Line' = M
  BY <1>2 DEF SInv, Line
<1>7. Has(bus, Ev("terminate", d))
  BY <1>3, <1>4 DEF Has
<1>8. \A x, y : /\ Has(bus, x) <=> x = Ev("terminate", d) \/ Has(q, x)
                /\ Precedes(bus, x, y) <=> (x = Ev("terminate", d) /\ Has(q, y)) \/ Precedes(q, x, y)
  BY <1>1, <1>2, <1>4, OrderTail
<1> HIDE DEF d, q
<1>9. \A x, y : x # e /\ y # e => /\ Has(M, x) <=> Has(q, x)
                                  /\ Precedes(M, x, y) <=> Precedes(q, x, y)
  BY <1>5, OrderAppend
<1>10. Has(M, e) => dead \/ Has(q, e)
  OBVIOUS
<1> HIDE DEF M, e, dead
<1>11. /\ \A s : Ev("delegate", s) # e /\ Ev("terminate", s) # e /\ AskEv("escalate", s) # e
                 /\ Ev("delegateAck", s) # e
       /\ \A s, k : Ev(k, s) = e => s = d /\ k = "terminateAck"
       /\ e = Ev("terminateAck", d)
  BY EvFacts DEF e
<1>12. \A s, t : /\ Has(M, Ev("delegate", s)) => Has(bus, Ev("delegate", s))
                 /\ Has(M, Ev("terminate", s)) => Has(bus, Ev("terminate", s))
                 /\ Has(M, Ev("delegateAck", s)) => Has(bus, Ev("delegateAck", s))
                 /\ Has(M, AskEv("escalate", s)) => Has(bus, AskEv("escalate", s))
                 /\ Hands(M, s, t) => Hands(bus, s, t)
                 /\ Precedes(M, Ev("delegate", s), Ev("delegate", t)) =>
                      Precedes(bus, Ev("delegate", s), Ev("delegate", t))
                 /\ Precedes(M, AskEv("escalate", s), AskEv("escalate", t)) =>
                      Precedes(bus, AskEv("escalate", s), AskEv("escalate", t))
  BY <1>8, <1>9, <1>11 DEF Hands
<1>13. ASSUME NEW s, s # d
       PROVE  /\ \A k : Has(M, Ev(k, s)) => Has(bus, Ev(k, s))
              /\ Has(bus, Ev("terminate", s)) => Has(M, Ev("terminate", s))
              /\ \A t : Hands(bus, s, t) => Hands(M, s, t)
  <2>1. \A k : Ev(k, s) # e /\ Ev(k, s) # Ev("terminate", d)
    BY <1>11, <1>13, EvFacts
  <2> QED
    BY <1>8, <1>9, <1>11, <2>1 DEF Hands
<1>14. d \in Sections => d \notin Queued(api) /\ ~Has(M, Ev("delegate", d))
  <2> SUFFICES ASSUME d \in Sections PROVE d \notin Queued(api) /\ ~Has(M, Ev("delegate", d))
    OBVIOUS
  <2>1. d \notin Queued(api) /\ ~Precedes(bus, Ev("terminate", d), Ev("delegate", d))
    BY <1>6, <1>7 DEF Account, Ends
  <2> QED
    BY <1>8, <1>9, <1>11, <2>1
<1>15. /\ \A c \in Delegations : core'[c].pc = core[c].pc
       /\ \A c \in Delegations : c # d => core'[c] = core[c]
       /\ dead => core' = core
       /\ ~dead => core'[d].state = "stopping"
       /\ dead <=> core[d].state \in Dead
  BY <1>1, <1>2, <1>4 DEF CoreType, dead
<1>16. \A s \in Sections : s \in Delegations /\ Raiser(s) \in Delegations
  BY SectionFacts, RootFacts DEF Roots
<1>17. Held(api)' /\ Queued(api)' = Queued(api) /\ Spawned(api)' = Spawned(api)
  BY <1>2, <1>6 DEF Account, Held, Spawned, Queued
<1>18. ASSUME NEW s \in Sections PROVE Waits(api, Line, s)'
  <2>1. Waits(api, bus, s)
    BY <1>6 DEF Account
  <2>2. Unstarted(s, bus) => core'[s].state = "absent" /\ \A k \in Signals : ~Has(M, Ev(k, s))
    <3>1. Unstarted(s, bus) => s # d
      BY <1>7 DEF Unstarted, Signals
    <3> QED
      BY <1>13, <1>15, <1>16, <3>1 DEF Unstarted
  <2> QED
    BY <1>6, <1>12, <1>15, <1>16, <1>17, <2>1, <2>2 DEF Waits, Asked, Unstarted
<1>19. ASSUME NEW s \in Sections PROVE Ends(api, Line, s)'
  <2>1. Ends(api, bus, s)
    BY <1>6 DEF Account
  <2>2. /\ ~Precedes(M, AskEv("escalate", s), AskEv("escalate", s))
        /\ ~Precedes(M, Ev("terminate", s), Ev("delegate", s))
    BY <1>12, <2>1 DEF Ends, Hands
  <2>3. CASE s = d
    <3>1. Has(M, Ev("delegateAck", s)) \/ Has(M, Ev("terminateAck", s)) => dead
      <4>1. Has(M, Ev("delegateAck", s)) => dead
        BY <1>12, <1>15, <2>1, <2>3 DEF Ends
      <4>2. Has(q, e) => dead
        BY <1>8, <1>11, <1>15, <2>1, <2>3 DEF Ends
      <4> QED
        BY <1>10, <1>11, <2>3, <4>1, <4>2
    <3> QED
      BY <1>6, <1>14, <1>15, <1>17, <2>2, <2>3, <3>1 DEF Ends
  <2>4. CASE s # d
    BY <1>6, <1>12, <1>13, <1>15, <1>16, <1>17, <2>1, <2>2, <2>4 DEF Ends
  <2> QED
    BY <2>3, <2>4
<1>20. ASSUME NEW c \in Delegations PROVE Starts(Line, c)'
  <2>1. Starts(bus, c)
    BY <1>6 DEF Account
  <2>2. core'[c].state = "absent" <=> core[c].state = "absent"
    BY <1>15 DEF Dead
  <2> QED
    BY <1>6, <1>12, <1>15, <2>1, <2>2 DEF Starts
<1>21. ASSUME NEW r \in Runs PROVE Fresh(api, Line, r)'
  <2>1. Fresh(api, bus, r) /\ <<r>> \in Delegations
    BY <1>6, RootFacts DEF Account
  <2>2. core'[<<r>>].state = "absent" <=> core[<<r>>].state = "absent"
    BY <1>15, <2>1 DEF Dead
  <2> QED
    BY <1>2, <1>6, <1>12, <2>1, <2>2 DEF Fresh
<1>22. \A s \in Sections : core'[s].state \in {"running", "asking"} \/ Has(M, Ev("delegate", s)) =>
          Due(s, bus) /\ s # d
  <2> SUFFICES ASSUME NEW s \in Sections,
                      core'[s].state \in {"running", "asking"} \/ Has(M, Ev("delegate", s))
               PROVE  Due(s, bus) /\ s # d
    OBVIOUS
  <2>1. s # d
    BY <1>14, <1>15 DEF Dead
  <2> QED
    BY <1>12, <1>15, <1>16, <2>1 DEF Due, Working
<1>23. Lined(api, Line)'
  <2>1. Lined(api, bus)
    BY <1>6 DEF Account
  <2> QED
    BY <1>2, <1>6, <1>13, <1>22, <2>1 DEF Lined, Due, Working, Hands
<1>24. Guarded(api, Line)'
  <2>1. Guarded(api, bus)
    BY <1>6 DEF Account
  <2>2. \A s \in Sections : core'[s].state \notin Dead => core[s].state \notin Dead
    BY <1>15, <1>16
  <2> QED
    BY <1>2, <1>6, <1>12, <2>1, <2>2 DEF Guarded, Undisturbed
<1>25. Onward
  <2>1. \A s \in Sections : core[s].pc \in Nat
    BY SectionFacts DEF IInv, TypeOK
  <2> QED
    BY <1>15, <1>16, <2>1 DEF Onward, Dead
<1> QED
  BY <1>2, <1>17, <1>18, <1>19, <1>20, <1>21, <1>23, <1>24, <1>25 DEF Account, SInv, Quiet

-----------------------------------------------------------------------------
(* Users, the store, and the warm state.                                   *)

Metered == spent \in [plan : Plans, reloads : Nat, drops : Nat, cancels : Nat, answers : Nat]

\* Outside the loop, commands are submitted: the account is not about them.
LEMMA SubmitAccount ==
  ASSUME IInv, SInv, NEW e \in Item, ~IsEvent(e), bus' = Append(bus, e),
         api' = api, loaded' = loaded, outbox' = outbox, core' = core,
         spent'.drops = spent.drops, spent'.reloads = spent.reloads
  PROVE  SInv' /\ Onward
<1>1. bus \in Seq(Item) /\ loaded \in BOOLEAN
  BY DEF IInv, TypeOK
<1>2. e \notin Marks
  BY MarkKinds
<1>3. Thins(Line, Line')
  <2>1. CASE loaded
    BY <1>1, <1>2, <2>1, ThinAppend DEF Line
  <2>2. CASE ~loaded
    BY <1>1, <2>2, ThinSame DEF Line
  <2> QED
    BY <2>1, <2>2
<1>4. Quiet'
  <2>1. \A n \in DOMAIN Append(bus, e) : Append(bus, e)[n] = e \/ (n \in DOMAIN bus /\ Append(bus, e)[n] = bus[n])
    BY <1>1
  <2> QED
    BY <2>1 DEF SInv, Quiet, IsEvent
<1>5. \A d \in Delegations : core'[d].pc = core[d].pc /\ Alike(core[d].state, core'[d].state)
  BY DEF Alike
<1> QED
  BY <1>3, <1>4, <1>5, StillAccount

LEMMA OutsideAccount ==
  ASSUME IInv, SInv, Metered, User \/ StoreStep
  PROVE  SInv' /\ Onward
<1>1. CASE \E r \in Runs : UserStarts(r)
  <2>1. PICK r \in Runs : UserStarts(r)
    BY <1>1
  <2>2. Ev("start", <<r>>) \in Item /\ ~IsEvent(Ev("start", <<r>>))
    BY ItemsMade DEF IsEvent, Events, Ev
  <2> QED
    BY <2>1, <2>2, SubmitAccount DEF UserStarts, Submit
<1>2. CASE \E r \in Runs : UserCancels(r)
  <2>1. PICK r \in Runs : UserCancels(r)
    BY <1>2
  <2>2. Ev("cancel", <<r>>) \in Item /\ ~IsEvent(Ev("cancel", <<r>>))
    BY ItemsMade DEF IsEvent, Events, Ev
  <2>3. spent'.drops = spent.drops /\ spent'.reloads = spent.reloads
    BY <2>1 DEF UserCancels, Metered
  <2> QED
    BY <2>1, <2>2, <2>3, SubmitAccount DEF UserCancels, Submit
<1>3. CASE \E a \in Of("user"), value \in Answers : UserAnswers(a, value)
  <2>1. PICK a \in Of("user"), value \in Answers : UserAnswers(a, value)
    BY <1>3
  <2> DEFINE e == [k |-> "answer", d |-> Raiser(a), ask |-> a, value |-> value]
  <2>2. e \in Item /\ ~IsEvent(e)
    BY ItemsMade DEF IsEvent, Events, Of
  <2>3. spent'.drops = spent.drops /\ spent'.reloads = spent.reloads
    BY <2>1 DEF UserAnswers, Metered
  <2>4. bus' = Append(bus, e)
    BY <2>1 DEF UserAnswers, Submit
  <2> HIDE DEF e
  <2> QED
    BY <2>1, <2>2, <2>3, <2>4, SubmitAccount DEF UserAnswers
<1>4. CASE StoreStep
  <2>1. PICK a \in Asks : StoreLands(a)
    BY <1>4 DEF StoreStep
  <2>2. PICK k \in {"stored", "unstored"} : bus' = Append(bus, AskEv(k, a))
    BY <2>1 DEF StoreLands, Submit
  <2>3. AskEv(k, a) \in Item /\ ~IsEvent(AskEv(k, a))
    BY ItemsMade DEF IsEvent, Events, AskEv
  <2> QED
    BY <2>1, <2>2, <2>3, SubmitAccount DEF StoreLands
<1> QED
  BY <1>1, <1>2, <1>3, <1>4 DEF User
-----------------------------------------------------------------------------
(* The rows of what was committed hold its events, in their order.         *)

LEMMA RowsOfOrder ==
  ASSUME NEW b \in Seq(Item), NEW rows \in RowsOf(b), NEW x, NEW y, IsEvent(x), IsEvent(y)
  PROVE  /\ Has(rows, x) <=> Has(b, x)
         /\ Precedes(rows, x, y) <=> Precedes(b, x, y)
         /\ Leads(b, x, y) => Leads(rows, x, y)
<1> DEFINE places == {i \in DOMAIN b : IsEvent(b[i])}
           N == Cardinality(places)
<1>1. DOMAIN b = 1..Len(b) /\ Len(b) \in Nat
  OBVIOUS
<1>2. IsFiniteSet(places)
  <2>1. IsFiniteSet(1..Len(b))
    BY <1>1, FS_Interval
  <2> QED
    BY <1>1, <2>1, FS_Subset
<1>3. N \in Nat
  BY <1>2, FS_CardinalityType
<1>4. places \subseteq Nat
  BY <1>1
<1>5. \A i \in DOMAIN b : IsEvent(b[i]) => i \in places
  OBVIOUS
<1>6. \A i \in places : i \in DOMAIN b
  OBVIOUS
<1>7. PICK f \in [1..N -> places] : /\ \A i, j \in 1..N : i < j => f[i] < f[j]
                                    /\ rows = [i \in 1..N |-> b[f[i]]]
  BY DEF RowsOf
<1>8. IsFiniteSet(1..N) /\ Cardinality(1..N) = N
  BY <1>3, FS_Interval
<1>9. Cardinality(1..N) = Cardinality(places)
  BY <1>8
<1> HIDE DEF N, places
<1>10. f \in Injection(1..N, places)
  <2>1. ASSUME NEW i \in 1..N, NEW j \in 1..N, f[i] = f[j] PROVE i = j
    <3>1. f[i] \in Nat /\ f[j] \in Nat
      BY <1>4, <1>7
    <3>2. i \in Nat /\ j \in Nat
      BY <1>3
    <3>3. ~(f[i] < f[j]) /\ ~(f[j] < f[i])
      BY <2>1, <3>1
    <3>4. ~(i < j) /\ ~(j < i)
      BY <1>7, <3>3
    <3> QED
      BY <3>2, <3>4
  <2> QED
    BY <1>7, <2>1 DEF Injection, IsInjective
<1>11. \A p \in places : \E i \in 1..N : f[i] = p
  <2>1. f \in Surjection(1..N, places)
    BY <1>2, <1>9, <1>10, FS_Injection
  <2> QED
    BY <2>1 DEF Surjection
<1>12. DOMAIN rows = 1..N /\ \A i \in 1..N : rows[i] = b[f[i]] /\ f[i] \in DOMAIN b /\ f[i] \in Nat
  BY <1>4, <1>6, <1>7
<1>13. Has(rows, x) <=> Has(b, x)
  <2>1. Has(rows, x) => Has(b, x)
    BY <1>12 DEF Has
  <2>2. ASSUME NEW n \in DOMAIN b, b[n] = x PROVE Has(rows, x)
    <3>1. PICK i \in 1..N : f[i] = n
      BY <1>5, <1>11, <2>2
    <3> QED
      BY <1>12, <2>2, <3>1 DEF Has
  <2> QED
    BY <2>1, <2>2 DEF Has
<1>14. Precedes(rows, x, y) => Precedes(b, x, y)
  <2>1. ASSUME NEW m \in DOMAIN rows, NEW n \in DOMAIN rows, m < n, rows[m] = x, rows[n] = y
        PROVE  Precedes(b, x, y)
    <3>1. f[m] < f[n] /\ f[m] \in DOMAIN b /\ f[n] \in DOMAIN b /\ b[f[m]] = x /\ b[f[n]] = y
      BY <1>7, <1>12, <2>1
    <3> QED
      BY <3>1 DEF Precedes
  <2> QED
    BY <2>1 DEF Precedes
<1>15. Precedes(b, x, y) => Precedes(rows, x, y)
  <2>1. ASSUME NEW m \in DOMAIN b, NEW n \in DOMAIN b, m < n, b[m] = x, b[n] = y
        PROVE  Precedes(rows, x, y)
    <3>1. PICK i \in 1..N : f[i] = m
      BY <1>5, <1>11, <2>1
    <3>2. PICK j \in 1..N : f[j] = n
      BY <1>5, <1>11, <2>1
    <3>3. i \in Nat /\ j \in Nat /\ m \in Nat /\ n \in Nat
      BY <1>1, <1>3
    <3>4. i < j
      <4>1. i # j
        BY <2>1, <3>1, <3>2, <3>3
      <4>2. ~(j < i)
        <5>1. ~(f[j] < f[i])
          BY <2>1, <3>1, <3>2, <3>3
        <5> QED
          BY <1>7, <5>1
      <4> QED
        BY <3>3, <4>1, <4>2
    <3> QED
      BY <1>12, <2>1, <3>1, <3>2, <3>4 DEF Precedes
  <2> QED
    BY <2>1 DEF Precedes
<1>16. ASSUME Leads(b, x, y) PROVE Leads(rows, x, y)
  <2> SUFFICES ASSUME NEW j \in DOMAIN rows, rows[j] = y
               PROVE  \E i \in DOMAIN rows : i < j /\ rows[i] = x
    BY DEF Leads
  <2>1. PICK m \in DOMAIN b : m < f[j] /\ b[m] = x
    BY <1>12, <1>16 DEF Leads
  <2>2. PICK i \in 1..N : f[i] = m
    BY <1>5, <1>11, <2>1
  <2>3. i \in Nat /\ j \in 1..N /\ j \in Nat /\ f[i] \in Nat /\ f[j] \in Nat
    BY <1>3, <1>12
  <2>4. i # j /\ ~(j < i)
    <3>1. f[i] < f[j] /\ ~(f[j] < f[i])
      BY <2>1, <2>2, <2>3
    <3> QED
      BY <1>7, <2>3, <3>1
  <2>5. i < j
    BY <2>3, <2>4
  <2> QED
    BY <1>12, <2>1, <2>2, <2>5
<1> QED
  BY <1>13, <1>14, <1>15, <1>16
LEMMA RowsThin ==
  ASSUME NEW b \in Seq(Item), NEW rows \in RowsOf(b)
  PROVE  Thins(b, rows)
<1>1. \A x, y \in Marks : /\ Has(rows, x) <=> Has(b, x)
                          /\ Precedes(rows, x, y) <=> Precedes(b, x, y)
  <2>1. \A x \in Marks : IsEvent(x)
    BY MarkKinds
  <2> QED
    BY <2>1, RowsOfOrder
<1> QED
  BY <1>1, ThinSame

LEMMA ReloadsAccount ==
  ASSUME IInv, SInv, Metered, Reloads
  PROVE  SInv' /\ Onward
<1>1. /\ loaded /\ loaded' = FALSE /\ bus' = << >>
      /\ api' = api /\ core' = core /\ bus \in Seq(Item)
  BY DEF Reloads, DropWarm, IInv, TypeOK
<1>2. PICK rows \in RowsOf(bus) : outbox' = rows
  BY DEF Reloads, DropWarm
<1>3. spent'.drops = spent.drops /\ ~Undisturbed'
  BY DEF Reloads, Metered, Undisturbed
<1>4. Account(api, bus)
  BY <1>1 DEF SInv, Line
<1>5. Account(api, rows)
  BY <1>1, <1>4, RowsThin, ThinAccount
<1>6. Line' = rows
  BY <1>1, <1>2 DEF Line
<1>7. Account(api, Line)'
  BY <1>1, <1>3, <1>5, <1>6, AccountPrimed
<1>8. Quiet'
  BY <1>1 DEF Quiet
<1> QED
  BY <1>1, <1>7, <1>8, OnwardSame DEF SInv

LEMMA DropsPoisonAccount ==
  ASSUME IInv, SInv, Metered, DropsPoison
  PROVE  SInv' /\ Onward
<1>1. /\ loaded /\ loaded' = FALSE /\ bus' = <<Ev("failRun", <<RunOf(bus[1].d)>>)>> /\ bus # << >>
      /\ api' = api /\ core' = core /\ bus \in Seq(Item)
  BY DEF DropsPoison, DropWarm, IInv, TypeOK
<1>2. PICK rows \in RowsOf(Tail(bus)) : outbox' = rows
  BY DEF DropsPoison, DropWarm
<1>3. spent'.drops # 0 /\ ~Undisturbed'
  BY DEF DropsPoison, Metered, Undisturbed
<1>4. Account(api, bus)
  BY <1>1 DEF SInv, Line
<1>5. Shrinks(bus, rows)
  <2> DEFINE rest == Tail(bus)
  <2>1. rest \in Seq(Item) /\ rows \in RowsOf(rest)
    BY <1>1, Popped
  <2>2. Thins(Tail(bus), rows)
    <3> HIDE DEF rest
    <3>1. Thins(rest, rows)
      BY <2>1, RowsThin
    <3> QED
      BY <3>1 DEF rest
  <2>3. \A x, y \in Marks : /\ Has(Tail(bus), x) => Has(bus, x)
                            /\ Precedes(Tail(bus), x, y) => Precedes(bus, x, y)
    BY <1>1, OrderTail
  <2> QED
    BY <2>2, <2>3 DEF Thins, Shrinks
<1>6. /\ Held(api)
      /\ \A s \in Sections : Waits(api, rows, s) /\ Ends(api, rows, s)
      /\ \A d \in Delegations : Starts(rows, d)
      /\ \A r \in Runs : Fresh(api, rows, r)
  BY <1>4, <1>5, ThinTally
<1>7. Line' = rows
  BY <1>1, <1>2 DEF Line
<1>8. Held(api)'
  BY <1>1, <1>6 DEF Held, Spawned
<1>9. ASSUME NEW s \in Sections PROVE Waits(api, Line, s)'
  <2>1. Waits(api, rows, s)
    BY <1>6
  <2> QED
    BY <1>1, <1>7, <2>1 DEF Waits, Asked, Unstarted, Queued, Spawned
<1>10. ASSUME NEW s \in Sections PROVE Ends(api, Line, s)'
  <2>1. Ends(api, rows, s)
    BY <1>6
  <2> QED
    BY <1>1, <1>7, <2>1 DEF Ends, Queued
<1>11. ASSUME NEW d \in Delegations PROVE Starts(Line, d)'
  BY <1>1, <1>6, <1>7 DEF Starts
<1>12. ASSUME NEW r \in Runs PROVE Fresh(api, Line, r)'
  BY <1>1, <1>6, <1>7 DEF Fresh
<1>13. Lined(api, Line)' /\ Guarded(api, Line)'
  BY <1>3 DEF Lined, Guarded
<1>14. Quiet'
  BY <1>1 DEF Quiet, Ev, IsEvent, Events
<1> QED
  BY <1>1, <1>8, <1>9, <1>10, <1>11, <1>12, <1>13, <1>14, OnwardSame DEF Account, SInv

\* The line as it is read back: what was submitted while nothing ran, the kick,
\* and then the committed events.
LEMMA LoadAccount ==
  ASSUME IInv, SInv, Load
  PROVE  SInv' /\ Onward
<1> DEFINE kick == IF api.queue # {} THEN <<Ev("kick", <<>>)>> ELSE <<>>
           B == [api EXCEPT !.open = raised \cap Of("user"), !.tasks = Spawned(api), !.fence = {}]
<1>1. /\ ~loaded /\ loaded' = TRUE /\ api' = B /\ core' = core /\ spent' = spent
      /\ bus' = bus \o kick \o outbox
  BY DEF Load
<1>2. bus \in Seq(Item) /\ outbox \in Seq(Item) /\ api \in Reactor
  BY DEF IInv, TypeOK
<1>3. Account(api, outbox)
  BY <1>1 DEF SInv, Line
<1>4. ~Undisturbed
  BY <1>1, <1>3 DEF Account, Guarded
<1>5. /\ B.tasks = api.tasks /\ B.fence = {} /\ B.queue = api.queue /\ B.run = api.run
  <2>1. Spawned(api) = api.tasks
    BY <1>3 DEF Account, Held
  <2> QED
    BY <1>2, <2>1 DEF Reactor
<1> HIDE DEF B
<1>6. Queued(B) = Queued(api) /\ Spawned(B) = Spawned(api)
  BY <1>5 DEF Queued, Spawned
<1>7. Account(B, outbox)
  <2>1. Held(B)
    BY <1>3, <1>5, <1>6 DEF Account, Held
  <2>2. ASSUME NEW s \in Sections PROVE Waits(B, outbox, s) /\ Ends(B, outbox, s)
    <3>1. Waits(api, outbox, s) /\ Ends(api, outbox, s)
      BY <1>3 DEF Account
    <3> QED
      BY <1>6, <3>1 DEF Waits, Ends
  <2>3. ASSUME NEW d \in Delegations PROVE Starts(outbox, d)
    BY <1>3 DEF Account
  <2>4. ASSUME NEW r \in Runs PROVE Fresh(B, outbox, r)
    BY <1>3, <1>5 DEF Account, Fresh
  <2>5. Lined(B, outbox)
    BY <1>3, <1>5 DEF Account, Lined
  <2>6. Guarded(B, outbox)
    BY <1>4 DEF Guarded
  <2> QED
    BY <2>1, <2>2, <2>3, <2>4, <2>5, <2>6 DEF Account
<1>8. kick \in Seq(Item) /\ \A x \in Marks : ~Has(kick, x)
  <2>1. CASE kick = << >>
    BY <2>1, OrderEmpty
  <2>2. CASE kick = <<Ev("kick", <<>>)>>
    <3>1. Ev("kick", <<>>) \in Item
      BY ItemsMade
    <3> DEFINE e == Ev("kick", <<>>)
    <3>2. e \notin Marks /\ kick = <<e>>
      BY <2>2, MarkFacts
    <3> HIDE DEF e
    <3>3. \A x : Has(<<e>>, x) <=> x = e
      BY OrderOne
    <3> QED
      BY <3>1, <3>2, <3>3 DEF e
  <2> QED
    BY <2>1, <2>2
<1>9. \A x \in Marks : ~Has(bus, x)
  BY <1>1, MarkKinds DEF SInv, Quiet, Has
<1> HIDE DEF kick
<1> DEFINE b == bus \o kick
<1>10. b \in Seq(Item)
  BY <1>2, <1>8, ConcatProperties
<1>11. \A x, y \in Marks : ~Has(b, x) /\ ~Precedes(b, x, y)
  <2>1. \A x \in Marks : ~Has(b, x)
    BY <1>2, <1>8, <1>9, OrderConcat
  <2> HIDE DEF b
  <2> QED
    BY <2>1, OrderHas
<1>12. bus' = b \o outbox
  BY <1>1
<1> HIDE DEF b
<1>13. \A x, y \in Marks : /\ Has(b \o outbox, x) <=> Has(outbox, x)
                           /\ Precedes(b \o outbox, x, y) <=> Precedes(outbox, x, y)
  BY <1>2, <1>10, <1>11, OrderConcat
<1> DEFINE L == b \o outbox
<1>14. Thins(outbox, L)
  BY <1>13, ThinSame
<1>15. Line' = L
  BY <1>1, <1>12 DEF Line
<1> HIDE DEF L
<1>16. Account(B, L)
  BY <1>7, <1>14, ThinAccount
<1>17. Account(api, Line)'
  <2>1. /\ api'.tasks = B.tasks /\ api'.fence = B.fence /\ api'.queue = B.queue /\ api'.run = B.run
        /\ (spent'.drops = 0 => spent.drops = 0) /\ (Undisturbed' => Undisturbed /\ loaded')
    BY <1>1 DEF Undisturbed
  <2> QED
    BY <1>1, <1>15, <1>16, <2>1, AccountPrimed
<1>18. Quiet'
  BY <1>1 DEF Quiet
<1> QED
  BY <1>1, <1>17, <1>18, OnwardSame DEF SInv

-----------------------------------------------------------------------------
(* The theorems.                                                           *)

LEMMA InitSInv == Init => SInv /\ Metered
<1> SUFFICES ASSUME Init PROVE SInv /\ Metered
  OBVIOUS
<1>1. /\ Line = << >> /\ loaded /\ spent.drops = 0
      /\ api.queue = {} /\ api.tasks = {} /\ api.fence = {}
  BY DEF Init, Line
<1>2. \A d \in Delegations : core[d].state = "absent" /\ core[d].pc = 1
  BY DEF Init
<1>3. \A x, y : ~Has(Line, x) /\ ~Precedes(Line, x, y)
  BY <1>1, OrderEmpty
<1>4. Metered
  BY DEF Init, Metered
<1>5. \A s \in Sections : s \in Delegations
  BY SectionFacts
<1>6. Queued(api) = {} /\ Spawned(api) = {}
  BY <1>1 DEF Queued, Spawned
<1>7. Held(api)
  BY <1>1, <1>6 DEF Held
<1>8. ASSUME NEW s \in Sections PROVE Waits(api, Line, s) /\ Ends(api, Line, s)
  BY <1>2, <1>3, <1>5, <1>6 DEF Waits, Ends, Asked, Unstarted
<1>9. ASSUME NEW d \in Delegations PROVE Starts(Line, d)
  BY <1>2, <1>3 DEF Starts
<1>10. ASSUME NEW r \in Runs PROVE Fresh(api, Line, r)
  BY <1>2, <1>3, RootFacts DEF Fresh
<1>11. Lined(api, Line)
  BY <1>2, <1>3, <1>5 DEF Lined, Due, Working
<1>12. Guarded(api, Line)
  BY <1>1, <1>2, <1>3, <1>5 DEF Guarded, Dead
<1> QED
  BY <1>1, <1>4, <1>7, <1>8, <1>9, <1>10, <1>11, <1>12 DEF SInv, Account, Quiet
LEMMA MeteredKept == Metered /\ [Next]_vars => Metered'
<1> SUFFICES ASSUME Metered, [Next]_vars PROVE Metered'
  OBVIOUS
<1>1. CASE Turn
  BY <1>1 DEF Turn, StartRun, CancelRun, FailRun, AnswerEscalation, StoreAnswered, FailRunForStore,
     SpawnHead, DelegateAck, TerminateAck, Escalate, CoreStarts, CoreTerminates, CoreIsAnswered,
     Commit, CoreTurn, Metered
<1>2. CASE CoreStep \/ StoreStep \/ Load
  BY <1>2 DEF CoreStep, CoreRaises, CoreReturns, CoreStops, StoreStep, StoreLands, Load, CoreTurn, Metered
<1>3. CASE User
  <2>1. \/ spent' = spent \/ spent' = [spent EXCEPT !.cancels = @ + 1]
        \/ spent' = [spent EXCEPT !.answers = @ + 1]
    BY <1>3 DEF User, UserStarts, UserCancels, UserAnswers, Submit
  <2> QED
    BY <2>1 DEF Metered
<1>4. CASE Reloads \/ DropsPoison
  BY <1>4 DEF Reloads, DropsPoison, Metered
<1>5. CASE UNCHANGED vars
  BY <1>5 DEF vars, Metered
<1> QED
  BY <1>1, <1>2, <1>3, <1>4, <1>5 DEF Next

LEMMA SectionsNext ==
  ASSUME IInv, SInv, Metered, [Next]_vars
  PROVE  SInv' /\ Onward
<1>1. CASE StartRun
  <2>1. SInv' /\ core' = core
    BY <1>1, StartRunAccount DEF StartRun, Commit
  <2> QED
    BY <2>1, OnwardSame
<1>2. CASE CancelRun \/ FailRun \/ AnswerEscalation \/ StoreAnswered \/ FailRunForStore \/ SpawnHead
  BY <1>2, CommandAccount, OnwardSame
<1>3. CASE DelegateAck \/ TerminateAck \/ Escalate
  BY <1>3, DelegateAckAccount, TerminateAckAccount, EscalateAccount, OnwardSame
<1>4. CASE CoreStarts \/ CoreTerminates \/ CoreIsAnswered
  BY <1>4, CoreStartsAccount, CoreTerminatesAccount, CoreIsAnsweredAccount
<1>5. CASE CoreStep
  BY <1>5, CoreRaisesAccount, CoreEndsAccount DEF CoreStep
<1>6. CASE StoreStep \/ User
  BY <1>6, OutsideAccount
<1>7. CASE Load \/ Reloads \/ DropsPoison
  BY <1>7, LoadAccount, ReloadsAccount, DropsPoisonAccount
<1>8. CASE UNCHANGED vars
  <2>1. /\ api' = api /\ core' = core /\ spent' = spent /\ loaded' = loaded /\ bus' = bus
        /\ Line' = Line
    BY <1>8 DEF vars, Line
  <2>2. Account(api, Line) /\ Quiet
    BY DEF SInv
  <2>3. Account(api, Line)'
    <3>1. Undisturbed' => Undisturbed /\ loaded'
      BY <2>1, <2>2 DEF Account, Guarded, Undisturbed
    <3> QED
      BY <2>1, <2>2, <3>1, AccountPrimed
  <2>4. Quiet'
    BY <2>1, <2>2 DEF Quiet
  <2> QED
    BY <2>1, <2>3, <2>4, OnwardSame DEF SInv
<1> QED
  BY <1>1, <1>2, <1>3, <1>4, <1>5, <1>6, <1>7, <1>8 DEF Next, Turn

LEMMA AtMostOne == ASSUME NEW S, \A s, t \in S : s = t PROVE Cardinality(S) <= 1
<1>1. CASE S = {}
  BY <1>1, FS_EmptySet
<1>2. CASE S # {}
  <2>1. PICK s \in S : S = {s}
    BY <1>2
  <2>2. Cardinality({s}) = 1
    BY FS_Singleton
  <2> QED
    BY <2>1, <2>2
<1> QED
  BY <1>1, <1>2

LEMMA SectionsApart == SInv => OneSection
<1> SUFFICES ASSUME SInv PROVE OneSection
  OBVIOUS
<1> DEFINE L == Line
<1>1. Account(api, L)
  BY DEF SInv
<1> HIDE DEF L
<1>2. ASSUME spent.drops = 0, NEW s \in Sections, NEW t \in Sections, Working(s), Working(t)
      PROVE  s = t
  <2>1. \A u \in {s, t} : ~Has(L, Ev("delegate", u))
    BY <1>1, <1>2, SectionFacts DEF Account, Starts, Working
  <2>2. ~Hands(L, s, t) /\ ~Hands(L, t, s)
    BY <2>1, OrderHas DEF Hands
  <2> QED
    BY <1>1, <1>2, <2>2 DEF Account, Lined, Due
<1>3. ASSUME Undisturbed, NEW s \in Sections, NEW t \in Sections,
             core[s].state \notin Dead, core[t].state \notin Dead
      PROVE  s = t
  BY <1>1, <1>3 DEF Account, Guarded, Held
<1>4. spent.drops = 0 => Cardinality({s \in Sections : Working(s)}) <= 1
  BY <1>2, AtMostOne
<1>5. Undisturbed => Cardinality({s \in Sections : core[s].state \notin Dead}) <= 1
  BY <1>3, AtMostOne
<1> QED
  BY <1>4, <1>5 DEF OneSection

\* In the whole project one critical section works at a time, unless an event was
\* dropped; and each is started at most once, whatever is cancelled, fails and is
\* reloaded: what the queue, its rows, the fence and the order of the loop are for.
THEOREM SectionsHold == Spec => SectionsKept
<1>1. Onward => [\A s \in Sections : core[s].state # "absent" =>
                   /\ core'[s].state # "absent" /\ core'[s].pc >= core[s].pc
                   /\ core[s].state = "gone" => core'[s].state = "gone"]_vars
  BY DEF Onward
<1>2. IInv /\ SInv /\ Metered /\ [Next]_vars => SInv' /\ Onward
  BY SectionsNext
<1> QED
  BY InitIInv, NextKeeps, InitSInv, MeteredKept, SectionsApart, <1>1, <1>2, PTL
     DEF Spec, SectionsKept, SectionOnce

-----------------------------------------------------------------------------
(* The invariant of the answers.                                           *)

Root(d) == <<RunOf(d)>>
Questions == Of("user")
AckValues == Answers \cup {"done", "stored"}
Unraised(a) == core[Raiser(a)].pc <= Last(a)
Acked(a, L) == \E v \in AckValues : Has(L, Ack(a, v))

Logged ==
  log \in [writes : Seq(Asks), audit : [Asks -> AckValues \cup {"none"}],
           got : [Asks -> AckValues \cup {"none"}]]

\* The store answers store requests only.
StoreOnly ==
  /\ \A a \in Asks : io[a] > 0 => a \in Of("store")
  /\ \A n \in DOMAIN bus : bus[n].k = "stored" => bus[n].ask \in Of("store")

\* Of a request that its raiser has not reached there is no trace.
Untouched ==
  \A a \in Asks : Unraised(a) =>
    /\ ~Asked(a, Line)
    /\ a \in Questions => /\ a \notin raised /\ a \notin api.open /\ ~Acked(a, Line)
                          /\ log.audit[a] = "none" /\ log.got[a] = "none"

\* The audited answer is the first on its way back to a program that waits.
Audited ==
  spent.drops = 0 =>
    \A a \in Questions :
      /\ log.got[a] # "none" => log.got[a] = log.audit[a]
      /\ log.audit[a] = "none" => \A v \in AckValues \ {"none"} : ~Has(Line, Ack(a, v))
      /\ a \in raised /\ log.audit[a] # "none" =>
           /\ Has(Line, Ack(a, log.audit[a]))
           /\ \A v \in AckValues \ {"none", log.audit[a]} :
                Leads(Line, Ack(a, log.audit[a]), Ack(a, v))

\* What is queued belongs to a live root, and the task of a section has its row.
Tidy(A) == A.tasks \subseteq A.rows /\ \A s \in Queued(A) : Root(s) \in A.rows

\* A section of which anything is left is held, or its root lost its row.
Left(s, L) ==
  \/ core[s].state \notin Dead
  \/ \E k \in Signals : Has(L, Ev(k, s))
  \/ \E a \in Asks : Raiser(a) = s /\ Asked(a, L)
Torn == \A s \in Sections : Left(s, Line) => s \in api.tasks \/ Root(s) \notin api.rows

\* After its answer a delegation is not heard of again.
LastWord ==
  \A d \in Delegations :
    /\ ~Precedes(Line, Ev("delegateAck", d), Ev("delegateAck", d))
    /\ \A a \in Asks : Raiser(a) = d =>
         /\ ~Precedes(Line, Ev("delegateAck", d), AskEv("escalate", a))
         /\ ~Precedes(Line, Ev("terminateAck", d), AskEv("escalate", a))

\* A question that suspends the program of a live root can be answered.
Reach ==
  \A a \in Questions :
    a \in raised /\ loaded /\ Working(Raiser(a)) /\ Raiser(a) \in api.rows =>
      a \in api.open \/ Asked(a, Line) \/ Acked(a, Line)

\* Who awaits a run hears of it with its outcome, or after a failure.
Promised ==
  \A r \in Runs :
    /\ promise[r] \in Terminal => promise[r] = api.run[r] \/ api.run[r] = "error"
    /\ promise[r] = "pending" /\ <<r>> \notin api.rows /\ api.run[r] # "none" =>
         api.run[r] = "error"

\* A root that answered is over, and one that lost its row was told to stop.
RootAnswers ==
  \A r \in Runs :
    /\ Has(Line, Ev("delegateAck", <<r>>)) => api.run[r] # "none"
    /\ Has(Line, Ev("delegateAck", <<r>>)) \/ Has(Line, Ev("terminateAck", <<r>>)) =>
         core[<<r>>].state \in Dead /\ ~Has(Line, Ev("delegate", <<r>>))
    /\ ~Precedes(Line, Ev("terminate", <<r>>), Ev("delegate", <<r>>))
    /\ spent.drops = 0 /\ (Working(<<r>>) \/ Has(Line, Ev("delegate", <<r>>))) =>
         <<r>> \in api.rows \/ Has(Line, Ev("terminate", <<r>>))

\* An open question is of a root that is there, or whose answer closes it.
Opened ==
  spent.drops = 0 =>
    \A a \in Questions :
      /\ a \in api.open \/ Asked(a, Line) =>
           \/ core[Raiser(a)].state \notin Dead
           \/ Has(Line, Ev("delegateAck", Raiser(a))) \/ Has(Line, Ev("terminateAck", Raiser(a)))
      /\ a \in raised => core[Raiser(a)].state \notin Dead

AInv ==
  /\ Logged /\ StoreOnly /\ Untouched /\ Audited /\ Tidy(api) /\ Torn /\ LastWord
  /\ Reach /\ Promised /\ RootAnswers /\ Opened
-----------------------------------------------------------------------------
(* Parts of a turn.                                                        *)

\* What may be sent on the way to B, besides the answer of a question.
Plain(B, i) ==
  \/ \E s \in Sections : i = Ev("delegate", s) /\ (s \in B.tasks \/ Root(s) \notin B.rows)
  \/ \E s \in Sections : i = Ev("terminate", s) /\ Root(s) \notin B.rows
  \/ \E r \in Runs : i = Ev("terminate", <<r>>)
  \/ \E a \in Asks, v \in AckValues : i = Ack(a, v) /\ a \notin Questions

\* From A to B no question is touched, and a root that loses its row is told to
\* stop: its run failed.
Follows(A, B) ==
  /\ B \in Reactor /\ SecRows(B) /\ B.open = A.open /\ B.rows \cap Roots \subseteq A.rows
  /\ \A r \in Runs : <<r>> \in A.rows \ B.rows =>
        B.run[r] = "error" /\ Ev("terminate", <<r>>) \in ToSet(B.out)
  /\ \A r \in Runs : <<r>> \in B.rows \/ <<r>> \notin A.rows => B.run[r] = A.run[r]
  /\ \A s \in A.tasks : s \in B.tasks \/ Root(s) \notin B.rows
  /\ ToSet(A.out) \subseteq ToSet(B.out)
  /\ \A i \in ToSet(B.out) \ ToSet(A.out) : Plain(B, i)

LEMMA FollowsSelf == ASSUME NEW A \in Reactor, SecRows(A) PROVE Follows(A, A)
BY DEF Follows

LEMMA RootIn == \A s \in Sections : Root(s) \in Roots /\ RunOf(s) \in Runs /\ Root(s) = Raiser(s)
BY SectionFacts DEF Root, Roots

LEMMA FollowsTrans ==
  ASSUME NEW A \in Reactor, NEW B, NEW C, Follows(A, B), Follows(B, C)
  PROVE  Follows(A, C)
<1>1. A.tasks \subseteq Sections /\ B.tasks \subseteq Sections /\ B \in Reactor /\ C \in Reactor
  BY DEF Follows, Reactor
<1>2. \A s \in Sections : Root(s) \notin B.rows => Root(s) \notin C.rows
  BY RootIn DEF Follows
<1>3. \A i : Plain(B, i) => Plain(C, i)
  <2> SUFFICES ASSUME NEW i, Plain(B, i) PROVE Plain(C, i)
    OBVIOUS
  <2>1. \A s \in B.tasks : s \in C.tasks \/ Root(s) \notin C.rows
    BY DEF Follows
  <2> QED
    BY <1>2, <2>1 DEF Plain
<1>4. \A r \in Runs : <<r>> \in A.rows \ C.rows =>
        C.run[r] = "error" /\ Ev("terminate", <<r>>) \in ToSet(C.out)
  <2> SUFFICES ASSUME NEW r \in Runs, <<r>> \in A.rows \ C.rows
               PROVE  C.run[r] = "error" /\ Ev("terminate", <<r>>) \in ToSet(C.out)
    OBVIOUS
  <2>1. CASE <<r>> \in B.rows
    BY <2>1 DEF Follows
  <2>2. CASE <<r>> \notin B.rows
    <3>1. B.run[r] = "error" /\ Ev("terminate", <<r>>) \in ToSet(B.out)
      BY <2>2 DEF Follows
    <3> QED
      BY <2>2, <3>1 DEF Follows
  <2> QED
    BY <2>1, <2>2
<1>5. \A r \in Runs : <<r>> \in C.rows \/ <<r>> \notin A.rows => C.run[r] = A.run[r]
  BY RootFacts DEF Follows
<1>6. \A s \in A.tasks : s \in C.tasks \/ Root(s) \notin C.rows
  BY <1>1, <1>2 DEF Follows
<1>7. \A i \in ToSet(C.out) \ ToSet(A.out) : Plain(C, i)
  BY <1>3 DEF Follows
<1> QED
  BY <1>1, <1>4, <1>5, <1>6, <1>7 DEF Follows

LEMMA SendFollows ==
  ASSUME NEW A \in Reactor, SecRows(A), NEW e \in Item, Plain(A, e)
  PROVE  Follows(A, Send(A, e)) /\ Send(A, e).rows = A.rows /\ Send(A, e).queue = A.queue
         /\ Send(A, e).tasks = A.tasks
<1> DEFINE B == Send(A, e)
<1>1. A.out \in Seq(Item)
  BY DEF Reactor
<1>2. Append(A.out, e) \in Seq(Item) /\ ToSet(Append(A.out, e)) = ToSet(A.out) \cup {e}
  BY <1>1, ToSetAppend
<1>3. /\ B \in Reactor /\ B.out = Append(A.out, e) /\ B.rows = A.rows /\ B.queue = A.queue
      /\ B.tasks = A.tasks /\ B.run = A.run /\ B.open = A.open
  BY <1>2 DEF Send, Reactor
<1> HIDE DEF B
<1>4. SecRows(B)
  BY <1>3 DEF SecRows, Spawned
<1>5. Plain(B, e)
  BY <1>3 DEF Plain
<1>6. Follows(A, B)
  BY <1>2, <1>3, <1>4, <1>5 DEF Follows
<1> QED
  BY <1>3, <1>6 DEF B

LEMMA SpawnTaskFollows ==
  ASSUME NEW A \in Reactor, SecRows(A), Tidy(A), NEW ask \in Sections, ask \in Queued(A)
  PROVE  Follows(A, SpawnTask(A, ask)) /\ Tidy(SpawnTask(A, ask))
<1> DEFINE Q == {IF t.ask = ask THEN [t EXCEPT !.spawned = TRUE] ELSE t : t \in A.queue}
           e == Ev("delegate", ask)
           B == [A EXCEPT !.queue = Q, !.tasks = @ \cup {ask}, !.rows = @ \cup {ask}]
<1>1. SpawnTask(A, ask) = Send(B, e)
  BY DEF SpawnTask
<1>2. Keeps(A, SpawnTask(A, ask))
  BY SpawnTaskKeeps
<1>3. e \in Item /\ ask \in Delegations /\ ask \notin Roots
  BY ItemsMade, SectionFacts
<1>4. A.queue \in SUBSET [ask : Sections, spawned : BOOLEAN, seq : Nat]
  BY DEF Reactor
<1>5. {t.ask : t \in Q} = Queued(A)
  <2> DEFINE f[t \in A.queue] == IF t.ask = ask THEN [t EXCEPT !.spawned = TRUE] ELSE t
  <2>1. Q = {f[t] : t \in A.queue}
    OBVIOUS
  <2>2. \A t \in A.queue : f[t].ask = t.ask
    BY <1>4
  <2> HIDE DEF Q, f
  <2> QED
    BY <2>1, <2>2 DEF Queued
<1> HIDE DEF Q, e
<1>6. /\ B.rows = A.rows \cup {ask} /\ B.tasks = A.tasks \cup {ask} /\ B.queue = Q
      /\ B.run = A.run /\ B.open = A.open /\ B.out = A.out
  BY DEF Reactor
<1>7. A.out \in Seq(Item)
  BY DEF Reactor
<1>8. /\ Send(B, e).rows = B.rows /\ Send(B, e).tasks = B.tasks /\ Send(B, e).queue = B.queue
      /\ Send(B, e).run = B.run /\ Send(B, e).open = B.open /\ Send(B, e).out = Append(A.out, e)
  BY <1>6 DEF Send, Reactor
<1> HIDE DEF B
<1>9. ToSet(Append(A.out, e)) = ToSet(A.out) \cup {e}
  BY <1>3, <1>7, ToSetAppend
<1> DEFINE C == Send(B, e)
<1> HIDE DEF C
<1>10. /\ C.rows = A.rows \cup {ask} /\ C.tasks = A.tasks \cup {ask} /\ Queued(C) = Queued(A)
       /\ C.run = A.run /\ C.open = A.open /\ ToSet(C.out) = ToSet(A.out) \cup {e}
       /\ C \in Reactor /\ SecRows(C)
  BY <1>1, <1>2, <1>5, <1>6, <1>8, <1>9 DEF C, Queued, Keeps
<1>11. Plain(C, e)
  BY <1>10 DEF Plain, e
<1>12. Follows(A, C)
  BY <1>3, <1>10, <1>11 DEF Follows
<1>13. Tidy(C)
  BY <1>10 DEF Tidy
<1> QED
  BY <1>1, <1>12, <1>13 DEF C

LEMMA SpawnHeadFollows ==
  ASSUME NEW A \in Reactor, SecRows(A), Tidy(A)
  PROVE  Follows(A, SpawnHeadIfIdle(A)) /\ Tidy(SpawnHeadIfIdle(A))
<1>1. CASE A.tasks \cup A.fence # {} \/ Heads(A) = {}
  BY <1>1, FollowsSelf DEF SpawnHeadIfIdle
<1>2. CASE ~(A.tasks \cup A.fence # {} \/ Heads(A) = {})
  <2> DEFINE t == CHOOSE x \in Heads(A) : TRUE
  <2>1. t \in Heads(A)
    BY <1>2
  <2>2. SpawnHeadIfIdle(A) = SpawnTask(A, t.ask)
    BY <1>2 DEF SpawnHeadIfIdle
  <2> HIDE DEF t
  <2>3. t.ask \in Queued(A) /\ t.ask \in Sections
    BY <2>1 DEF Heads, Queued, Reactor
  <2> QED
    BY <2>2, <2>3, SpawnTaskFollows
<1> QED
  BY <1>1, <1>2
\* Cleanup follows the end of the run r.
LEMMA CleanupFollows ==
  ASSUME NEW A \in Reactor, SecRows(A), Held(A), NEW r \in Runs, <<r>> \notin A.rows,
         A.tasks \subseteq A.rows, \A s \in Queued(A) : RunOf(s) = r \/ Root(s) \in A.rows
  PROVE  Follows(A, Cleanup(A, r)) /\ Tidy(Cleanup(A, r))
<1> DEFINE D == TornDown(A, r)  gone == Gone(A, r)
<1>1. A.queue \in SUBSET [ask : Sections, spawned : BOOLEAN, seq : Nat]
  BY DEF Reactor
<1>2. CASE Its(A, r) = {}
  <2>1. Cleanup(A, r) = A
    BY <1>2, CleanupFacts
  <2>2. Tidy(A)
    BY <1>2 DEF Tidy, Its, Queued
  <2> QED
    BY <2>1, <2>2, FollowsSelf
<1>3. CASE Its(A, r) # {}
  <2>1. /\ Cleanup(A, r) = SpawnHeadIfIdle(D) /\ D \in Reactor
        /\ D.tasks = A.tasks \ gone /\ D.run = A.run /\ D.queue = A.queue \ Its(A, r)
        /\ Spawned(D) = Spawned(A) \ gone /\ gone \subseteq A.tasks /\ gone \subseteq Sections
        /\ \/ gone = {} /\ D.out = A.out
           \/ \E d \in Sections : gone = {d} /\ D.out = Append(A.out, Ev("terminate", d))
    BY <1>3, CleanupFacts
  <2>2. \A s \in gone : RunOf(s) = r /\ Root(s) = <<r>>
    BY DEF Gone, Its, Root
  <2>3. \A s \in Queued(D) : RunOf(s) # r /\ s \in Queued(A)
    BY <2>1 DEF Queued, Its
  <2>4. D.rows = A.rows \ gone /\ D.open = A.open
    BY DEF TornDown, Reactor
  <2>5. A.out \in Seq(Item)
    BY DEF Reactor
  <2> HIDE DEF D, gone
  <2>6. \A s \in Sections : s \notin Roots
    BY SectionFacts
  <2>7. SecRows(D)
    BY <2>1, <2>4 DEF SecRows
  <2>8. Queued(A) \subseteq Sections
    BY <1>1 DEF Queued
  <2>9. Tidy(D)
    <3>1. D.tasks \subseteq D.rows
      BY <2>1, <2>4
    <3>2. ASSUME NEW s \in Queued(D) PROVE Root(s) \in D.rows
      <4>1. Root(s) \in A.rows /\ Root(s) \in Roots
        BY <2>3, <2>8, RootIn
      <4> QED
        BY <2>1, <2>4, <2>6, <4>1
    <3> QED
      BY <3>1, <3>2 DEF Tidy
  <2>10. ToSet(A.out) \subseteq ToSet(D.out) /\ \A i \in ToSet(D.out) \ ToSet(A.out) : Plain(D, i)
    <3>1. CASE gone = {} /\ D.out = A.out
      BY <3>1
    <3>2. ASSUME NEW d \in Sections, gone = {d}, D.out = Append(A.out, Ev("terminate", d))
          PROVE  ToSet(A.out) \subseteq ToSet(D.out) /\ \A i \in ToSet(D.out) \ ToSet(A.out) : Plain(D, i)
      <4> DEFINE e == Ev("terminate", d)
      <4>1. e \in Item
        BY ItemsMade, SectionFacts
      <4>2. Plain(D, e)
        BY <2>2, <2>4, <3>2 DEF Plain
      <4> HIDE DEF e
      <4>3. ToSet(Append(A.out, e)) = ToSet(A.out) \cup {e}
        BY <2>5, <4>1, ToSetAppend
      <4> QED
        BY <3>2, <4>2, <4>3 DEF e
    <3> QED
      BY <2>1, <3>1, <3>2
  <2>11. \A q \in Runs : <<q>> \in D.rows <=> <<q>> \in A.rows
    BY <2>1, <2>4, RootFacts
  <2>12. \A s \in A.tasks : s \in D.tasks \/ Root(s) \notin D.rows
    BY <2>1, <2>2, <2>4
  <2>13. Follows(A, D)
    BY <2>1, <2>4, <2>7, <2>10, <2>11, <2>12 DEF Follows
  <2>14. Follows(D, SpawnHeadIfIdle(D)) /\ Tidy(SpawnHeadIfIdle(D))
    BY <2>1, <2>7, <2>9, SpawnHeadFollows
  <2> QED
    BY <2>1, <2>13, <2>14, FollowsTrans
<1> QED
  BY <1>2, <1>3

\* A root fails, and its run with it.
LEMMA FailCleanupFollows ==
  ASSUME NEW A \in Reactor, SecRows(A), Held(A), Tidy(A), NEW r \in Runs
  PROVE  LET C == Cleanup(Fail(A, <<r>>), r)
         IN Follows(A, C) /\ Tidy(C) /\ <<r>> \notin C.rows
<1> DEFINE B == Fail(A, <<r>>)  e == Ev("terminate", <<r>>)  C == Cleanup(B, r)
<1>1. /\ B \in Reactor /\ SecRows(B) /\ Held(B) /\ <<r>> \notin B.rows /\ Follows(A, B)
      /\ B.tasks \subseteq B.rows /\ \A s \in Queued(B) : RunOf(s) = r \/ Root(s) \in B.rows
  <2>1. CASE ~Live(A, <<r>>)
    <3>1. B = A
      BY <2>1 DEF Fail
    <3> QED
      BY <2>1, <3>1, FollowsSelf DEF Live, Tidy
  <2>2. CASE Live(A, <<r>>)
    <3>1. B = Send(Outcome(Retire(A, <<r>>), r, "error"), e)
      BY <2>2, RootFacts DEF Fail
    <3>2. A.out \in Seq(Item) /\ e \in Item
      BY RootEvents DEF Reactor
    <3>3. ToSet(Append(A.out, e)) = ToSet(A.out) \cup {e} /\ Append(A.out, e) \in Seq(Item)
      BY <3>2, ToSetAppend
    <3> HIDE DEF e
    <3>4. /\ B.rows = A.rows \ {<<r>>} /\ B.run = [A.run EXCEPT ![r] = "error"]
          /\ B.tasks = A.tasks /\ B.queue = A.queue /\ B.fence = A.fence /\ B.open = A.open
          /\ B.out = Append(A.out, e) /\ B \in Reactor
      <4> DEFINE R == Retire(A, <<r>>)  O == Outcome(R, r, "error")
      <4>1. /\ R \in Reactor /\ R.rows = A.rows \ {<<r>>} /\ R.run = A.run
            /\ R.tasks = A.tasks /\ R.queue = A.queue /\ R.fence = A.fence /\ R.open = A.open
            /\ R.out = A.out
        BY DEF Retire, Reactor
      <4> HIDE DEF R
      <4>2. "error" \in States
        BY DEF States, Terminal
      <4>3. /\ O \in Reactor /\ O.rows = R.rows /\ O.run = [R.run EXCEPT ![r] = "error"]
            /\ O.tasks = R.tasks /\ O.queue = R.queue /\ O.fence = R.fence /\ O.open = R.open
            /\ O.out = R.out
        BY <4>1, <4>2 DEF Outcome, Reactor
      <4> HIDE DEF O
      <4>4. B = Send(O, e)
        BY <3>1 DEF O, R
      <4> HIDE DEF B
      <4>5. /\ Append(O.out, e) = Append(A.out, e)
        BY <4>1, <4>3
      <4>6. /\ B \in Reactor /\ B.rows = O.rows /\ B.run = O.run /\ B.tasks = O.tasks
            /\ B.queue = O.queue /\ B.fence = O.fence /\ B.open = O.open /\ B.out = Append(A.out, e)
        BY <3>3, <4>3, <4>4, <4>5 DEF Send, Reactor
      <4> QED
        BY <4>1, <4>3, <4>6
    <3> HIDE DEF B
    <3>5. /\ <<r>> \notin Sections /\ \A q \in Runs : q # r => <<q>> # <<r>>
      BY RootFacts
    <3>6. A.tasks \subseteq Sections /\ A.run \in [Runs -> States]
      BY DEF Reactor
    <3>7. Queued(B) = Queued(A) /\ Spawned(B) = Spawned(A)
      BY <3>4 DEF Queued, Spawned
    <3>8. SecRows(B) /\ Held(B) /\ B.tasks \subseteq B.rows
      BY <3>4, <3>5, <3>6, <3>7 DEF SecRows, Held, Tidy
    <3>9. Plain(B, e)
      BY DEF Plain, e
    <3>10. Follows(A, B)
      <4>1. \A q \in Runs : <<q>> \in A.rows \ B.rows => B.run[q] = "error" /\ Ev("terminate", <<q>>) \in ToSet(B.out)
        BY <3>3, <3>4, <3>6 DEF e
      <4>2. \A q \in Runs : <<q>> \in B.rows \/ <<q>> \notin A.rows => B.run[q] = A.run[q]
        BY <2>2, <3>4, <3>6 DEF Live
      <4> QED
        BY <3>3, <3>4, <3>8, <3>9, <4>1, <4>2 DEF Follows
    <3>11. \A s \in Queued(B) : RunOf(s) = r \/ Root(s) \in B.rows
      <4>1. \A s \in Queued(A) : Root(s) \in A.rows
        BY DEF Tidy
      <4>2. \A s \in Queued(A) : RunOf(s) # r => Root(s) # <<r>>
        BY DEF Root
      <4> QED
        BY <3>4, <3>7, <4>1, <4>2
    <3> QED
      BY <3>4, <3>8, <3>10, <3>11
  <2> QED
    BY <2>1, <2>2
<1> HIDE DEF B
<1>2. Follows(B, C) /\ Tidy(C)
  BY <1>1, CleanupFollows
<1>3. Follows(A, C)
  BY <1>1, <1>2, FollowsTrans
<1>4. <<r>> \notin C.rows
  BY <1>1, <1>2, RootFacts DEF Follows
<1> QED
  BY <1>2, <1>3, <1>4 DEF B

LEMMA FailTaskFollows ==
  ASSUME NEW A \in Reactor, SecRows(A), Held(A), Tidy(A), NEW ask \in Sections
  PROVE  Follows(A, FailTask(A, ask)) /\ Tidy(FailTask(A, ask)) /\ Root(ask) \notin FailTask(A, ask).rows
<1>1. RunOf(ask) \in Runs /\ Raiser(ask) = <<RunOf(ask)>>
  BY SectionFacts
<1> DEFINE r == RunOf(ask)
<1>2. FailTask(A, ask) = Cleanup(Fail(A, <<r>>), r) /\ Root(ask) = <<r>>
  BY <1>1 DEF FailTask, Root
<1> HIDE DEF r
<1> QED
  BY <1>1, <1>2, FailCleanupFollows DEF r

LEMMA FailDelegationFollows ==
  ASSUME NEW A \in Reactor, SecRows(A), Held(A), Tidy(A), NEW d \in Delegations
  PROVE  LET C == FailDelegation(A, d)
         IN Follows(A, C) /\ Tidy(C) /\ (d \in A.tasks \/ d \in Roots => Root(d) \notin C.rows)
<1>1. A.tasks \subseteq Sections
  BY DEF Reactor
<1>2. CASE d \in A.tasks
  <2>1. d \in Queued(A) /\ d \in Sections
    BY <1>1, <1>2 DEF Held, Spawned, Queued
  <2>2. FailDelegation(A, d) = FailTask(A, d)
    BY <1>2, <2>1 DEF FailDelegation
  <2> QED
    BY <2>1, <2>2, FailTaskFollows
<1>3. CASE d \notin A.tasks /\ Live(A, d)
  <2>1. d \notin Sections
    BY <1>3 DEF SecRows, Live
  <2>2. d \in Roots /\ d = <<RunOf(d)>> /\ RunOf(d) \in Runs
    BY <2>1, DelegationFacts
  <2> DEFINE r == RunOf(d)
  <2>3. FailDelegation(A, d) = Cleanup(Fail(A, <<r>>), r) /\ Root(d) = <<r>>
    BY <1>3, <2>2 DEF FailDelegation, Root
  <2> HIDE DEF r
  <2> QED
    BY <2>2, <2>3, FailCleanupFollows DEF r
<1>4. CASE d \notin A.tasks /\ ~Live(A, d)
  <2>1. FailDelegation(A, d) = A
    BY <1>4 DEF FailDelegation
  <2>2. d \in Roots => Root(d) \notin A.rows
    BY <1>4, DelegationFacts DEF Root, Live
  <2> QED
    BY <1>4, <2>1, <2>2, FollowsSelf
<1> QED
  BY <1>2, <1>3, <1>4

LEMMA EnqueueFollows ==
  ASSUME NEW A \in Reactor, SecRows(A), Tidy(A), NEW ask \in Sections, Root(ask) \in A.rows
  PROVE  Follows(A, Enqueue(A, ask)) /\ Tidy(Enqueue(A, ask))
<1>1. CASE ask \in Queued(A)
  BY <1>1, FollowsSelf DEF Enqueue
<1>2. CASE ask \notin Queued(A)
  <2> DEFINE t == [ask |-> ask, spawned |-> FALSE, seq |-> A.seq]
             B == [A EXCEPT !.queue = @ \cup {t}, !.seq = @ + 1]
  <2>1. Enqueue(A, ask) = SpawnHeadIfIdle(B)
    BY <1>2 DEF Enqueue
  <2>2. t \in [ask : Sections, spawned : BOOLEAN, seq : Nat] /\ t.ask = ask /\ t.spawned = FALSE
    BY DEF Reactor
  <2> HIDE DEF t
  <2>3. /\ B \in Reactor /\ B.queue = A.queue \cup {t} /\ B.rows = A.rows /\ B.tasks = A.tasks
        /\ B.run = A.run /\ B.open = A.open /\ B.out = A.out
    <3>1. A.queue \cup {t} \in SUBSET [ask : Sections, spawned : BOOLEAN, seq : Nat] /\ A.seq + 1 \in Nat
      BY <2>2 DEF Reactor
    <3> QED
      BY <3>1 DEF Reactor
  <2> HIDE DEF B
  <2>4. SecRows(B)
    BY <2>3 DEF SecRows, Spawned
  <2>5. Tidy(B)
    BY <2>2, <2>3 DEF Tidy, Queued
  <2>6. Follows(A, B)
    BY <2>3, <2>4 DEF Follows
  <2>7. Follows(B, SpawnHeadIfIdle(B)) /\ Tidy(SpawnHeadIfIdle(B))
    BY <2>3, <2>4, <2>5, SpawnHeadFollows
  <2> QED
    BY <2>1, <2>6, <2>7, FollowsTrans
<1> QED
  BY <1>1, <1>2

LEMMA ExclusiveFollows ==
  ASSUME NEW A \in Reactor, SecRows(A), Held(A), Tidy(A), NEW a \in Asks, Request(a).kind = "exclusive"
  PROVE  Follows(A, Exclusive(A, a)) /\ Tidy(Exclusive(A, a))
<1>1. A.tasks \subseteq Sections /\ Raiser(a) \in Delegations
  BY AskFacts DEF Reactor
<1>2. CASE Raiser(a) \in A.tasks
  BY <1>1, <1>2, FailTaskFollows DEF Exclusive
<1>3. CASE Raiser(a) \notin A.tasks /\ Live(A, Raiser(a))
  <2>1. Raiser(a) \notin Sections
    BY <1>3 DEF SecRows, Live
  <2>2. Raiser(a) \in Roots /\ a \in RunRequests
    BY <1>1, <2>1, DelegationFacts, AskFacts
  <2>3. a \in Sections
    BY <2>2 DEF Sections
  <2>4. Root(a) \in A.rows
    BY <1>3, <2>3, RootIn DEF Live
  <2> QED
    BY <1>3, <2>3, <2>4, EnqueueFollows DEF Exclusive
<1>4. CASE Raiser(a) \notin A.tasks /\ ~Live(A, Raiser(a))
  BY <1>4, FollowsSelf DEF Exclusive
<1> QED
  BY <1>2, <1>3, <1>4
-----------------------------------------------------------------------------
(* Requests.                                                               *)

\* A question is of a root: the row of a section asks no user.
LEMMA PlaceFacts ==
  ASSUME NEW a \in Asks
  PROVE  /\ Last(a) \in Nat \ {0}
         /\ a \in Questions => a \in RunRequests /\ Raiser(a) = Root(a) /\ RunOf(a) \in Runs
         /\ Root(Raiser(a)) = Root(a)
<1>1. CASE a \in RunRequests
  <2>1. PICK r \in Runs : \E k \in DOMAIN Program[r] : a = <<r, k>>
    BY <1>1 DEF RunRequests
  <2>2. PICK k \in DOMAIN Program[r] : a = <<r, k>>
    BY <2>1
  <2>3. k \in Nat \ {0}
    BY ProgramAssumption
  <2>4. Raiser(a) = <<r>> /\ RunOf(a) = r
    BY <2>2, RequestFacts
  <2> QED
    BY <1>1, <2>2, <2>3, <2>4, FrontOfPair, RootFacts DEF Root
<1>2. CASE a \notin RunRequests
  <2>1. PICK e \in Sections : \E k \in DOMAIN Request(e).body : a = Append(e, k)
    BY <1>2 DEF Asks
  <2>2. PICK k \in DOMAIN Request(e).body : a = Append(e, k)
    BY <2>1
  <2>3. PICK r \in Runs : \E n \in DOMAIN Program[r] : e = <<r, n>>
    BY DEF Sections, RunRequests
  <2>4. PICK n \in DOMAIN Program[r] : e = <<r, n>>
    BY <2>3
  <2>5. Body(e) \in Seq(InSection) /\ Body(e) = Request(e).body
    BY SectionFacts
  <2>6. k \in Nat \ {0} /\ Body(e)[k] \in InSection
    BY <2>2, <2>5
  <2> DEFINE S == {r, n, k}
  <2>7. e \in Seq(S) /\ k \in S /\ e # << >>
    BY <2>4
  <2> HIDE DEF S
  <2>8. Front(a) = e /\ a[1] = e[1] /\ Last(a) = k
    BY <2>2, <2>7, FrontOfAppend
  <2>9. Request(a).kind # "user"
    BY <2>6, <2>8 DEF Request, Raiser, InSection
  <2> QED
    BY <2>6, <2>8, <2>9 DEF Questions, Of, Raiser, RunOf, Root
<1> QED
  BY <1>1, <1>2

LEMMA QuestionFacts ==
  ASSUME NEW a \in Questions
  PROVE  /\ a \in Asks /\ Request(a).kind = "user" /\ RunOf(a) \in Runs
         /\ Raiser(a) = Root(a) /\ Root(a) = <<RunOf(a)>> /\ Raiser(a) \in Roots
         /\ Raiser(a) \in Delegations /\ Last(a) \in Nat \ {0}
BY PlaceFacts, RootFacts DEF Questions, Of, Root

\* Of a run that was not started nothing is there.
LEMMA NotStarted ==
  ASSUME IInv, SInv, AInv, NEW r \in Runs, api.run[r] = "none"
  PROVE  /\ core[<<r>>] = [state |-> "absent", pc |-> 1]
         /\ <<r>> \notin api.rows
         /\ \A k \in Signals : ~Has(Line, Ev(k, <<r>>))
         /\ \A s \in Sections : RunOf(s) = r =>
              core[s] = [state |-> "absent", pc |-> 1] /\ \A k \in Signals : ~Has(Line, Ev(k, s))
         /\ \A a \in Asks : RunOf(a) = r => Unraised(a) /\ ~Asked(a, Line)
<1>1. core \in CoreType
  BY DEF IInv, TypeOK, CoreType
<1>2. Account(api, Line)
  BY DEF SInv
<1>3. core[<<r>>].state = "absent" /\ ~Has(Line, Ev("delegate", <<r>>)) /\ <<r>> \in Delegations
  BY <1>2, RootFacts DEF Account, Fresh
<1>4. core[<<r>>] = [state |-> "absent", pc |-> 1]
  BY <1>1, <1>2, <1>3 DEF Account, Starts, CoreType
<1>5. <<r>> \notin api.rows
  BY DEF IInv, RootsLive, Alive
<1>6. ~Has(Line, Ev("delegateAck", <<r>>))
  BY DEF AInv, RootAnswers
<1>7. \A k \in {"terminate", "terminateAck"} : ~Has(Line, Ev(k, <<r>>))
  <2> SUFFICES ASSUME NEW k \in {"terminate", "terminateAck"}, Has(Line, Ev(k, <<r>>)) PROVE FALSE
    OBVIOUS
  <2>1. \E i \in InFlight : Stops(i, r)
    <3>1. PICK n \in DOMAIN Line : Line[n] = Ev(k, <<r>>)
      BY DEF Has
    <3>2. Line[n] \in InFlight
      BY DEF Line, InFlight, ToSet
    <3> QED
      BY <3>1, <3>2 DEF Stops, Ev
  <2> QED
    BY <2>1 DEF IInv, StopsMeant, Stopping, Stopped, Terminal
<1>8. ASSUME NEW s \in Sections, RunOf(s) = r
      PROVE  core[s] = [state |-> "absent", pc |-> 1] /\ \A k \in Signals : ~Has(Line, Ev(k, s))
  <2>1. Raiser(s) = <<r>> /\ Last(s) \in Nat \ {0} /\ s \in Delegations
    BY <1>8, SectionFacts, PlaceFacts
  <2>2. Unstarted(s, Line)
    BY <1>2, <1>4, <2>1 DEF Account, Waits
  <2>3. core[s].state = "absent" /\ core[s].pc = 1
    BY <1>2, <2>1, <2>2 DEF Account, Starts, Unstarted
  <2> QED
    BY <1>1, <2>1, <2>2, <2>3 DEF Unstarted, CoreType
<1>9. ASSUME NEW a \in Asks, RunOf(a) = r PROVE Unraised(a) /\ ~Asked(a, Line)
  <2>1. Last(a) \in Nat \ {0} /\ Raiser(a) \in Delegations /\ RunOf(Raiser(a)) = r
    BY <1>9, PlaceFacts, AskFacts DEF Root
  <2>2. core[Raiser(a)] = [state |-> "absent", pc |-> 1]
    BY <1>4, <1>8, <2>1, DelegationFacts
  <2>3. Unraised(a)
    BY <2>1, <2>2 DEF Unraised
  <2> QED
    BY <2>3 DEF AInv, Untouched
<1>10. \A k \in Signals : ~Has(Line, Ev(k, <<r>>))
  BY <1>3, <1>6, <1>7 DEF Signals
<1> QED
  BY <1>4, <1>5, <1>8, <1>9, <1>10

-----------------------------------------------------------------------------
(* A turn of the api reactor: what it leaves in B, seen from the rest.     *)

Closes(r) == {Ev("delegateAck", <<r>>), Ev("terminateAck", <<r>>)}

Sends(B, i) ==
  \/ Plain(B, i)
  \/ \E r \in Runs :
       i = Ev("delegate", <<r>>) /\ api.run[r] = "none" /\ B.run[r] = "running" /\ <<r>> \in B.rows
  \/ \E a \in Questions, v \in AckValues : i = Ack(a, v) /\ a \in api.open /\ bus[1].k = "answer"

\* The rows of roots and the tasks only go, each for its reason.
ServedRows(B) ==
  /\ B \in Reactor /\ Tidy(B)
  /\ \A r \in Runs :
       /\ <<r>> \in B.rows \ api.rows => api.run[r] = "none"
       /\ api.run[r] = "none" /\ B.run[r] # "none" => <<r>> \in B.rows
       /\ <<r>> \in api.rows \ B.rows =>
            \/ bus[1] \in Closes(r)
            \/ B.run[r] = "error" /\ Ev("terminate", <<r>>) \in ToSet(B.out)
  /\ \A s \in api.tasks : s \in B.tasks \/ Root(s) \notin B.rows \/ bus[1] = Ev("delegateAck", s)
  /\ \A i \in ToSet(B.out) : Sends(B, i)

\* A question stays open until it is answered or its root is over.
ServedOpen(B) ==
  \A a \in Questions :
    /\ a \in api.open =>
         a \in B.open \/ Root(a) \notin B.rows \/ \E v \in AckValues : Ack(a, v) \in ToSet(B.out)
    /\ a \in B.open => a \in api.open \/ bus[1] = AskEv("escalate", a)
    /\ bus[1] = AskEv("escalate", a) => a \in B.open
    /\ bus[1] \in Closes(RunOf(a)) => a \notin B.open

\* Who awaits a run hears of it with its row.
ServedPromise(B) ==
  \A r \in Runs :
    /\ \/ promise'[r] = promise[r]
       \/ /\ promise[r] = "pending" /\ promise'[r] \in Terminal
          /\ B.run[r] = promise'[r] \/ B.run[r] = "error"
    /\ bus[1] \in Closes(r) => promise'[r] # "pending"

Served(B) == ServedRows(B) /\ ServedOpen(B) /\ ServedPromise(B)

\* What follows the reactor with a row retired, a task or a fence forgotten.
LEMMA RowsServed ==
  ASSUME IInv, NEW E \in Reactor, NEW B, Follows(E, B), Tidy(B),
         E.run = api.run, E.out = << >>, E.rows \subseteq api.rows,
         \A r \in Runs : <<r>> \in api.rows \ E.rows => bus[1] \in Closes(r),
         \A s \in api.tasks : s \in E.tasks \/ Root(s) \notin E.rows \/ bus[1] = Ev("delegateAck", s)
  PROVE  ServedRows(B)
<1>1. api \in Reactor /\ RootsLive(api)
  BY DEF IInv, TypeOK
<1>2. ASSUME NEW r \in Runs
      PROVE  /\ <<r>> \in B.rows \ api.rows => api.run[r] = "none"
             /\ api.run[r] = "none" /\ B.run[r] # "none" => <<r>> \in B.rows
             /\ <<r>> \in api.rows \ B.rows =>
                  \/ bus[1] \in Closes(r)
                  \/ B.run[r] = "error" /\ Ev("terminate", <<r>>) \in ToSet(B.out)
  <2>1. <<r>> \in B.rows => <<r>> \in E.rows
    BY RootFacts DEF Follows
  <2>2. <<r>> \in E.rows => api.run[r] # "none"
    BY <1>1 DEF RootsLive, Alive
  <2>3. <<r>> \notin E.rows => B.run[r] = api.run[r]
    BY DEF Follows
  <2>4. <<r>> \in E.rows \ B.rows => B.run[r] = "error" /\ Ev("terminate", <<r>>) \in ToSet(B.out)
    BY DEF Follows
  <2> QED
    BY <2>1, <2>2, <2>3, <2>4
<1>3. ASSUME NEW s \in api.tasks
      PROVE  s \in B.tasks \/ Root(s) \notin B.rows \/ bus[1] = Ev("delegateAck", s)
  <2>1. s \in Sections
    BY <1>1 DEF Reactor
  <2>2. Root(s) \notin E.rows => Root(s) \notin B.rows
    BY <2>1, RootIn DEF Follows
  <2> QED
    BY <2>2 DEF Follows
<1>4. \A i \in ToSet(B.out) : Sends(B, i)
  BY ToSetEmpty DEF Follows, Sends
<1>5. B \in Reactor
  BY DEF Follows
<1> QED
  BY <1>2, <1>3, <1>4, <1>5 DEF ServedRows

LEMMA OpenServed ==
  ASSUME NEW B, B.open = api.open,
         \A a \in Questions : bus[1] # AskEv("escalate", a) /\ bus[1] \notin Closes(RunOf(a))
  PROVE  ServedOpen(B)
BY DEF ServedOpen

LEMMA PromiseServed ==
  ASSUME NEW B, promise' = promise, \A r \in Runs : bus[1] \notin Closes(r)
  PROVE  ServedPromise(B)
BY DEF ServedPromise
-----------------------------------------------------------------------------
(* The turns, one by one.                                                  *)

LEMMA TurnFacts ==
  ASSUME IInv, SInv, AInv, loaded, bus # << >>
  PROVE  /\ api \in Reactor /\ SecRows(api) /\ Held(api) /\ Tidy(api) /\ api.out = << >>
         /\ Line = bus /\ bus \in Seq(Item) /\ bus[1] \in Item /\ Has(Line, bus[1])
         /\ api.tasks \subseteq Sections /\ api.run \in [Runs -> States]
         /\ promise \in [Runs -> {"none", "pending", "dropped"} \cup Terminal]
<1>1. api \in Reactor /\ api.out = << >> /\ bus \in Seq(Item) /\ SecRows(api) /\ Held(api) /\ Tidy(api)
  BY DEF IInv, TypeOK, SInv, Account, AInv
<1>2. bus[1] \in Item /\ 1 \in DOMAIN bus
  BY HeadFacts DEF IInv
<1>3. Line = bus
  BY DEF Line
<1> QED
  BY <1>1, <1>2, <1>3 DEF Has, Reactor, IInv, TypeOK

\* What ends the run that the delegation d answered for.
LEMMA EndServed ==
  ASSUME IInv, SInv, AInv, loaded, bus # << >>, NEW d \in Delegations, d \notin api.tasks,
         bus[1] \in {Ev("delegateAck", d), Ev("terminateAck", d)},
         NEW to \in Terminal, Settle(RunOf(d), to), NEW B,
         B = Closed(IF Live(api, d) THEN Outcome(Cleanup(Retire(api, d), RunOf(d)), RunOf(d), to)
                    ELSE Cleanup(Retire(api, d), RunOf(d)), RunOf(d))
  PROVE  Served(B)
<1> DEFINE r == RunOf(d)  A == Retire(api, d)  A1 == Cleanup(A, r)
           C == IF Live(api, d) THEN Outcome(A1, r, to) ELSE A1
<1>1. /\ api \in Reactor /\ SecRows(api) /\ Held(api) /\ Tidy(api) /\ api.out = << >>
      /\ Has(Line, bus[1]) /\ api.run \in [Runs -> States]
      /\ promise \in [Runs -> {"none", "pending", "dropped"} \cup Terminal]
  BY TurnFacts
<1>2. r \in Runs /\ (d = <<r>> \/ d \in Sections) /\ (d \in Sections => d \notin Roots /\ d # <<r>>)
  <2>1. r \in Runs /\ (d \in Roots \/ d \in Sections) /\ (d \in Roots => d = <<r>>) /\ <<r>> \in Roots
    BY DelegationFacts
  <2>2. d \in Sections => d \notin Roots
    BY SectionFacts
  <2> HIDE DEF r
  <2> QED
    BY <2>1, <2>2
<1>3. \E k \in Signals : bus[1] = Ev(k, d) /\ Has(Line, Ev(k, d)) /\ k \in {"delegateAck", "terminateAck"}
  BY <1>1 DEF Signals
<1>4. d \in Sections => <<r>> \notin api.rows
  BY <1>3 DEF AInv, Torn, Left, Root
<1>5. api.run[r] # "none"
  BY <1>2, <1>3, NotStarted
<1>6. \A q \in Runs : bus[1] \in Closes(q) => q = r
  BY EvFacts, RootFacts DEF Closes
<1>7. \A q \in Runs : d = <<q>> => bus[1] \in Closes(q)
  BY DEF Closes
<1>8. \A a : bus[1] # AskEv("escalate", a)
  BY EvFacts
<1>9. /\ A \in Reactor /\ SecRows(A) /\ A.rows = api.rows \ {d} /\ A.run = api.run /\ A.open = api.open
      /\ A.tasks = api.tasks /\ A.queue = api.queue /\ A.fence = api.fence /\ A.out = << >>
  <2>1. SecRows(A) /\ A.rows = api.rows \ {d}
    BY <1>1, RetireKeeps DEF Keeps
  <2> QED
    BY <1>1, <2>1 DEF Retire, Reactor
<1> HIDE DEF A
<1>10. Held(A) /\ <<r>> \notin A.rows /\ A.tasks \subseteq A.rows
  BY <1>1, <1>2, <1>4, <1>9 DEF Held, Spawned, Tidy
<1>11. \A s \in Queued(A) : RunOf(s) = r \/ Root(s) \in A.rows
  <2> SUFFICES ASSUME NEW s \in Queued(A), RunOf(s) # r PROVE Root(s) \in A.rows
    OBVIOUS
  <2>1. s \in Queued(api) /\ s \in Sections
    BY <1>1, <1>9 DEF Queued, Reactor
  <2>2. Root(s) \in api.rows /\ Root(s) \in Roots
    BY <1>1, <2>1, RootIn DEF Tidy
  <2>3. Root(s) # <<r>>
    BY DEF Root
  <2>4. Root(s) # d
    BY <1>2, <2>2, <2>3
  <2> QED
    BY <1>9, <2>2, <2>4
<1>12. Follows(A, A1) /\ Tidy(A1)
  <2> HIDE DEF r
  <2> QED
    BY <1>2, <1>9, <1>10, <1>11, CleanupFollows
<1> HIDE DEF A1
<1>13. ServedRows(A1)
  BY <1>7, <1>9, <1>12, RowsServed
<1>14. A1 \in Reactor /\ A1.open = api.open /\ A1.run[r] = api.run[r] /\ <<r>> \notin A1.rows
  BY <1>2, <1>9, <1>10, <1>12, RootFacts DEF Follows
<1>15. /\ C \in Reactor /\ C.rows = A1.rows /\ C.tasks = A1.tasks /\ C.queue = A1.queue
       /\ C.out = A1.out /\ C.open = A1.open
       /\ \A q \in Runs : q # r => C.run[q] = A1.run[q]
       /\ C.run[r] = IF Live(api, d) THEN to ELSE A1.run[r]
  <2>1. to \in States
    BY DEF States
  <2> HIDE DEF r
  <2> QED
    BY <1>2, <1>14, <2>1 DEF Outcome, Reactor
<1> HIDE DEF C
<1>16. /\ B \in Reactor /\ B.rows = A1.rows /\ B.tasks = A1.tasks /\ B.queue = A1.queue
       /\ B.out = A1.out /\ B.open = {a \in A1.open : RunOf(a) # r} /\ B.run = C.run
  <2>1. B = Closed(C, r)
    BY DEF C, A1, A, r
  <2> HIDE DEF r
  <2> QED
    BY <1>15, <2>1 DEF Closed, Reactor
<1>17. ServedRows(B)
  <2>1. Tidy(B)
    BY <1>12, <1>16 DEF Tidy, Queued
  <2>2. ASSUME NEW q \in Runs
        PROVE  /\ <<q>> \in B.rows \ api.rows => api.run[q] = "none"
               /\ api.run[q] = "none" /\ B.run[q] # "none" => <<q>> \in B.rows
               /\ <<q>> \in api.rows \ B.rows =>
                    \/ bus[1] \in Closes(q)
                    \/ B.run[q] = "error" /\ Ev("terminate", <<q>>) \in ToSet(B.out)
    <3>1. CASE q = r
      BY <1>2, <1>4, <1>5, <1>7, <1>14, <1>16, <3>1
    <3>2. CASE q # r
      BY <1>13, <1>15, <1>16, <3>2 DEF ServedRows
    <3> QED
      BY <3>1, <3>2
  <2>3. \A i : Plain(A1, i) => Plain(B, i)
    BY <1>16 DEF Plain
  <2>4. \A i \in ToSet(B.out) : Sends(B, i)
    <3>1. \A q \in Runs : <<q>> \in A1.rows => B.run[q] = A1.run[q]
      BY <1>14, <1>15, <1>16
    <3>2. \A i : Sends(A1, i) => Sends(B, i)
      BY <1>16, <2>3, <3>1 DEF Sends
    <3> QED
      BY <1>13, <1>16, <3>2 DEF ServedRows
  <2>5. \A s \in api.tasks : s \in B.tasks \/ Root(s) \notin B.rows \/ bus[1] = Ev("delegateAck", s)
    BY <1>13, <1>16 DEF ServedRows
  <2> QED
    BY <1>16, <2>1, <2>2, <2>4, <2>5 DEF ServedRows
<1>18. ServedOpen(B)
  <2>1. ASSUME NEW a \in Questions, RunOf(a) = r PROVE Root(a) \notin B.rows
    BY <1>14, <1>16, <2>1 DEF Root
  <2> QED
    BY <1>6, <1>8, <1>14, <1>16, <2>1, QuestionFacts DEF ServedOpen
<1>19. ServedPromise(B)
  <2>1. /\ promise' = [promise EXCEPT ![r] = IF @ = "pending" THEN to ELSE @]
        /\ to # "pending"
    BY DEF Settle, Terminal
  <2>2. ASSUME promise[r] = "pending" PROVE B.run[r] = to \/ B.run[r] = "error"
    <3>1. CASE Live(api, d)
      BY <1>15, <1>16, <3>1
    <3>2. CASE ~Live(api, d)
      <4>1. <<r>> \notin api.rows
        BY <1>2, <1>4, <3>2 DEF Live
      <4>2. api.run[r] = "error"
        BY <1>2, <1>5, <2>2, <4>1 DEF AInv, Promised
      <4> QED
        BY <1>14, <1>15, <1>16, <3>2, <4>2
    <3> QED
      BY <3>1, <3>2
  <2> HIDE DEF r
  <2> QED
    BY <1>1, <1>2, <1>6, <2>1, <2>2 DEF ServedPromise
<1> QED
  BY <1>17, <1>18, <1>19 DEF Served
\* Commands, and requests that the reactor answers by following itself.
LEMMA PlainServed ==
  ASSUME IInv, SInv, AInv, loaded, bus # << >>, NEW B, Follows(api, B), Tidy(B), promise' = promise,
         \A a \in Questions : bus[1] # AskEv("escalate", a), \A r \in Runs : bus[1] \notin Closes(r)
  PROVE  Served(B)
<1>1. api \in Reactor /\ api.out = << >> /\ B.open = api.open
  BY TurnFacts DEF Follows
<1>2. ServedRows(B)
  BY <1>1, RowsServed
<1>3. ServedOpen(B)
  BY <1>1, QuestionFacts, OpenServed
<1>4. ServedPromise(B)
  BY PromiseServed
<1> QED
  BY <1>2, <1>3, <1>4 DEF Served

\* What a command or a store's answer is not.
LEMMA CommandForms ==
  ASSUME NEW i, i.k \in Commands
  PROVE  (\A a : i # AskEv("escalate", a)) /\ (\A r : i \notin Closes(r)) /\ \A d : i # Ev("delegateAck", d)
BY DEF Commands, AskEv, Ev, Closes

Serves == \E B : Commit(B) /\ Served(B)

LEMMA StartRunServed ==
  ASSUME IInv, SInv, AInv, StartRun
  PROVE  Serves
<1>1. loaded /\ bus # << >> /\ bus[1].k = "start" /\ promise' = promise
  BY DEF StartRun, At
<1>2. /\ api \in Reactor /\ Tidy(api) /\ api.out = << >> /\ bus[1] \in Item /\ bus \in Seq(Item)
      /\ api.run \in [Runs -> States]
  BY <1>1, TurnFacts
<1>3. bus[1].d \in Roots
  BY <1>1, <1>2, ItemFacts
<1>4. PICK r \in Runs : bus[1].d = <<r>>
  BY <1>3 DEF Roots
<1>5. api.run[r] = "none"
  BY <1>1, <1>2, <1>4 DEF IInv, StartsOnce
<1> DEFINE d == <<r>>  e == Ev("delegate", d)
           B == Send([Outcome(api, r, "running") EXCEPT !.rows = @ \cup {d}], e)
<1>6. Commit(B)
  BY <1>4, RootFacts DEF StartRun
<1>7. e \in Item /\ d \in Delegations /\ d \notin Sections
  BY RootFacts, ItemsMade
<1> HIDE DEF d, e
<1>8. /\ B \in Reactor /\ B.rows = api.rows \cup {d} /\ B.run = [api.run EXCEPT ![r] = "running"]
      /\ B.tasks = api.tasks /\ B.queue = api.queue /\ B.open = api.open /\ B.out = <<e>>
  <2>1. Append(api.out, e) = <<e>> /\ <<e>> \in Seq(Item) /\ "running" \in States
    BY <1>2, <1>7 DEF States
  <2> QED
    BY <1>2, <1>7, <2>1 DEF Send, Outcome, Reactor
<1> HIDE DEF B
<1>9. ToSet(B.out) = {e}
  BY <1>8 DEF ToSet
<1>10. (\A a : bus[1] # AskEv("escalate", a)) /\ (\A q : bus[1] \notin Closes(q))
  BY <1>1, CommandForms DEF Commands
<1>11. Tidy(B)
  BY <1>2, <1>8 DEF Tidy, Queued
<1>12. Sends(B, e)
  <2>1. B.run[r] = "running"
    BY <1>2, <1>8
  <2> QED
    BY <1>5, <1>8, <2>1 DEF Sends, e, d
<1>13. \A q \in Runs : /\ <<q>> \in B.rows \ api.rows => q = r
                       /\ B.run[q] # api.run[q] => q = r /\ <<q>> \in B.rows
                       /\ <<q>> \in api.rows => <<q>> \in B.rows
  BY <1>2, <1>8 DEF d
<1>14. ServedRows(B)
  BY <1>5, <1>8, <1>9, <1>11, <1>12, <1>13 DEF ServedRows
<1>15. ServedOpen(B) /\ ServedPromise(B)
  BY <1>1, <1>8, <1>10, OpenServed, PromiseServed
<1> QED
  BY <1>6, <1>14, <1>15 DEF Serves, Served

LEMMA CancelRunServed ==
  ASSUME IInv, SInv, AInv, CancelRun
  PROVE  Serves
<1>1. loaded /\ bus # << >> /\ bus[1].k = "cancel" /\ promise' = promise
  BY DEF CancelRun, At
<1>2. /\ api \in Reactor /\ Tidy(api) /\ api.out = << >> /\ bus[1] \in Item /\ SecRows(api)
      /\ api.run \in [Runs -> States]
  BY <1>1, TurnFacts
<1>3. bus[1].d \in Roots
  BY <1>1, <1>2, ItemFacts
<1>4. PICK r \in Runs : bus[1].d = <<r>>
  BY <1>3 DEF Roots
<1>5. (\A a : bus[1] # AskEv("escalate", a)) /\ (\A q : bus[1] \notin Closes(q))
  BY <1>1, CommandForms DEF Commands
<1>6. CASE ~Live(api, <<r>>)
  <2>1. Commit(api)
    BY <1>4, <1>6 DEF CancelRun
  <2>2. Served(api)
    BY <1>1, <1>2, <1>5, FollowsSelf, PlainServed
  <2> QED
    BY <2>1, <2>2 DEF Serves
<1>7. CASE Live(api, <<r>>)
  <2> DEFINE d == <<r>>  e == Ev("terminate", d)  B == Send(Outcome(api, r, "cancelling"), e)
  <2>1. Commit(B)
    BY <1>4, <1>7, RootFacts DEF CancelRun
  <2>2. e \in Item
    BY RootEvents
  <2>3. Plain(B, e)
    BY DEF Plain
  <2> HIDE DEF e
  <2>4. /\ B \in Reactor /\ B.rows = api.rows /\ B.run = [api.run EXCEPT ![r] = "cancelling"]
        /\ B.tasks = api.tasks /\ B.queue = api.queue /\ B.open = api.open /\ B.out = <<e>>
    <3>1. Append(api.out, e) = <<e>> /\ <<e>> \in Seq(Item) /\ "cancelling" \in States
      BY <1>2, <2>2 DEF States
    <3> QED
      BY <1>2, <3>1 DEF Send, Outcome, Reactor
  <2> HIDE DEF B
  <2>5. ToSet(B.out) = {e}
    BY <2>4 DEF ToSet
  <2>6. Tidy(B)
    BY <1>2, <2>4 DEF Tidy, Queued
  <2>7. api.run[r] # "none"
    BY <1>7 DEF IInv, RootsLive, Alive, Live
  <2>8. \A q \in Runs : B.run[q] # api.run[q] => q = r
    BY <1>2, <2>4
  <2>9. ServedRows(B)
    BY <2>3, <2>4, <2>5, <2>6, <2>7, <2>8 DEF ServedRows, Sends
  <2>10. ServedOpen(B) /\ ServedPromise(B)
    BY <1>1, <1>5, <2>4, OpenServed, PromiseServed
  <2> QED
    BY <2>1, <2>9, <2>10 DEF Serves, Served
<1> QED
  BY <1>6, <1>7

LEMMA AnswerServed ==
  ASSUME IInv, SInv, AInv, AnswerEscalation
  PROVE  Serves
<1> DEFINE a == bus[1].ask  v == bus[1].value
<1>1. loaded /\ bus # << >> /\ bus[1].k = "answer" /\ promise' = promise
  BY DEF AnswerEscalation, At
<1>2. /\ api \in Reactor /\ Tidy(api) /\ api.out = << >> /\ bus[1] \in Item /\ SecRows(api)
  BY <1>1, TurnFacts
<1>3. a \in Asks /\ v \in AckValues
  BY <1>1, <1>2, ItemFacts DEF AckValues
<1>4. (\A b : bus[1] # AskEv("escalate", b)) /\ (\A q : bus[1] \notin Closes(q))
  BY <1>1, CommandForms DEF Commands
<1> HIDE DEF a, v
<1>5. CASE a \notin api.open
  <2>1. Commit(api)
    BY <1>5 DEF AnswerEscalation, a
  <2>2. Served(api)
    BY <1>1, <1>2, <1>4, FollowsSelf, PlainServed
  <2> QED
    BY <2>1, <2>2 DEF Serves
<1>6. CASE a \in api.open
  <2> DEFINE e == Ack(a, v)  B == Send([api EXCEPT !.open = @ \ {a}], e)
  <2>1. Commit(B)
    BY <1>6 DEF AnswerEscalation, a, v
  <2>2. e \in Item /\ a \in Questions
    BY <1>2, <1>3, <1>6, ItemsMade DEF AckValues, Reactor, Questions
  <2>3. Sends(B, e)
    BY <1>1, <1>3, <1>6, <2>2 DEF Sends
  <2> HIDE DEF e
  <2>4. /\ B \in Reactor /\ B.rows = api.rows /\ B.run = api.run
        /\ B.tasks = api.tasks /\ B.queue = api.queue /\ B.open = api.open \ {a} /\ B.out = <<e>>
    <3>1. Append(api.out, e) = <<e>> /\ <<e>> \in Seq(Item)
      BY <1>2, <2>2
    <3> QED
      BY <1>2, <3>1 DEF Send, Reactor
  <2> HIDE DEF B
  <2>5. ToSet(B.out) = {e}
    BY <2>4 DEF ToSet
  <2>6. Tidy(B)
    BY <1>2, <2>4 DEF Tidy, Queued
  <2>7. ServedRows(B)
    BY <2>3, <2>4, <2>5, <2>6 DEF ServedRows
  <2>8. ServedOpen(B)
    <3>1. Ack(a, v) \in ToSet(B.out)
      BY <2>5 DEF e
    <3> QED
      BY <1>3, <1>4, <2>4, <3>1 DEF ServedOpen
  <2>9. ServedPromise(B)
    BY <1>1, <1>4, PromiseServed
  <2> QED
    BY <2>1, <2>7, <2>8, <2>9 DEF Serves, Served
<1> QED
  BY <1>5, <1>6

\* StoreAnswered, FailRun, FailRunForStore and SpawnHead.
LEMMA CommandServed ==
  ASSUME IInv, SInv, AInv, FailRun \/ StoreAnswered \/ FailRunForStore \/ SpawnHead
  PROVE  Serves
<1>1. loaded /\ bus # << >> /\ bus[1].k \in Commands /\ promise' = promise
  BY DEF FailRun, StoreAnswered, FailRunForStore, SpawnHead, At, Commands
<1>2. /\ api \in Reactor /\ Tidy(api) /\ Held(api) /\ bus[1] \in Item /\ SecRows(api)
      /\ bus \in Seq(Item)
  BY <1>1, TurnFacts
<1>3. (\A b : bus[1] # AskEv("escalate", b)) /\ (\A q : bus[1] \notin Closes(q))
  BY <1>1, CommandForms
<1>4. SUFFICES \E B : Commit(B) /\ Follows(api, B) /\ Tidy(B)
  BY <1>1, <1>3, PlainServed DEF Serves
<1>5. CASE FailRun
  <2>1. bus[1].d \in Roots
    BY <1>2, <1>5, ItemFacts DEF FailRun, At
  <2>2. PICK r \in Runs : bus[1].d = <<r>>
    BY <2>1 DEF Roots
  <2> DEFINE C == Cleanup(Fail(api, <<r>>), r)
  <2>3. Commit(IF Live(api, <<r>>) THEN C ELSE api)
    BY <1>5, <2>2, RootFacts DEF FailRun
  <2>4. Follows(api, C) /\ Tidy(C)
    BY <1>2, FailCleanupFollows
  <2> HIDE DEF C
  <2> QED
    BY <1>2, <2>3, <2>4, FollowsSelf
<1>6. CASE StoreAnswered
  <2> DEFINE a == bus[1].ask  e == Ack(a, "stored")
  <2>1. Commit(Send(api, e)) /\ bus[1].k = "stored"
    BY <1>6 DEF StoreAnswered, At
  <2>2. a \in Of("store") /\ a \in Asks
    BY <1>1, <1>2, <2>1, ItemFacts DEF AInv, StoreOnly
  <2>3. e \in Item /\ a \notin Questions /\ "stored" \in AckValues
    BY <2>2, ItemsMade DEF Questions, Of, AckValues
  <2>4. Plain(api, e)
    BY <2>2, <2>3 DEF Plain
  <2> HIDE DEF e
  <2>5. Follows(api, Send(api, e)) /\ Tidy(Send(api, e))
    BY <1>2, <2>3, <2>4, SendFollows DEF Tidy, Queued
  <2> QED
    BY <2>1, <2>5
<1>7. CASE FailRunForStore
  <2>1. Commit(FailDelegation(api, bus[1].d)) /\ bus[1].k = "unstored"
    BY <1>7 DEF FailRunForStore, At
  <2>2. bus[1].d \in Delegations
    BY <1>2, <2>1, ItemFacts, AskFacts
  <2>3. Follows(api, FailDelegation(api, bus[1].d)) /\ Tidy(FailDelegation(api, bus[1].d))
    BY <1>2, <2>2, FailDelegationFollows
  <2> QED
    BY <2>1, <2>3
<1>8. CASE SpawnHead
  BY <1>2, <1>8, SpawnHeadFollows DEF SpawnHead
<1> QED
  BY <1>5, <1>6, <1>7, <1>8
\* The answer of a section that is not held lifts its fence.
LEMMA LiftServed ==
  ASSUME IInv, SInv, AInv, loaded, bus # << >>, NEW d \in Sections, d \notin api.tasks,
         bus[1] \in {Ev("delegateAck", d), Ev("terminateAck", d)}, promise' = promise, NEW E,
         \/ E = [Retire(api, d) EXCEPT !.fence = @ \ {d}]
         \/ E = [Retire(api, d) EXCEPT !.tasks = @ \ {d}, !.fence = @ \ {d}]
  PROVE  Served(SpawnHeadIfIdle(E))
<1>1. /\ api \in Reactor /\ SecRows(api) /\ Tidy(api) /\ api.out = << >>
  BY TurnFacts
<1>2. /\ E \in Reactor /\ E.rows = api.rows /\ E.tasks = api.tasks /\ E.run = api.run
      /\ E.open = api.open /\ E.queue = api.queue /\ E.out = api.out
  <2>1. d \notin api.rows
    BY <1>1 DEF SecRows
  <2> DEFINE A == Retire(api, d)
  <2>2. /\ A \in Reactor /\ A.rows = api.rows /\ A.tasks = api.tasks /\ A.run = api.run
        /\ A.open = api.open /\ A.queue = api.queue /\ A.out = api.out
    BY <1>1, <2>1 DEF Retire, Reactor
  <2>3. E = [A EXCEPT !.fence = @ \ {d}] \/ E = [A EXCEPT !.tasks = @ \ {d}, !.fence = @ \ {d}]
    OBVIOUS
  <2> HIDE DEF A
  <2>4. A.tasks \ {d} = A.tasks
    BY <2>2
  <2>5. /\ E \in Reactor /\ E.rows = A.rows /\ E.tasks = A.tasks /\ E.run = A.run
        /\ E.open = A.open /\ E.queue = A.queue /\ E.out = A.out
    <3>1. CASE E = [A EXCEPT !.fence = @ \ {d}]
      BY <2>2, <3>1 DEF Reactor
    <3>2. CASE E = [A EXCEPT !.tasks = @ \ {d}, !.fence = @ \ {d}]
      BY <2>2, <2>4, <3>2 DEF Reactor
    <3> QED
      BY <2>3, <3>1, <3>2
  <2> QED
    BY <2>2, <2>5
<1>3. SecRows(E) /\ Tidy(E)
  BY <1>1, <1>2 DEF SecRows, Tidy, Queued, Spawned
<1>4. (\A a : bus[1] # AskEv("escalate", a)) /\ (\A q \in Runs : bus[1] \notin Closes(q))
  BY EvFacts, RootFacts DEF Closes
<1> DEFINE B == SpawnHeadIfIdle(E)
<1>5. Follows(E, B) /\ Tidy(B)
  BY <1>2, <1>3, SpawnHeadFollows
<1> HIDE DEF B
<1>6. ServedRows(B)
  BY <1>1, <1>2, <1>5, RowsServed
<1>7. ServedOpen(B) /\ ServedPromise(B)
  BY <1>2, <1>4, <1>5, OpenServed, PromiseServed, QuestionFacts DEF Follows
<1> QED
  BY <1>6, <1>7 DEF Served, B

\* The answer of the section that holds the domain ends its exclusive.
LEMMA CompleteServed ==
  ASSUME IInv, SInv, AInv, loaded, bus # << >>, NEW d \in api.tasks,
         bus[1] = Ev("delegateAck", d), promise' = promise
  PROVE  Served(CompleteTask(Retire(api, d), d))
<1>1. /\ api \in Reactor /\ SecRows(api) /\ Tidy(api) /\ Held(api) /\ api.out = << >>
      /\ d \in Sections
  BY TurnFacts
<1> DEFINE A == Retire(api, d)  e == Ack(d, "done")
           E == [[A EXCEPT !.tasks = @ \ {d}] EXCEPT !.queue = {t \in @ : t.ask # d}]
           B == SpawnHeadIfIdle(Send(E, e))
<1>2. A.queue = api.queue
  BY <1>1 DEF Retire, Reactor
<1>3. d \in Queued(A)
  BY <1>1, <1>2 DEF Held, Spawned, Queued
<1>4. CompleteTask(A, d) = B
  BY <1>3 DEF CompleteTask
<1>5. /\ E \in Reactor /\ E.rows = api.rows \ {d} /\ E.tasks = api.tasks \ {d} /\ E.run = api.run
      /\ E.open = api.open /\ E.queue = {t \in api.queue : t.ask # d} /\ E.out = api.out
  BY <1>1 DEF Retire, Reactor
<1> HIDE DEF A, E
<1>6. Queued(E) \subseteq Queued(api) /\ Spawned(E) = Spawned(api) \ {d}
  BY <1>5 DEF Queued, Spawned
<1>7. SecRows(E)
  BY <1>1, <1>5, <1>6 DEF SecRows
<1>8. Queued(api) \subseteq Sections /\ d \notin Roots
  BY <1>1, SectionFacts DEF Queued, Reactor
<1>9. Tidy(E)
  BY <1>1, <1>5, <1>6, <1>8, RootIn DEF Tidy
<1>10. e \in Item /\ Plain(E, e)
  <2>1. d \in Asks /\ d \notin Questions /\ "done" \in AckValues
    BY <1>1, SectionFacts DEF Sections, Questions, Of, AckValues
  <2> QED
    BY <2>1, ItemsMade DEF Plain
<1> HIDE DEF e
<1> DEFINE C == Send(E, e)
<1>11. Follows(E, C) /\ C.rows = E.rows /\ C.queue = E.queue /\ C.tasks = E.tasks
  BY <1>5, <1>7, <1>10, SendFollows
<1> HIDE DEF C
<1>12. C \in Reactor /\ SecRows(C) /\ Tidy(C)
  BY <1>9, <1>11 DEF Follows, Tidy, Queued
<1>13. Follows(C, SpawnHeadIfIdle(C)) /\ Tidy(SpawnHeadIfIdle(C)) /\ B = SpawnHeadIfIdle(C)
  BY <1>12, SpawnHeadFollows DEF C
<1> HIDE DEF B
<1>14. Follows(E, B) /\ Tidy(B)
  BY <1>5, <1>11, <1>13, FollowsTrans
<1>15. ServedRows(B)
  <2>1. \A r \in Runs : <<r>> \notin api.rows \ E.rows
    BY <1>5, <1>8 DEF Roots
  <2>2. \A s \in api.tasks : s \in E.tasks \/ bus[1] = Ev("delegateAck", s)
    BY <1>5
  <2> QED
    BY <1>1, <1>5, <1>14, <2>1, <2>2, RowsServed
<1>16. (\A a : bus[1] # AskEv("escalate", a)) /\ (\A q \in Runs : bus[1] \notin Closes(q))
  BY <1>1, EvFacts, RootFacts DEF Closes
<1>17. ServedOpen(B) /\ ServedPromise(B)
  BY <1>5, <1>14, <1>16, OpenServed, PromiseServed, QuestionFacts DEF Follows
<1> QED
  BY <1>4, <1>15, <1>17 DEF Served, A

LEMMA DelegateAckServed ==
  ASSUME IInv, SInv, AInv, DelegateAck
  PROVE  Serves
<1> DEFINE d == bus[1].d  A == Retire(api, d)
<1>1. loaded /\ bus # << >> /\ bus[1].k = "delegateAck"
  BY DEF DelegateAck, At
<1>2. api \in Reactor /\ bus[1] \in Item
  BY <1>1, TurnFacts
<1>3. d \in Delegations /\ bus[1] = Ev("delegateAck", d)
  BY <1>1, <1>2, ItemForms DEF Signals
<1>4. CASE d \in api.tasks
  <2>1. Commit(CompleteTask(A, d)) /\ promise' = promise
    BY <1>4 DEF DelegateAck
  <2> HIDE DEF d
  <2>2. Served(CompleteTask(A, d))
    BY <1>1, <1>3, <1>4, <2>1, CompleteServed
  <2> QED
    BY <2>1, <2>2 DEF Serves
<1>5. CASE d \notin api.tasks /\ d \in api.fence
  <2> DEFINE E == [A EXCEPT !.fence = @ \ {d}]
  <2>1. Commit(SpawnHeadIfIdle(E)) /\ promise' = promise
    BY <1>5 DEF DelegateAck
  <2>2. d \in Sections
    BY <1>2, <1>5 DEF Reactor
  <2> HIDE DEF d
  <2>3. Served(SpawnHeadIfIdle(E))
    BY <1>1, <1>3, <1>5, <2>1, <2>2, LiftServed
  <2> QED
    BY <2>1, <2>3 DEF Serves
<1>6. CASE d \notin api.tasks /\ d \notin api.fence
  <2> DEFINE r == RunOf(d)  A1 == Cleanup(A, r)
             B == Closed(IF Live(api, d) THEN Outcome(A1, r, "done") ELSE A1, r)
  <2>1. Commit(B) /\ Settle(RunOf(d), "done")
    BY <1>6 DEF DelegateAck
  <2>2. "done" \in Terminal
    BY DEF Terminal
  <2> HIDE DEF d
  <2>3. Served(B)
    BY <1>1, <1>3, <1>6, <2>1, <2>2, EndServed
  <2> QED
    BY <2>1, <2>3 DEF Serves
<1> QED
  BY <1>4, <1>5, <1>6

LEMMA TerminateAckServed ==
  ASSUME IInv, SInv, AInv, TerminateAck
  PROVE  Serves
<1> DEFINE d == bus[1].d  A == Retire(api, d)
<1>1. loaded /\ bus # << >> /\ bus[1].k = "terminateAck"
  BY DEF TerminateAck, At
<1>2. api \in Reactor /\ bus[1] \in Item /\ Has(Line, bus[1]) /\ Held(api) /\ api.tasks \subseteq Sections
  BY <1>1, TurnFacts
<1>3. d \in Delegations /\ bus[1] = Ev("terminateAck", d)
  BY <1>1, <1>2, ItemForms DEF Signals
<1>4. d \notin api.tasks
  <2> SUFFICES ASSUME d \in api.tasks PROVE FALSE
    OBVIOUS
  <2>1. d \in Sections /\ d \in Queued(api)
    BY <1>2 DEF Held, Spawned, Queued
  <2> HIDE DEF d
  <2> QED
    BY <1>2, <1>3, <2>1 DEF SInv, Account, Ends
<1>5. CASE d \in api.fence
  <2> DEFINE E == [A EXCEPT !.tasks = @ \ {d}, !.fence = @ \ {d}]
  <2>1. Commit(SpawnHeadIfIdle(E)) /\ promise' = promise
    BY <1>5 DEF TerminateAck
  <2>2. d \in Sections
    BY <1>2, <1>5 DEF Reactor
  <2> HIDE DEF d
  <2>3. Served(SpawnHeadIfIdle(E))
    BY <1>1, <1>3, <1>4, <2>1, <2>2, LiftServed
  <2> QED
    BY <2>1, <2>3 DEF Serves
<1>6. CASE d \notin api.fence
  <2> DEFINE r == RunOf(d)  A1 == Cleanup(A, r)
             B == Closed(IF Live(api, d) THEN Outcome(A1, r, "cancelled") ELSE A1, r)
  <2>1. Commit(B) /\ Settle(RunOf(d), "cancelled")
    BY <1>4, <1>6 DEF TerminateAck
  <2>2. "cancelled" \in Terminal
    BY DEF Terminal
  <2> HIDE DEF d
  <2>3. Served(B)
    BY <1>1, <1>3, <1>4, <2>1, <2>2, EndServed
  <2> QED
    BY <2>1, <2>3 DEF Serves
<1> QED
  BY <1>5, <1>6

LEMMA EscalateServed ==
  ASSUME IInv, SInv, AInv, Escalate
  PROVE  Serves
<1> DEFINE a == bus[1].ask  kind == Request(a).kind  d == Raiser(a)  r == RunOf(a)
<1>1. loaded /\ bus # << >> /\ bus[1].k = "escalate"
  BY DEF Escalate, At
<1>2. /\ api \in Reactor /\ Tidy(api) /\ Held(api) /\ bus[1] \in Item /\ SecRows(api)
      /\ api.out = << >> /\ Has(Line, bus[1]) /\ Line = bus /\ bus \in Seq(Item)
      /\ promise \in [Runs -> {"none", "pending", "dropped"} \cup Terminal]
  BY <1>1, TurnFacts
<1>3. a \in Asks /\ bus[1] = AskEv("escalate", a)
  BY <1>1, <1>2, ItemForms
<1>4. kind \in Kinds
  BY <1>3, KindFacts
<1>5. \A q : bus[1] \notin Closes(q)
  BY <1>3, EvFacts DEF Closes
<1>6. \A b : bus[1] = AskEv("escalate", b) <=> b = a
  BY <1>3, EvFacts
<1>7. kind # "user" => a \notin Questions
  BY DEF Questions, Of
<1>8. CASE kind = "store"
  <2>1. Commit(api) /\ promise' = promise
    BY <1>8 DEF Escalate
  <2> HIDE DEF a
  <2>2. Served(api)
    BY <1>1, <1>2, <1>5, <1>6, <1>7, <1>8, <2>1, FollowsSelf, PlainServed
  <2> QED
    BY <2>1, <2>2 DEF Serves
<1>9. CASE kind = "exclusive"
  <2>1. Commit(Exclusive(api, a)) /\ promise' = promise
    BY <1>9 DEF Escalate
  <2> HIDE DEF a
  <2>2. Follows(api, Exclusive(api, a)) /\ Tidy(Exclusive(api, a))
    BY <1>2, <1>3, <1>9, ExclusiveFollows
  <2>3. Served(Exclusive(api, a))
    BY <1>1, <1>5, <1>6, <1>7, <1>9, <2>1, <2>2, PlainServed
  <2> QED
    BY <2>1, <2>3 DEF Serves
<1>10. CASE kind = "user"
  <2> DEFINE B == [api EXCEPT !.open = @ \cup {a}]
  <2>1. Commit(B) /\ promise' = promise
    BY <1>10 DEF Escalate
  <2>2. a \in Questions
    BY <1>3, <1>10 DEF Questions, Of
  <2> HIDE DEF a
  <2>3. /\ B \in Reactor /\ B.rows = api.rows /\ B.run = api.run /\ B.tasks = api.tasks
        /\ B.queue = api.queue /\ B.open = api.open \cup {a} /\ B.out = api.out
    BY <1>2, <2>2 DEF Reactor, Questions
  <2> HIDE DEF B
  <2>4. ToSet(B.out) = {}
    BY <1>2, <2>3, ToSetEmpty
  <2>5. Tidy(B)
    BY <1>2, <2>3 DEF Tidy, Queued
  <2>6. ServedRows(B)
    BY <2>3, <2>4, <2>5 DEF ServedRows
  <2>7. ServedOpen(B)
    BY <1>5, <1>6, <2>3 DEF ServedOpen
  <2>8. ServedPromise(B)
    BY <1>5, <2>1, PromiseServed
  <2> QED
    BY <2>1, <2>6, <2>7, <2>8 DEF Serves, Served
<1>11. CASE kind = "failure"
  <2> DEFINE C == FailDelegation(api, d)  B == Closed(C, r)
  <2>1. Commit(B) /\ Settle(r, "error")
    BY <1>11 DEF Escalate
  <2>2. d \in Delegations /\ r \in Runs /\ Root(d) = <<r>> /\ RunOf(d) = r
    <3> HIDE DEF a
    <3>1. d \in Delegations /\ r \in Runs /\ Root(d) = <<r>>
      BY <1>3, AskFacts, PlaceFacts DEF Root
    <3> QED
      BY <3>1 DEF Root
  <2>3. Asked(a, Line)
    BY <1>2, <1>3 DEF Asked
  <2>4. d \in Delegations /\ d \notin Roots => d \in Sections
    BY DelegationFacts
  <2> HIDE DEF a, d, r
  <2>5. api.run[r] # "none"
    BY <1>3, <2>2, <2>3, NotStarted DEF r
  <2>6. d \notin api.tasks /\ d \notin Roots => <<r>> \notin api.rows
    BY <1>3, <2>2, <2>3, <2>4 DEF AInv, Torn, Left, d
  <2>7. Follows(api, C) /\ Tidy(C) /\ (d \in api.tasks \/ d \in Roots => Root(d) \notin C.rows)
    BY <1>2, <2>2, FailDelegationFollows
  <2> HIDE DEF C
  <2>8. <<r>> \notin C.rows
    BY <2>2, <2>6, <2>7, RootFacts DEF Follows
  <2>9. ServedRows(C)
    BY <1>2, <2>7, RowsServed
  <2>10. C \in Reactor /\ C.open = api.open
    BY <2>7 DEF Follows
  <2>11. /\ B \in Reactor /\ B.rows = C.rows /\ B.tasks = C.tasks /\ B.queue = C.queue
         /\ B.out = C.out /\ B.open = {b \in C.open : RunOf(b) # r} /\ B.run = C.run
    BY <2>10 DEF Closed, Reactor
  <2> HIDE DEF B
  <2>12. ServedRows(B)
    <3>1. \A i : Plain(C, i) => Plain(B, i)
      BY <2>11 DEF Plain
    <3>2. \A i \in ToSet(B.out) : Sends(B, i)
      BY <2>9, <2>11, <3>1 DEF ServedRows, Sends
    <3>3. Tidy(B)
      BY <2>7, <2>11 DEF Tidy, Queued
    <3> QED
      BY <2>9, <2>11, <3>2, <3>3 DEF ServedRows
  <2>13. ServedOpen(B)
    <3>1. a \notin Questions
      BY <1>7, <1>11
    <3> QED
      BY <1>5, <1>6, <2>8, <2>10, <2>11, <3>1, QuestionFacts DEF ServedOpen
  <2>14. ServedPromise(B)
    <3>1. ASSUME promise[r] = "pending" PROVE B.run[r] = "error"
      <4>1. CASE <<r>> \in api.rows
        BY <2>2, <2>7, <2>8, <2>11, <4>1 DEF Follows
      <4>2. CASE <<r>> \notin api.rows
        <5>1. B.run[r] = api.run[r]
          BY <2>2, <2>7, <2>11, <4>2 DEF Follows
        <5>2. promise[r] = "pending" => api.run[r] = "error"
          BY <2>2, <2>5, <4>2 DEF AInv, Promised
        <5> QED
          BY <3>1, <5>1, <5>2
      <4> QED
        BY <4>1, <4>2
    <3> QED
      BY <1>2, <1>5, <2>1, <2>2, <3>1 DEF ServedPromise, Settle, Terminal
  <2> QED
    BY <2>1, <2>12, <2>13, <2>14 DEF Serves, Served
<1> QED
  BY <1>4, <1>8, <1>9, <1>10, <1>11 DEF Kinds
-----------------------------------------------------------------------------
(* What a served turn leaves of the invariant.                             *)

LEMMA AckForms ==
  /\ \A a, b, v, w : Ack(a, v) = Ack(b, w) <=> a = b /\ v = w
  /\ \A k, d, a, v : Ack(a, v) # Ev(k, d)
  /\ \A k, a, b, v : Ack(a, v) # AskEv(k, b)
  /\ \A a, v : Ack(a, v).k = "escalateAck" /\ IsEvent(Ack(a, v))
BY DEF Ack, Ev, AskEv, IsEvent, Events

LEMMA SendsForms ==
  ASSUME NEW B, NEW i, Sends(B, i)
  PROVE  /\ \A a : i # AskEv("escalate", a)
         /\ \A d : i # Ev("delegateAck", d) /\ i # Ev("terminateAck", d)
         /\ \A r \in Runs : i = Ev("delegate", <<r>>) =>
              api.run[r] = "none" /\ B.run[r] = "running" /\ <<r>> \in B.rows
         /\ \A s \in Sections : i = Ev("delegate", s) \/ i = Ev("terminate", s) =>
              s \in B.tasks \/ Root(s) \notin B.rows
         /\ \A a \in Questions : \A v : i = Ack(a, v) => a \in api.open /\ bus[1].k = "answer"
         /\ i.k # "stored"
<1>1. \A r \in Runs : \A s \in Sections : s # <<r>>
  BY RootFacts
<1>2. ASSUME NEW s \in Sections, NEW k \in {"delegate", "terminate"}, i = Ev(k, s),
             s \in B.tasks \/ Root(s) \notin B.rows
      PROVE  /\ \A a : i # AskEv("escalate", a)
             /\ \A d : i # Ev("delegateAck", d) /\ i # Ev("terminateAck", d)
             /\ \A r \in Runs : i # Ev("delegate", <<r>>)
             /\ \A t \in Sections : i = Ev("delegate", t) \/ i = Ev("terminate", t) => t = s
             /\ \A a, v : i # Ack(a, v)
             /\ i.k # "stored"
  BY <1>1, <1>2, EvFacts, AckForms DEF Ev
<1>3. ASSUME NEW r \in Runs, NEW k \in {"delegate", "terminate"}, i = Ev(k, <<r>>)
      PROVE  /\ \A a : i # AskEv("escalate", a)
             /\ \A d : i # Ev("delegateAck", d) /\ i # Ev("terminateAck", d)
             /\ \A q \in Runs : i = Ev("delegate", <<q>>) => q = r /\ k = "delegate"
             /\ \A t \in Sections : i # Ev("delegate", t) /\ i # Ev("terminate", t)
             /\ \A a, v : i # Ack(a, v)
             /\ i.k # "stored"
  <2>1. \A q \in Runs : <<q>> = <<r>> => q = r
    OBVIOUS
  <2> DEFINE d == <<r>>
  <2>2. \A t \in Sections : t # d
    BY <1>1
  <2> HIDE DEF d
  <2>3. i = Ev(k, d)
    BY <1>3 DEF d
  <2>4. /\ \A a : i # AskEv("escalate", a)
        /\ \A e : i # Ev("delegateAck", e) /\ i # Ev("terminateAck", e)
        /\ \A e : i = Ev("delegate", e) => e = d /\ k = "delegate"
        /\ \A t \in Sections : i # Ev("delegate", t) /\ i # Ev("terminate", t)
        /\ \A a, v : i # Ack(a, v)
    BY <2>2, <2>3, EvFacts, AckForms
  <2>5. i.k # "stored"
    BY <2>3 DEF Ev
  <2> QED
    BY <2>1, <2>4, <2>5 DEF d
<1>4. ASSUME NEW a, NEW v, i = Ack(a, v)
      PROVE  /\ \A b : i # AskEv("escalate", b)
             /\ \A k, d : i # Ev(k, d)
             /\ \A b, w : i = Ack(b, w) => b = a /\ w = v
             /\ i.k # "stored"
  BY <1>4, AckForms
<1>5. \/ \E s \in Sections : (s \in B.tasks \/ Root(s) \notin B.rows)
           /\ (i = Ev("delegate", s) \/ i = Ev("terminate", s))
      \/ \E r \in Runs : i = Ev("terminate", <<r>>) \/
           (i = Ev("delegate", <<r>>) /\ api.run[r] = "none" /\ B.run[r] = "running" /\ <<r>> \in B.rows)
      \/ \E a, v : i = Ack(a, v) /\ (a \notin Questions \/ (a \in api.open /\ bus[1].k = "answer"))
  BY DEF Sends, Plain
<1>6. CASE \E s \in Sections : (s \in B.tasks \/ Root(s) \notin B.rows)
           /\ (i = Ev("delegate", s) \/ i = Ev("terminate", s))
  <2>1. PICK s \in Sections : \E k \in {"delegate", "terminate"} :
          i = Ev(k, s) /\ (s \in B.tasks \/ Root(s) \notin B.rows)
    BY <1>6
  <2> QED
    BY <1>2, <2>1
<1>7. CASE \E r \in Runs : i = Ev("terminate", <<r>>) \/
           (i = Ev("delegate", <<r>>) /\ api.run[r] = "none" /\ B.run[r] = "running" /\ <<r>> \in B.rows)
  <2>1. PICK r \in Runs : \E k \in {"delegate", "terminate"} :
          i = Ev(k, <<r>>)
          /\ (k = "delegate" => api.run[r] = "none" /\ B.run[r] = "running" /\ <<r>> \in B.rows)
    BY <1>7
  <2>2. PICK k \in {"delegate", "terminate"} :
          i = Ev(k, <<r>>)
          /\ (k = "delegate" => api.run[r] = "none" /\ B.run[r] = "running" /\ <<r>> \in B.rows)
    BY <2>1
  <2> QED
    BY <1>3, <2>2
<1>8. CASE \E a, v : i = Ack(a, v) /\ (a \notin Questions \/ (a \in api.open /\ bus[1].k = "answer"))
  BY <1>4, <1>8
<1> QED
  BY <1>5, <1>6, <1>7, <1>8

\* What the line and the reactor are after a turn.
LEMMA TurnLine ==
  ASSUME IInv, loaded, bus # << >>, NEW B \in Reactor, Commit(B)
  PROVE  /\ Line = bus /\ Line' = bus' /\ bus' = Tail(bus) \o B.out
         /\ core' = core /\ raised' = raised /\ spent' = spent /\ loaded'
         /\ api'.rows = B.rows /\ api'.tasks = B.tasks /\ api'.open = B.open /\ api'.run = B.run
         /\ api'.queue = B.queue
         /\ \A x : Has(Line', x) <=> Has(Tail(bus), x) \/ x \in ToSet(B.out)
         /\ \A x : Has(bus, x) <=> x = bus[1] \/ Has(Tail(bus), x)
         /\ \A x, y : Precedes(Line', x, y) =>
              Precedes(bus, x, y) \/ (y \in ToSet(B.out) /\ Has(Line', x))
         /\ \A y : Has(Tail(bus), y) => Precedes(bus, bus[1], y)
<1>1. bus \in Seq(Item) /\ Tail(bus) \in Seq(Item) /\ B.out \in Seq(Item)
  BY DEF IInv, TypeOK, Reactor
<1>2. bus' = Tail(bus) \o B.out /\ loaded' /\ Line = bus /\ Line' = bus'
  BY DEF Commit, Line
<1>3. \A x : Has(B.out, x) <=> x \in ToSet(B.out)
  BY DEF Has, ToSet
<1>4. \A x, y : /\ Has(bus', x) <=> Has(Tail(bus), x) \/ Has(B.out, x)
                /\ Precedes(bus', x, y) <=>
                     Precedes(Tail(bus), x, y) \/ Precedes(B.out, x, y) \/ (Has(Tail(bus), x) /\ Has(B.out, y))
  BY <1>1, <1>2, OrderConcat
<1>5. \A x, y : /\ Has(bus, x) <=> x = bus[1] \/ Has(Tail(bus), x)
                /\ Precedes(bus, x, y) <=> (x = bus[1] /\ Has(Tail(bus), y)) \/ Precedes(Tail(bus), x, y)
  BY <1>1, OrderTail
<1>6. \A x, y : Precedes(B.out, x, y) => Has(B.out, x) /\ Has(B.out, y)
  BY OrderHas
<1>7. /\ core' = core /\ raised' = raised /\ spent' = spent
      /\ api'.rows = B.rows /\ api'.tasks = B.tasks /\ api'.open = B.open /\ api'.run = B.run
      /\ api'.queue = B.queue
  BY DEF Commit, Reactor
<1> QED
  BY <1>2, <1>3, <1>4, <1>5, <1>6, <1>7

LEMMA OutcomeStays ==
  ASSUME [Outcomes!Next]_(api.run), api.run \in [Runs -> States]
  PROVE  /\ \A r \in Runs : api.run[r] \in Terminal => api'.run[r] = api.run[r]
         /\ \A r \in Runs : api.run[r] # "none" => api'.run[r] # "none"
<1>1. CASE api'.run = api.run
  BY <1>1
<1>2. CASE Outcomes!Next
  <2>1. PICK q \in Runs : \/ Outcomes!Start(q) \/ Outcomes!RequestCancel(q) \/ Outcomes!Finish(q)
                          \/ Outcomes!FailIt(q) \/ Outcomes!Cancelled(q)
    BY <1>2 DEF Outcomes!Next
  <2>2. \E to : api'.run = [api.run EXCEPT ![q] = to] /\ api.run[q] \notin Terminal /\ to # "none"
    BY <2>1 DEF Outcomes!Start, Outcomes!RequestCancel, Outcomes!Finish, Outcomes!FailIt,
                Outcomes!Cancelled, Outcomes!Move, Outcomes!Alive, Terminal
  <2> QED
    BY <2>2
<1> QED
  BY <1>1, <1>2

LEMMA ServedTorn ==
  ASSUME IInv, SInv, AInv, loaded, bus # << >>, NEW B, ServedRows(B), Commit(B)
  PROVE  Torn'
<1>1. B \in Reactor
  BY DEF ServedRows
<1>2. /\ Line = bus /\ core' = core /\ api'.rows = B.rows /\ api'.tasks = B.tasks
      /\ \A x : Has(Line', x) <=> Has(Tail(bus), x) \/ x \in ToSet(B.out)
      /\ \A x : Has(bus, x) <=> x = bus[1] \/ Has(Tail(bus), x)
      /\ \A y : Has(Tail(bus), y) => Precedes(bus, bus[1], y)
  BY <1>1, TurnLine
<1>3. \A i \in ToSet(B.out) : Sends(B, i)
  BY DEF ServedRows
<1> SUFFICES ASSUME NEW s \in Sections, Left(s, Line)'
             PROVE  s \in B.tasks \/ Root(s) \notin B.rows
  BY <1>2 DEF Torn
<1>4. CASE \E k \in Signals : Ev(k, s) \in ToSet(B.out)
  <2>1. PICK k \in Signals : Ev(k, s) \in ToSet(B.out)
    BY <1>4
  <2>2. Sends(B, Ev(k, s))
    BY <1>3, <2>1
  <2>3. k \in {"delegate", "terminate"}
    BY <2>1, <2>2, SendsForms DEF Signals
  <2> QED
    BY <2>2, <2>3, SendsForms
<1>5. CASE \A k \in Signals : Ev(k, s) \notin ToSet(B.out)
  <2>1. \A a : AskEv("escalate", a) \notin ToSet(B.out)
    BY <1>3, SendsForms
  <2>2. \/ core[s].state \notin Dead
        \/ \E k \in Signals : Has(Tail(bus), Ev(k, s))
        \/ \E a \in Asks : Raiser(a) = s /\ Asked(a, Tail(bus))
    BY <1>2, <1>5, <2>1 DEF Left, Asked
  <2>3. Left(s, bus)
    BY <1>2, <2>2 DEF Left, Asked
  <2>4. s \in api.tasks \/ Root(s) \notin api.rows
    BY <1>2, <2>3 DEF AInv, Torn
  <2>5. bus[1] # Ev("delegateAck", s) \/ s \notin api.tasks
    <3> SUFFICES ASSUME bus[1] = Ev("delegateAck", s), s \in api.tasks PROVE FALSE
      OBVIOUS
    <3>1. Account(api, bus)
      BY <1>2 DEF SInv
    <3>2. Ends(api, bus, s) /\ s \in Queued(api) /\ s \in Delegations
      BY <3>1, SectionFacts DEF Account, Held, Spawned, Queued
    <3>3. Has(bus, Ev("delegateAck", s))
      BY <1>2
    <3>4. core[s].state \in Dead /\ \A k \in {"delegate", "terminate", "terminateAck"} : ~Has(bus, Ev(k, s))
      BY <3>2, <3>3 DEF Ends
    <3>5. ~Has(Tail(bus), Ev("delegateAck", s)) /\ \A a \in Asks : Raiser(a) = s => ~Asked(a, Tail(bus))
      BY <1>2, <3>2 DEF AInv, LastWord, Asked
    <3> QED
      BY <1>2, <2>2, <3>4, <3>5 DEF Signals
  <2>6. CASE s \in api.tasks
    BY <2>5, <2>6 DEF ServedRows
  <2>7. CASE Root(s) \notin api.rows
    <3> SUFFICES ASSUME Root(s) \in B.rows PROVE FALSE
      OBVIOUS
    <3> DEFINE r == RunOf(s)
    <3>1. r \in Runs /\ Root(s) = <<r>>
      BY SectionFacts DEF Root
    <3>2. api.run[r] = "none"
      BY <2>7, <3>1 DEF ServedRows
    <3>3. core[s].state = "absent" /\ \A k \in Signals : ~Has(bus, Ev(k, s))
      BY <1>2, <3>1, <3>2, NotStarted
    <3>4. \A a \in Asks : Raiser(a) = s => ~Asked(a, bus)
      <4> SUFFICES ASSUME NEW a \in Asks, Raiser(a) = s PROVE ~Asked(a, bus)
        OBVIOUS
      <4>1. Root(Raiser(a)) = Root(a)
        BY PlaceFacts
      <4>2. RunOf(a) = r
        BY <4>1 DEF Root
      <4> QED
        BY <1>2, <3>1, <3>2, <4>2, NotStarted
    <3> QED
      BY <2>3, <3>3, <3>4 DEF Left, Dead
  <2> QED
    BY <2>4, <2>6, <2>7
<1> QED
  BY <1>4, <1>5
LEMMA ServedUntouched ==
  ASSUME IInv, SInv, AInv, loaded, bus # << >>, NEW B, ServedRows(B), ServedOpen(B), Commit(B),
         log'.got = log.got, \A a \in Questions : a \notin api.open => log'.audit[a] = log.audit[a]
  PROVE  Untouched'
<1>1. B \in Reactor /\ \A i \in ToSet(B.out) : Sends(B, i)
  BY DEF ServedRows
<1>2. /\ Line = bus /\ core' = core /\ raised' = raised /\ api'.open = B.open
      /\ \A x : Has(Line', x) <=> Has(Tail(bus), x) \/ x \in ToSet(B.out)
      /\ \A x : Has(bus, x) <=> x = bus[1] \/ Has(Tail(bus), x)
  BY <1>1, TurnLine
<1> SUFFICES ASSUME NEW a \in Asks, Unraised(a)'
             PROVE  /\ ~Asked(a, Line')
                    /\ a \in Questions => /\ a \notin raised' /\ a \notin api'.open /\ ~Acked(a, Line')
                                          /\ log'.audit[a] = "none" /\ log'.got[a] = "none"
  BY DEF Untouched, Asked, Acked
<1>3. Unraised(a)
  BY <1>2 DEF Unraised
<1>4. /\ ~Asked(a, bus)
      /\ a \in Questions => /\ a \notin raised /\ a \notin api.open /\ ~Acked(a, bus)
                            /\ log.audit[a] = "none" /\ log.got[a] = "none"
  BY <1>2, <1>3 DEF AInv, Untouched
<1>5. ~Asked(a, Line')
  BY <1>1, <1>2, <1>4, SendsForms DEF Asked
<1>6. ASSUME a \in Questions PROVE a \notin api'.open /\ ~Acked(a, Line')
  <2>1. bus[1] # AskEv("escalate", a)
    BY <1>2, <1>4 DEF Asked
  <2>2. a \notin B.open
    BY <1>4, <1>6, <2>1 DEF ServedOpen
  <2>3. \A v \in AckValues : Ack(a, v) \notin ToSet(B.out)
    BY <1>1, <1>4, <1>6, SendsForms
  <2> QED
    BY <1>2, <1>4, <1>6, <2>2, <2>3 DEF Acked
<1> QED
  BY <1>2, <1>4, <1>5, <1>6

LEMMA ServedLastWord ==
  ASSUME IInv, SInv, AInv, loaded, bus # << >>, NEW B, ServedRows(B), Commit(B)
  PROVE  LastWord'
<1>1. B \in Reactor /\ \A i \in ToSet(B.out) : Sends(B, i)
  BY DEF ServedRows
<1>2. /\ Line = bus
      /\ \A x, y : Precedes(Line', x, y) =>
              Precedes(bus, x, y) \/ (y \in ToSet(B.out) /\ Has(Line', x))
  BY <1>1, TurnLine
<1>3. /\ \A d : Ev("delegateAck", d) \notin ToSet(B.out)
      /\ \A a : AskEv("escalate", a) \notin ToSet(B.out)
  BY <1>1, SendsForms
<1> QED
  BY <1>2, <1>3 DEF AInv, LastWord

LEMMA ServedReach ==
  ASSUME IInv, SInv, AInv, loaded, bus # << >>, bus[1].k # "escalateAck",
         NEW B, ServedRows(B), ServedOpen(B), Commit(B)
  PROVE  Reach'
<1>1. B \in Reactor /\ \A i \in ToSet(B.out) : Sends(B, i)
  BY DEF ServedRows
<1>2. /\ Line = bus /\ core' = core /\ raised' = raised /\ api'.open = B.open /\ api'.rows = B.rows
      /\ \A x : Has(Line', x) <=> Has(Tail(bus), x) \/ x \in ToSet(B.out)
      /\ \A x : Has(bus, x) <=> x = bus[1] \/ Has(Tail(bus), x)
  BY <1>1, TurnLine
<1> SUFFICES ASSUME NEW a \in Questions, a \in raised, Working(Raiser(a)), Raiser(a) \in B.rows
             PROVE  a \in B.open \/ Asked(a, Line') \/ Acked(a, Line')
  BY <1>2 DEF Reach, Working, Asked, Acked
<1>3. a \in Asks /\ Raiser(a) = Root(a) /\ Root(a) = <<RunOf(a)>> /\ RunOf(a) \in Runs
  BY QuestionFacts
<1>4. Raiser(a) \in api.rows
  <2> SUFFICES ASSUME Raiser(a) \notin api.rows PROVE FALSE
    OBVIOUS
  <2>1. api.run[RunOf(a)] = "none"
    BY <1>3 DEF ServedRows
  <2>2. Unraised(a)
    BY <1>3, <2>1, NotStarted
  <2> QED
    BY <1>3, <2>2 DEF AInv, Untouched
<1>5. a \in api.open \/ Asked(a, bus) \/ Acked(a, bus)
  BY <1>2, <1>4 DEF AInv, Reach
<1>6. CASE a \in api.open
  BY <1>2, <1>3, <1>6 DEF ServedOpen, Acked
<1>7. CASE Asked(a, bus)
  BY <1>2, <1>7 DEF ServedOpen, Asked
<1>8. CASE Acked(a, bus)
  BY <1>2, <1>8, AckForms DEF Acked
<1> QED
  BY <1>5, <1>6, <1>7, <1>8

LEMMA ServedPromised ==
  ASSUME IInv, SInv, AInv, loaded, bus # << >>, [Outcomes!Next]_(api.run),
         NEW B, ServedRows(B), ServedPromise(B), Commit(B)
  PROVE  Promised'
<1>1. B \in Reactor
  BY DEF ServedRows
<1>2. api'.run = B.run /\ api'.rows = B.rows
  BY <1>1, TurnLine
<1>3. api.run \in [Runs -> States]
  BY DEF IInv, TypeOK, Reactor
<1>4. \A r \in Runs : api.run[r] \in Terminal => B.run[r] = api.run[r]
  <2>1. \A r \in Runs : api.run[r] \in Terminal => api'.run[r] = api.run[r]
    BY <1>3, OutcomeStays
  <2> QED
    BY <1>2, <2>1
<1> SUFFICES ASSUME NEW r \in Runs
             PROVE  /\ promise'[r] \in Terminal => promise'[r] = B.run[r] \/ B.run[r] = "error"
                    /\ promise'[r] = "pending" /\ <<r>> \notin B.rows /\ B.run[r] # "none" =>
                         B.run[r] = "error"
  BY <1>2 DEF Promised
<1>5. /\ promise[r] \in Terminal => promise[r] = api.run[r] \/ api.run[r] = "error"
      /\ promise[r] = "pending" /\ <<r>> \notin api.rows /\ api.run[r] # "none" =>
           api.run[r] = "error"
  BY DEF AInv, Promised
<1>6. "error" \in Terminal /\ "pending" \notin Terminal
  BY DEF Terminal
<1>7. promise'[r] \in Terminal => promise'[r] = B.run[r] \/ B.run[r] = "error"
  BY <1>4, <1>5, <1>6 DEF ServedPromise
<1>8. ASSUME promise'[r] = "pending", <<r>> \notin B.rows, B.run[r] # "none" PROVE B.run[r] = "error"
  <2>1. promise[r] = "pending" /\ bus[1] \notin Closes(r)
    BY <1>6, <1>8 DEF ServedPromise
  <2>2. CASE <<r>> \in api.rows
    BY <1>8, <2>1, <2>2 DEF ServedRows
  <2>3. CASE <<r>> \notin api.rows
    <3>1. api.run[r] # "none"
      BY <1>8 DEF ServedRows
    <3> QED
      BY <1>4, <1>5, <1>6, <2>1, <2>3, <3>1
  <2> QED
    BY <2>2, <2>3
<1> QED
  BY <1>7, <1>8

LEMMA ServedRootAnswers ==
  ASSUME IInv, IInv', SInv, AInv, loaded, bus # << >>, bus[1].k # "terminate",
         [Outcomes!Next]_(api.run), NEW B, ServedRows(B), Commit(B)
  PROVE  RootAnswers'
<1>1. B \in Reactor /\ \A i \in ToSet(B.out) : Sends(B, i)
  BY DEF ServedRows
<1>2. /\ Line = bus /\ core' = core /\ api'.rows = B.rows /\ api'.run = B.run /\ spent' = spent
      /\ \A x : Has(Line', x) <=> Has(Tail(bus), x) \/ x \in ToSet(B.out)
      /\ \A x : Has(bus, x) <=> x = bus[1] \/ Has(Tail(bus), x)
      /\ \A x, y : Precedes(Line', x, y) =>
              Precedes(bus, x, y) \/ (y \in ToSet(B.out) /\ Has(Line', x))
      /\ bus' = Line' /\ bus' \in Seq(Item)
  BY <1>1, TurnLine DEF IInv, TypeOK
<1> SUFFICES ASSUME NEW r \in Runs
             PROVE  /\ Has(Line', Ev("delegateAck", <<r>>)) => B.run[r] # "none"
                    /\ Has(Line', Ev("delegateAck", <<r>>)) \/ Has(Line', Ev("terminateAck", <<r>>)) =>
                         core[<<r>>].state \in Dead /\ ~Has(Line', Ev("delegate", <<r>>))
                    /\ ~Precedes(Line', Ev("terminate", <<r>>), Ev("delegate", <<r>>))
                    /\ spent.drops = 0 /\ (Working(<<r>>) \/ Has(Line', Ev("delegate", <<r>>))) =>
                         <<r>> \in B.rows \/ Has(Line', Ev("terminate", <<r>>))
  BY <1>2 DEF RootAnswers, Working
<1>3. /\ Has(bus, Ev("delegateAck", <<r>>)) => api.run[r] # "none"
      /\ Has(bus, Ev("delegateAck", <<r>>)) \/ Has(bus, Ev("terminateAck", <<r>>)) =>
           core[<<r>>].state \in Dead /\ ~Has(bus, Ev("delegate", <<r>>))
      /\ ~Precedes(bus, Ev("terminate", <<r>>), Ev("delegate", <<r>>))
      /\ spent.drops = 0 /\ (Working(<<r>>) \/ Has(bus, Ev("delegate", <<r>>))) =>
           <<r>> \in api.rows \/ Has(bus, Ev("terminate", <<r>>))
  BY <1>2 DEF AInv, RootAnswers
<1>4. /\ Ev("delegateAck", <<r>>) \notin ToSet(B.out) /\ Ev("terminateAck", <<r>>) \notin ToSet(B.out)
      /\ Ev("delegate", <<r>>) \in ToSet(B.out) =>
           api.run[r] = "none" /\ B.run[r] = "running" /\ <<r>> \in B.rows
  BY <1>1, SendsForms
<1>5. api.run[r] = "none" => \A k \in Signals : ~Has(bus, Ev(k, <<r>>))
  BY <1>2, NotStarted
<1>6. Has(Line', Ev("terminate", <<r>>)) => B.run[r] # "running"
  <2> SUFFICES ASSUME Has(Line', Ev("terminate", <<r>>)) PROVE B.run[r] # "running"
    OBVIOUS
  <2>1. PICK n \in DOMAIN bus' : bus'[n] = Ev("terminate", <<r>>)
    BY <1>2 DEF Has
  <2>2. bus'[n] \in InFlight'
    BY DEF InFlight, ToSet
  <2>3. Stops(bus'[n], r)
    BY <2>1 DEF Stops, Ev
  <2>4. Stopping(r)'
    BY <2>2, <2>3 DEF Stopping, Stops
  <2>5. api'.run[r] \in Stopped
    BY <2>4 DEF IInv, StopsMeant
  <2> QED
    BY <1>2, <2>5 DEF Stopped, Terminal
<1>7. Has(Line', Ev("delegateAck", <<r>>)) => B.run[r] # "none"
  <2>1. Has(Line', Ev("delegateAck", <<r>>)) => api.run[r] # "none"
    BY <1>2, <1>3, <1>4
  <2>2. api.run \in [Runs -> States]
    BY DEF IInv, TypeOK, Reactor
  <2>3. \A q \in Runs : api.run[q] # "none" => api'.run[q] # "none"
    BY <2>2, OutcomeStays
  <2> QED
    BY <1>2, <2>1, <2>3
<1>8. Has(Line', Ev("delegateAck", <<r>>)) \/ Has(Line', Ev("terminateAck", <<r>>)) =>
        core[<<r>>].state \in Dead /\ ~Has(Line', Ev("delegate", <<r>>))
  BY <1>2, <1>3, <1>4, <1>5 DEF Signals
<1>9. ~Precedes(Line', Ev("terminate", <<r>>), Ev("delegate", <<r>>))
  BY <1>2, <1>3, <1>4, <1>6
<1>10. ASSUME spent.drops = 0, Working(<<r>>) \/ Has(Line', Ev("delegate", <<r>>)), <<r>> \notin B.rows
       PROVE  Has(Line', Ev("terminate", <<r>>))
  <2>1. Working(<<r>>) \/ Has(bus, Ev("delegate", <<r>>))
    BY <1>2, <1>4, <1>10
  <2>2. CASE <<r>> \in api.rows
    <3>1. bus[1] \notin Closes(r)
      BY <1>2, <1>3, <2>1 DEF Closes, Working, Dead
    <3> QED
      BY <1>2, <1>10, <2>2, <3>1 DEF ServedRows
  <2>3. CASE <<r>> \notin api.rows
    <3>1. bus[1] # Ev("terminate", <<r>>)
      BY DEF Ev
    <3> QED
      BY <1>2, <1>3, <1>10, <2>1, <2>3, <3>1
  <2> QED
    BY <2>2, <2>3
<1> QED
  BY <1>7, <1>8, <1>9, <1>10

LEMMA ServedOpened ==
  ASSUME IInv, SInv, AInv, loaded, bus # << >>, NEW B, ServedRows(B), ServedOpen(B), Commit(B)
  PROVE  Opened'
<1>1. B \in Reactor /\ \A i \in ToSet(B.out) : Sends(B, i)
  BY DEF ServedRows
<1>2. /\ Line = bus /\ core' = core /\ raised' = raised /\ api'.open = B.open /\ spent' = spent
      /\ \A x : Has(Line', x) <=> Has(Tail(bus), x) \/ x \in ToSet(B.out)
      /\ \A x : Has(bus, x) <=> x = bus[1] \/ Has(Tail(bus), x)
      /\ \A y : Has(Tail(bus), y) => Precedes(bus, bus[1], y)
  BY <1>1, TurnLine
<1> SUFFICES ASSUME spent.drops = 0, NEW a \in Questions
             PROVE  /\ a \in B.open \/ Asked(a, Line') =>
                         \/ core[Raiser(a)].state \notin Dead
                         \/ Has(Line', Ev("delegateAck", Raiser(a)))
                         \/ Has(Line', Ev("terminateAck", Raiser(a)))
                    /\ a \in raised => core[Raiser(a)].state \notin Dead
  BY <1>2 DEF Opened, Asked
<1>3. /\ a \in api.open \/ Asked(a, bus) =>
           \/ core[Raiser(a)].state \notin Dead
           \/ Has(bus, Ev("delegateAck", Raiser(a))) \/ Has(bus, Ev("terminateAck", Raiser(a)))
      /\ a \in raised => core[Raiser(a)].state \notin Dead
  BY <1>2 DEF AInv, Opened
<1>4. a \in Asks /\ Raiser(a) = <<RunOf(a)>> /\ Raiser(a) \in Delegations
  BY QuestionFacts
<1>5. ASSUME a \in B.open \/ Asked(a, Line')
      PROVE  \/ core[Raiser(a)].state \notin Dead
             \/ Has(Line', Ev("delegateAck", Raiser(a))) \/ Has(Line', Ev("terminateAck", Raiser(a)))
  <2>1. Asked(a, Line') => Asked(a, Tail(bus))
    BY <1>1, <1>2, SendsForms DEF Asked
  <2>2. a \in api.open \/ Asked(a, bus)
    BY <1>2, <1>5, <2>1 DEF ServedOpen, Asked
  <2>3. bus[1] \notin Closes(RunOf(a))
    <3> SUFFICES ASSUME bus[1] \in Closes(RunOf(a)) PROVE FALSE
      OBVIOUS
    <3>1. Asked(a, Tail(bus))
      BY <1>5, <2>1 DEF ServedOpen
    <3>2. bus[1] \in {Ev("delegateAck", Raiser(a)), Ev("terminateAck", Raiser(a))}
      BY <1>4 DEF Closes
    <3> QED
      BY <1>2, <1>4, <3>1, <3>2 DEF AInv, LastWord, Asked
  <2>4. bus[1] # Ev("delegateAck", Raiser(a)) /\ bus[1] # Ev("terminateAck", Raiser(a))
    BY <1>4, <2>3 DEF Closes
  <2> QED
    BY <1>2, <1>3, <2>2, <2>4
<1> QED
  BY <1>3, <1>5
LEMMA LeadsNone == ASSUME NEW L, NEW x, NEW y, ~Has(L, y) PROVE Leads(L, x, y)
BY DEF Has, Leads

\* A turn that answers no question.
LEMMA ServedAudited ==
  ASSUME IInv, AInv, loaded, bus # << >>, bus[1].k # "escalateAck", NEW B \in Reactor, Commit(B),
         log' = log, \A a \in Questions : \A v : Ack(a, v) \notin ToSet(B.out)
  PROVE  Audited'
<1>1. bus \in Seq(Item) /\ Tail(bus) \in Seq(Item) /\ B.out \in Seq(Item)
  BY DEF IInv, TypeOK, Reactor
<1>2. /\ Line = bus /\ Line' = Tail(bus) \o B.out /\ raised' = raised /\ spent' = spent
      /\ \A x : Has(Line', x) <=> Has(Tail(bus), x) \/ x \in ToSet(B.out)
      /\ \A x : Has(bus, x) <=> x = bus[1] \/ Has(Tail(bus), x)
  BY TurnLine
<1>3. \A a, v : bus[1] # Ack(a, v)
  BY AckForms
<1>4. \A a \in Questions : \A v : Has(Line', Ack(a, v)) <=> Has(bus, Ack(a, v))
  BY <1>2, <1>3
<1>5. ASSUME NEW a \in Questions, NEW v, NEW w, Leads(bus, Ack(a, v), Ack(a, w))
      PROVE  Leads(Line', Ack(a, v), Ack(a, w))
  <2>1. Leads(Tail(bus), Ack(a, v), Ack(a, w))
    BY <1>1, <1>3, <1>5, LeadsTail
  <2>2. ~Has(B.out, Ack(a, w))
    BY DEF Has, ToSet
  <2>3. Leads(B.out, Ack(a, v), Ack(a, w))
    BY <2>2, LeadsNone
  <2> QED
    BY <1>1, <1>2, <2>1, <2>3, LeadsConcat
<1> QED
  BY <1>2, <1>4, <1>5 DEF AInv, Audited

\* The first answer is audited, and ahead of the others on its way.
LEMMA AnswerAudited ==
  ASSUME IInv, SInv, AInv, AnswerEscalation, bus[1].ask \in api.open
  PROVE  Audited' /\ Logged'
<1> DEFINE a == bus[1].ask  v == bus[1].value  e == Ack(a, v)
<1>1. /\ loaded /\ bus # << >> /\ bus[1].k = "answer" /\ api.out = << >> /\ api \in Reactor
      /\ bus \in Seq(Item) /\ Tail(bus) \in Seq(Item) /\ bus[1] \in Item /\ Line = bus
  BY TurnFacts DEF AnswerEscalation, At
<1>2. a \in Asks /\ v \in AckValues
  BY <1>1, ItemFacts DEF AckValues
<1>3. e \in Item
  BY <1>2, ItemsMade DEF AckValues
<1>4. Commit(Send([api EXCEPT !.open = @ \ {a}], e))
      /\ log' = [log EXCEPT !.audit[a] = IF @ = "none" THEN v ELSE @]
  BY DEF AnswerEscalation
<1> HIDE DEF a, v, e
<1>5. Send([api EXCEPT !.open = @ \ {a}], e).out = Append(api.out, e)
  BY <1>1 DEF Send, Reactor
<1>6. bus' = Append(Tail(bus), e) /\ Line' = bus' /\ raised' = raised /\ spent' = spent
  <2> DEFINE S == Send([api EXCEPT !.open = @ \ {a}], e)
  <2>1. Commit(S) /\ S.out = Append(api.out, e)
    BY <1>4, <1>5
  <2> HIDE DEF S
  <2>2. bus' = Tail(bus) \o S.out /\ loaded' = loaded /\ raised' = raised /\ spent' = spent
    BY <2>1 DEF Commit
  <2>3. Append(<< >>, e) = <<e>> /\ Tail(bus) \o <<e>> = Append(Tail(bus), e)
    BY <1>1, <1>3
  <2>4. bus' = Append(Tail(bus), e)
    BY <1>1, <2>1, <2>2, <2>3
  <2> QED
    BY <1>1, <2>2, <2>4 DEF Line
<1>7. Logged
  BY DEF AInv
<1>8. /\ log'.got = log.got /\ \A b \in Asks : b # a => log'.audit[b] = log.audit[b]
      /\ log'.audit[a] = IF log.audit[a] = "none" THEN v ELSE log.audit[a]
      /\ Logged'
  BY <1>2, <1>4, <1>7 DEF Logged
<1>9. \A x : /\ Has(Line', x) <=> Has(Tail(bus), x) \/ x = e
             /\ Has(bus, x) <=> x = bus[1] \/ Has(Tail(bus), x)
  BY ZenonT(30), <1>1, <1>3, <1>6, OrderAppend, OrderTail
<1>10. \A b, w : bus[1] # Ack(b, w)
  BY <1>1, AckForms
<1>11. \A b, w : Has(Line', Ack(b, w)) <=> Has(bus, Ack(b, w)) \/ (b = a /\ w = v)
  BY <1>9, <1>10, AckForms DEF e
<1>12. ASSUME NEW b, NEW u, NEW w, Leads(bus, Ack(b, u), Ack(b, w)),
              b = a /\ w = v => Has(bus, Ack(b, u))
       PROVE  Leads(Line', Ack(b, u), Ack(b, w))
  <2>1. Leads(Tail(bus), Ack(b, u), Ack(b, w))
    BY <1>1, <1>10, <1>12, LeadsTail
  <2>2. e = Ack(b, w) => Has(Tail(bus), Ack(b, u))
    BY <1>9, <1>10, <1>12, AckForms DEF e
  <2> QED
    BY <1>1, <1>3, <1>6, <2>1, <2>2, LeadsAppend
<1>13. ASSUME spent.drops = 0, NEW b \in Questions
       PROVE  /\ log'.got[b] # "none" => log'.got[b] = log'.audit[b]
              /\ log'.audit[b] = "none" => \A w \in AckValues \ {"none"} : ~Has(Line', Ack(b, w))
              /\ b \in raised /\ log'.audit[b] # "none" =>
                   /\ Has(Line', Ack(b, log'.audit[b]))
                   /\ \A w \in AckValues \ {"none", log'.audit[b]} :
                        Leads(Line', Ack(b, log'.audit[b]), Ack(b, w))
  <2>1. /\ log.got[b] # "none" => log.got[b] = log.audit[b]
        /\ log.audit[b] = "none" => \A w \in AckValues \ {"none"} : ~Has(bus, Ack(b, w))
        /\ b \in raised /\ log.audit[b] # "none" =>
             /\ Has(bus, Ack(b, log.audit[b]))
             /\ \A w \in AckValues \ {"none", log.audit[b]} :
                  Leads(bus, Ack(b, log.audit[b]), Ack(b, w))
    BY <1>1, <1>13 DEF AInv, Audited
  <2>2. b \in Asks
    BY QuestionFacts
  <2>3. CASE b # a
    BY <1>8, <1>11, <1>12, <2>1, <2>2, <2>3
  <2>4. CASE b = a /\ log.audit[a] # "none"
    BY <1>8, <1>11, <1>12, <2>1, <2>2, <2>4
  <2>5. CASE b = a /\ log.audit[a] = "none"
    <3>1. log'.audit[b] = v /\ log'.got[b] = "none"
      BY <1>8, <2>1, <2>5
    <3>2. \A w \in AckValues \ {"none"} : ~Has(bus, Ack(b, w))
      BY <2>1, <2>5
    <3>3. \A w \in AckValues \ {"none", v} : Leads(Line', Ack(b, v), Ack(b, w))
      BY <1>11, <3>2, LeadsNone
    <3> QED
      BY <1>11, <2>5, <3>1, <3>2, <3>3
  <2> QED
    BY <2>3, <2>4, <2>5
<1> QED
  BY <1>6, <1>8, <1>13 DEF Audited

LEMMA ServedKeeps ==
  ASSUME IInv, IInv', SInv, AInv, loaded, bus # << >>, [Outcomes!Next]_(api.run),
         bus[1].k \notin {"terminate", "escalateAck"}, NEW B, Served(B), Commit(B),
         Logged', Audited', log'.got = log.got,
         \A a \in Questions : a \notin api.open => log'.audit[a] = log.audit[a],
         \A a \in Asks : io'[a] > 0 => a \in Of("store")
  PROVE  AInv'
<1>1. ServedRows(B) /\ ServedOpen(B) /\ ServedPromise(B)
  BY DEF Served
<1>2. /\ B \in Reactor /\ Tidy(B) /\ \A i \in ToSet(B.out) : Sends(B, i)
  BY <1>1 DEF ServedRows
<1>3. /\ api'.rows = B.rows /\ api'.tasks = B.tasks /\ api'.queue = B.queue
      /\ bus' = Line'
      /\ \A x : Has(Line', x) <=> Has(Tail(bus), x) \/ x \in ToSet(B.out)
      /\ \A x : Has(bus, x) <=> x = bus[1] \/ Has(Tail(bus), x)
  BY <1>2, TurnLine
<1>4. Tidy(api)'
  BY <1>2, <1>3 DEF Tidy, Queued
<1>5. StoreOnly'
  <2> SUFFICES ASSUME NEW n \in DOMAIN bus', bus'[n].k = "stored" PROVE bus'[n].ask \in Of("store")
    BY DEF StoreOnly
  <2>1. Has(bus', bus'[n])
    BY DEF Has
  <2>2. bus'[n] \notin ToSet(B.out)
    BY <1>2, SendsForms
  <2>3. Has(bus, bus'[n])
    BY <1>3, <2>1, <2>2
  <2> QED
    BY <2>3 DEF Has, AInv, StoreOnly
<1>6. Untouched' /\ Torn' /\ LastWord' /\ Reach' /\ Promised' /\ RootAnswers' /\ Opened'
  BY <1>1, ServedUntouched, ServedTorn, ServedLastWord, ServedReach, ServedPromised,
     ServedRootAnswers, ServedOpened
<1> QED
  BY <1>4, <1>5, <1>6 DEF AInv

\* The turns of the api reactor.
ApiTurn ==
  \/ StartRun \/ CancelRun \/ FailRun \/ AnswerEscalation \/ StoreAnswered \/ FailRunForStore
  \/ SpawnHead \/ DelegateAck \/ TerminateAck \/ Escalate

LEMMA ApiTurnKeeps ==
  ASSUME IInv, IInv', SInv, AInv, [Outcomes!Next]_(api.run), ApiTurn
  PROVE  AInv'
<1>1. loaded /\ bus # << >> /\ bus[1].k \notin {"terminate", "escalateAck"}
  BY DEF ApiTurn, StartRun, CancelRun, FailRun, AnswerEscalation, StoreAnswered, FailRunForStore,
         SpawnHead, DelegateAck, TerminateAck, Escalate, At
<1>2. Serves
  BY StartRunServed, CancelRunServed, AnswerServed, CommandServed, DelegateAckServed,
     TerminateAckServed, EscalateServed DEF ApiTurn
<1>3. PICK B : Commit(B) /\ Served(B)
  BY <1>2 DEF Serves
<1>4. B \in Reactor /\ \A i \in ToSet(B.out) : Sends(B, i)
  BY <1>3 DEF Served, ServedRows
<1>5. \A a \in Asks : io'[a] > 0 => a \in Of("store")
  <2>1. CASE io' = io
    BY <2>1 DEF AInv, StoreOnly
  <2>2. CASE io' # io
    <3>1. /\ Escalate /\ Request(bus[1].ask).kind = "store"
          /\ io' = [io EXCEPT ![bus[1].ask] = @ + 1] /\ io \in [Asks -> Nat]
      BY <2>2 DEF ApiTurn, StartRun, CancelRun, FailRun, AnswerEscalation, StoreAnswered,
         FailRunForStore, SpawnHead, DelegateAck, TerminateAck, Escalate, IInv, TypeOK
    <3>2. \A a \in Asks : a # bus[1].ask => io'[a] = io[a]
      BY <3>1
    <3> QED
      BY <3>1, <3>2 DEF AInv, StoreOnly, Of
  <2> QED
    BY <2>1, <2>2
<1>6. CASE AnswerEscalation /\ bus[1].ask \in api.open
  <2>1. Audited' /\ Logged'
    BY <1>6, AnswerAudited
  <2>2. Logged
    BY DEF AInv
  <2>3. log'.got = log.got /\ \A a \in Questions : a \notin api.open => log'.audit[a] = log.audit[a]
    <3> DEFINE b == bus[1].ask  v == bus[1].value
    <3>1. log' = [log EXCEPT !.audit[b] = IF @ = "none" THEN v ELSE @] /\ b \in api.open
      BY <1>6 DEF AnswerEscalation
    <3> HIDE DEF b, v
    <3>2. log'.got = log.got /\ \A a \in Asks : a # b => log'.audit[a] = log.audit[a]
      BY <2>2, <3>1 DEF Logged
    <3>3. \A a \in Questions : a \in Asks
      BY QuestionFacts
    <3> QED
      BY <3>1, <3>2, <3>3
  <2> QED
    BY <1>1, <1>3, <1>5, <2>1, <2>3, ServedKeeps
<1>7. CASE ~(AnswerEscalation /\ bus[1].ask \in api.open)
  <2>1. log' = log
    BY <1>7 DEF ApiTurn, StartRun, CancelRun, FailRun, AnswerEscalation, StoreAnswered,
       FailRunForStore, SpawnHead, DelegateAck, TerminateAck, Escalate
  <2>2. \A a \in Questions : \A v : Ack(a, v) \notin ToSet(B.out)
    <3>1. CASE bus[1].k # "answer"
      BY <1>4, <3>1, SendsForms
    <3>2. CASE bus[1].k = "answer"
      <4>1. Commit(api)
        BY <1>7, <3>2 DEF ApiTurn, StartRun, CancelRun, FailRun, AnswerEscalation, StoreAnswered,
           FailRunForStore, SpawnHead, DelegateAck, TerminateAck, Escalate, At
      <4>2. api.out = << >> /\ api \in Reactor /\ bus \in Seq(Item)
        BY <1>1, TurnFacts
      <4>3. bus' = Tail(bus) \o << >> /\ bus' = Tail(bus) \o B.out
        BY <1>3, <4>1, <4>2 DEF Commit
      <4>4. B.out = << >>
        <5> DEFINE o == B.out  t == Tail(bus)
        <5>1. o \in Seq(Item) /\ t \in Seq(Item) /\ t \o << >> = t \o o
          BY <1>1, <1>4, <4>2, <4>3 DEF Reactor
        <5> HIDE DEF o, t
        <5>2. Len(t \o o) = Len(t) + Len(o) /\ Len(t \o << >>) = Len(t) /\ Len(t) \in Nat /\ Len(o) \in Nat
          BY <5>1
        <5>3. Len(o) = 0
          BY <5>1, <5>2
        <5>4. o = << >>
          BY <5>1, <5>3
        <5> QED
          BY <5>4 DEF o
      <4> QED
        BY <4>4, ToSetEmpty
    <3> QED
      BY <3>1, <3>2
  <2>3. Audited'
    BY <1>1, <1>3, <1>4, <2>1, <2>2, ServedAudited
  <2>4. Logged'
    BY <2>1 DEF AInv, Logged
  <2> QED
    BY <1>1, <1>3, <1>5, <2>1, <2>3, <2>4, ServedKeeps
<1> QED
  BY <1>6, <1>7
-----------------------------------------------------------------------------
(* The reactors below.                                                     *)

LEMMA PopLine ==
  ASSUME IInv, loaded, loaded', bus # << >>, bus' = Tail(bus)
  PROVE  /\ Line = bus /\ Line' = bus' /\ bus[1] \in Item /\ Has(bus, bus[1])
         /\ \A x : Has(bus, x) <=> x = bus[1] \/ Has(Line', x)
         /\ \A x, y : Precedes(Line', x, y) => Precedes(bus, x, y)
         /\ \A y : Has(Line', y) => Precedes(bus, bus[1], y)
         /\ \A x, y : Leads(bus, x, y) => bus[1] # y /\ (bus[1] # x => Leads(Line', x, y))
<1>1. bus \in Seq(Item)
  BY DEF IInv, TypeOK
<1>2. Line = bus /\ Line' = bus' /\ bus[1] \in Item /\ 1 \in DOMAIN bus
  BY <1>1, HeadFacts DEF Line
<1>3. \A x, y : /\ Has(bus, x) <=> x = bus[1] \/ Has(Tail(bus), x)
                /\ Precedes(bus, x, y) <=> (x = bus[1] /\ Has(Tail(bus), y)) \/ Precedes(Tail(bus), x, y)
                /\ Leads(bus, x, y) => bus[1] # y /\ (bus[1] # x => Leads(Tail(bus), x, y))
  BY <1>1, OrderTail, LeadsTail
<1> QED
  BY <1>2, <1>3

LEMMA PushLine ==
  ASSUME IInv, loaded, loaded', NEW e \in Item, bus' = Append(bus, e)
  PROVE  /\ Line = bus /\ Line' = bus'
         /\ \A x : Has(Line', x) <=> Has(bus, x) \/ x = e
         /\ \A x, y : Precedes(Line', x, y) <=> Precedes(bus, x, y) \/ (Has(bus, x) /\ y = e)
         /\ \A x, y : Leads(bus, x, y) /\ y # e => Leads(Line', x, y)
<1>1. bus \in Seq(Item)
  BY DEF IInv, TypeOK
<1>2. Line = bus /\ Line' = bus'
  BY DEF Line
<1>3. \A x, y : /\ Has(Append(bus, e), x) <=> Has(bus, x) \/ x = e
                /\ Precedes(Append(bus, e), x, y) <=> Precedes(bus, x, y) \/ (Has(bus, x) /\ y = e)
  BY <1>1, OrderAppend
<1>4. \A x, y : Leads(bus, x, y) /\ y # e => Leads(Append(bus, e), x, y)
  BY <1>1, LeadsAppend
<1> QED
  BY <1>2, <1>3, <1>4

\* What a step of a reactor below leaves to the api reactor.
LEMMA CoreRest ==
  ASSUME AInv, api' = api, promise' = promise, io' = io,
         \A x : Has(bus', x) /\ x.k = "stored" => Has(bus, x)
  PROVE  StoreOnly' /\ Tidy(api)' /\ Promised'
<1>1. StoreOnly'
  <2> SUFFICES ASSUME NEW n \in DOMAIN bus', bus'[n].k = "stored" PROVE bus'[n].ask \in Of("store")
    BY DEF AInv, StoreOnly
  <2>1. Has(bus, bus'[n])
    BY DEF Has
  <2> QED
    BY <2>1 DEF Has, AInv, StoreOnly
<1> QED
  BY <1>1 DEF AInv, Tidy, Queued, Promised

LEMMA AckItem == ASSUME NEW i \in Item, i.k = "escalateAck" PROVE i = Ack(i.ask, i.value)
<1>1. CASE i \in [k : {"start", "cancel", "failRun"}, d : Roots] \cup [k : {"kick"}, d : {<<>>}]
  BY <1>1
<1>2. CASE i \in {AskEv(k, a) : k \in {"stored", "unstored", "escalate"}, a \in Asks}
  BY <1>2 DEF AskEv
<1>3. CASE i \in {[k |-> k, d |-> Raiser(a), ask |-> a, value |-> v] :
                    k \in {"answer", "escalateAck"}, a \in Asks, v \in Answers \cup {"done", "stored"}}
  BY <1>3 DEF Ack
<1>4. CASE i \in [k : {"delegate", "terminate", "delegateAck", "terminateAck"}, d : Delegations]
  BY <1>4
<1> QED
  BY <1>1, <1>2, <1>3, <1>4 DEF Item

LEMMA CoreIsAnsweredAgrees ==
  ASSUME IInv, SInv, AInv, CoreIsAnswered
  PROVE  AInv'
<1> DEFINE a == bus[1].ask  v == bus[1].value  d == Raiser(bus[1].ask)
           heard == bus[1].ask \in raised /\ core[Raiser(bus[1].ask)].state \in {"running", "asking"}
<1>1. /\ loaded /\ bus # << >> /\ bus[1].k = "escalateAck" /\ bus' = Tail(bus)
      /\ api' = api /\ promise' = promise /\ loaded' = loaded /\ io' = io /\ spent' = spent
      /\ raised' = raised \ {a}
      /\ log' = IF heard THEN [log EXCEPT !.got[a] = v] ELSE log
  BY DEF CoreIsAnswered, At, CoreTurn
<1>2. /\ Line = bus /\ Line' = bus' /\ bus[1] \in Item /\ Has(bus, bus[1])
      /\ \A x : Has(bus, x) <=> x = bus[1] \/ Has(Line', x)
      /\ \A x, y : Precedes(Line', x, y) => Precedes(bus, x, y)
      /\ \A x, y : Leads(bus, x, y) => bus[1] # y /\ (bus[1] # x => Leads(Line', x, y))
  BY <1>1, PopLine
<1>3. a \in Asks /\ v \in AckValues
  BY <1>1, <1>2, ItemFacts DEF AckValues
<1>4. bus[1] = Ack(a, v)
  BY <1>1, <1>2, AckItem
<1>5. \A e \in Delegations : core'[e].pc = core[e].pc /\ Alike(core[e].state, core'[e].state)
  <2>1. core' = core \/ (core' = To(d, "running") /\ core[d].state = "asking")
    BY DEF CoreIsAnswered
  <2>2. core \in CoreType
    BY DEF IInv, TypeOK, CoreType
  <2> HIDE DEF d
  <2> QED
    BY <2>1, <2>2 DEF To, CoreType, Alike
<1>6. \A e \in Delegations : /\ core'[e].pc = core[e].pc
                             /\ core'[e].state \in Dead <=> core[e].state \in Dead
                             /\ Working(e)' <=> Working(e)
  BY <1>5 DEF Alike, Dead, Working
<1>7. heard => a \in raised
  OBVIOUS
<1> HIDE DEF a, v, d, heard
<1>8. Logged
  BY DEF AInv
<1>9. /\ Logged' /\ log'.audit = log.audit
      /\ \A b \in Asks : log'.got[b] = IF heard /\ b = a THEN v ELSE log.got[b]
  BY <1>1, <1>3, <1>8 DEF Logged
<1>10. \A x : (\A k, e : Ev(k, e) # bus[1]) /\ (\A k, b : AskEv(k, b) # bus[1])
  BY <1>4, EvFacts
<1>11. \A b : Asked(b, Line') <=> Asked(b, bus)
  BY <1>2, <1>10 DEF Asked
<1>12. \A k, e : Has(Line', Ev(k, e)) <=> Has(bus, Ev(k, e))
  BY <1>2, <1>10
<1>13. \A b : b # a => (Acked(b, Line') <=> Acked(b, bus))
  BY <1>2, <1>4, AckForms DEF Acked
<1>14. Acked(a, bus) /\ (Acked(a, Line') => Acked(a, bus))
  BY <1>2, <1>3, <1>4 DEF Acked
<1>15. \A b \in Asks : Raiser(b) \in Delegations
  BY AskFacts
<1>16. Untouched'
  <2> SUFFICES ASSUME NEW b \in Asks, Unraised(b)'
               PROVE  /\ ~Asked(b, Line')
                      /\ b \in Questions => /\ b \notin raised' /\ b \notin api.open /\ ~Acked(b, Line')
                                            /\ log'.audit[b] = "none" /\ log'.got[b] = "none"
    BY <1>1 DEF Untouched, Asked, Acked
  <2>1. Unraised(b)
    BY <1>6, <1>15 DEF Unraised
  <2>2. /\ ~Asked(b, bus)
        /\ b \in Questions => /\ b \notin raised /\ b \notin api.open /\ ~Acked(b, bus)
                              /\ log.audit[b] = "none" /\ log.got[b] = "none"
    BY <1>2, <2>1 DEF AInv, Untouched
  <2>3. b \in Questions => b # a
    BY <1>14, <2>2
  <2> QED
    BY <1>1, <1>9, <1>11, <1>13, <2>2, <2>3
<1>17. Audited'
  <2> SUFFICES ASSUME spent.drops = 0, NEW b \in Questions
               PROVE  /\ log'.got[b] # "none" => log'.got[b] = log'.audit[b]
                      /\ log'.audit[b] = "none" => \A w \in AckValues \ {"none"} : ~Has(Line', Ack(b, w))
                      /\ b \in raised' /\ log'.audit[b] # "none" =>
                           /\ Has(Line', Ack(b, log'.audit[b]))
                           /\ \A w \in AckValues \ {"none", log'.audit[b]} :
                                Leads(Line', Ack(b, log'.audit[b]), Ack(b, w))
    BY <1>1 DEF Audited
  <2>1. /\ log.got[b] # "none" => log.got[b] = log.audit[b]
        /\ log.audit[b] = "none" => \A w \in AckValues \ {"none"} : ~Has(bus, Ack(b, w))
        /\ b \in raised /\ log.audit[b] # "none" =>
             /\ Has(bus, Ack(b, log.audit[b]))
             /\ \A w \in AckValues \ {"none", log.audit[b]} :
                  Leads(bus, Ack(b, log.audit[b]), Ack(b, w))
    BY <1>2 DEF AInv, Audited
  <2>2. b \in Asks
    BY QuestionFacts
  <2>3. CASE b # a
    <3>1. log'.got[b] = log.got[b] /\ log'.audit[b] = log.audit[b] /\ (b \in raised' => b \in raised)
      BY <1>1, <1>9, <2>2, <2>3
    <3>2. \A w : bus[1] # Ack(b, w)
      BY <1>4, <2>3, AckForms
    <3>3. \A w : Has(Line', Ack(b, w)) <=> Has(bus, Ack(b, w))
      BY <1>2, <3>2
    <3>4. \A u, w : Leads(bus, Ack(b, u), Ack(b, w)) => Leads(Line', Ack(b, u), Ack(b, w))
      BY <1>2, <3>2
    <3> QED
      BY <2>1, <3>1, <3>3, <3>4
  <2>4. CASE b = a
    <3>1. a \notin raised' /\ (log.audit[b] = "none" => \A w \in AckValues \ {"none"} : ~Has(Line', Ack(b, w)))
      BY <1>1, <1>2, <2>1
    <3>2. heard /\ v # "none" => v = log.audit[b]
      <4> SUFFICES ASSUME heard, v # "none", v # log.audit[b] PROVE FALSE
        OBVIOUS
      <4>1. log.audit[b] # "none"
        BY <1>2, <1>3, <1>4, <2>1, <2>4
      <4>2. Leads(bus, Ack(b, log.audit[b]), Ack(b, v))
        BY <1>3, <1>7, <2>1, <2>4, <4>1
      <4> QED
        BY <1>2, <1>4, <2>4, <4>2
    <3> QED
      BY <1>9, <2>1, <2>2, <2>4, <3>1, <3>2
  <2> QED
    BY <2>3, <2>4
<1>18. Torn'
  <2>1. \A s \in Sections : Left(s, Line)' => Left(s, Line)
    BY <1>2, <1>6, <1>11, <1>12, SectionFacts DEF Left, Asked
  <2> QED
    BY <1>1, <2>1 DEF AInv, Torn
<1>19. LastWord'
  BY <1>2 DEF AInv, LastWord
<1>20. Reach'
  <2> SUFFICES ASSUME NEW b \in Questions, b \in raised', Working(Raiser(b))', Raiser(b) \in api.rows
               PROVE  b \in api.open \/ Asked(b, Line') \/ Acked(b, Line')
    BY <1>1 DEF Reach, Asked, Acked
  <2>1. b # a /\ b \in raised /\ Working(Raiser(b))
    BY <1>1, <1>6, QuestionFacts
  <2> QED
    BY <1>1, <1>2, <1>11, <1>13, <2>1 DEF AInv, Reach
<1>21. RootAnswers'
  <2>1. \A r \in Runs : <<r>> \in Delegations
    BY RootFacts
  <2> QED
    BY <1>1, <1>2, <1>6, <1>12, <2>1 DEF AInv, RootAnswers
<1>22. Opened'
  <2>1. \A b \in Questions : Raiser(b) \in Delegations
    BY QuestionFacts
  <2> QED
    BY <1>1, <1>2, <1>6, <1>11, <1>12, <2>1 DEF AInv, Opened, Asked
<1>23. StoreOnly' /\ Tidy(api)' /\ Promised'
  BY <1>1, <1>2, CoreRest
<1> QED
  BY <1>9, <1>16, <1>17, <1>18, <1>19, <1>20, <1>21, <1>22, <1>23 DEF AInv

LEMMA CoreStartsAgrees ==
  ASSUME IInv, SInv, AInv, CoreStarts
  PROVE  AInv'
<1> DEFINE d == bus[1].d
<1>1. /\ loaded /\ bus # << >> /\ bus[1].k = "delegate" /\ bus' = Tail(bus)
      /\ api' = api /\ promise' = promise /\ loaded' = loaded /\ io' = io /\ spent' = spent
      /\ raised' = raised /\ log' = log
      /\ core' = [core EXCEPT ![d] = [state |-> "running", pc |-> 1]]
  BY DEF CoreStarts, At, CoreTurn
<1>2. /\ Line = bus /\ Line' = bus' /\ bus[1] \in Item /\ Has(bus, bus[1])
      /\ \A x : Has(bus, x) <=> x = bus[1] \/ Has(Line', x)
      /\ \A x, y : Precedes(Line', x, y) => Precedes(bus, x, y)
      /\ \A x, y : Leads(bus, x, y) => bus[1] # y /\ (bus[1] # x => Leads(Line', x, y))
  BY <1>1, PopLine
<1>3. d \in Delegations /\ bus[1] = Ev("delegate", d)
  BY <1>1, <1>2, ItemForms DEF Signals
<1> HIDE DEF d
<1>4. core[d].state = "absent" /\ core[d].pc = 1 /\ core \in CoreType
  BY <1>2, <1>3 DEF SInv, Account, Starts, IInv, TypeOK, CoreType
<1>5. /\ \A e \in Delegations : e # d => core'[e] = core[e]
      /\ core'[d].state = "running" /\ core'[d].pc = 1
  BY <1>1, <1>3, <1>4 DEF CoreType
<1>6. \A e \in Delegations : core'[e].pc = core[e].pc /\ (core'[e].state \in Dead => core[e].state \in Dead)
  BY <1>4, <1>5 DEF Dead
<1>7. /\ \A k, e : k # "delegate" => Ev(k, e) # bus[1]
      /\ \A k, b : AskEv(k, b) # bus[1]
      /\ \A b, v : Ack(b, v) # bus[1]
  BY <1>3, EvFacts
<1>8. \A b : (Asked(b, Line') <=> Asked(b, bus)) /\ (Acked(b, Line') <=> Acked(b, bus))
  BY <1>2, <1>7 DEF Asked, Acked
<1>9. \A k, e : k # "delegate" => (Has(Line', Ev(k, e)) <=> Has(bus, Ev(k, e)))
  BY <1>2, <1>7
<1>10. \A b \in Asks : Raiser(b) \in Delegations
  BY AskFacts
<1>11. Untouched'
  <2>1. \A b \in Asks : Unraised(b)' => Unraised(b)
    BY <1>6, <1>10 DEF Unraised
  <2> QED
    BY <1>1, <1>2, <1>8, <2>1 DEF AInv, Untouched, Asked, Acked
<1>12. Audited'
  <2>1. \A b, w : Has(Line', Ack(b, w)) <=> Has(bus, Ack(b, w))
    BY <1>2, <1>7
  <2>2. \A b, u, w : Leads(bus, Ack(b, u), Ack(b, w)) => Leads(Line', Ack(b, u), Ack(b, w))
    BY <1>2, <1>7
  <2> QED
    BY <1>1, <1>2, <2>1, <2>2 DEF AInv, Audited
<1>13. Torn'
  <2>1. ASSUME NEW s \in Sections, Left(s, Line)' PROVE Left(s, Line)
    <3>1. CASE s = d
      BY <1>2, <1>3, <3>1 DEF Left, Signals
    <3>2. CASE s # d
      BY <1>2, <1>5, <1>8, <2>1, <3>2, SectionFacts DEF Left, Asked
    <3> QED
      BY <3>1, <3>2
  <2> QED
    BY <1>1, <2>1 DEF AInv, Torn
<1>14. LastWord'
  BY <1>2 DEF AInv, LastWord
<1>15. Reach'
  <2> SUFFICES ASSUME NEW b \in Questions, b \in raised, Working(Raiser(b))', Raiser(b) \in api.rows
               PROVE  b \in api.open \/ Asked(b, Line') \/ Acked(b, Line')
    BY <1>1 DEF Reach, Asked, Acked
  <2>1. Raiser(b) # d
    <3> SUFFICES ASSUME Raiser(b) = d PROVE FALSE
      OBVIOUS
    <3>1. Unraised(b)
      BY <1>4, QuestionFacts DEF Unraised
    <3> QED
      BY <3>1, QuestionFacts DEF AInv, Untouched
  <2>2. Working(Raiser(b))
    BY <1>5, <2>1, QuestionFacts DEF Working
  <2> QED
    BY <1>1, <1>2, <1>8, <2>2 DEF AInv, Reach
<1>16. RootAnswers'
  <2> SUFFICES ASSUME NEW r \in Runs
               PROVE  /\ Has(Line', Ev("delegateAck", <<r>>)) => api.run[r] # "none"
                      /\ Has(Line', Ev("delegateAck", <<r>>)) \/ Has(Line', Ev("terminateAck", <<r>>)) =>
                           core'[<<r>>].state \in Dead /\ ~Has(Line', Ev("delegate", <<r>>))
                      /\ ~Precedes(Line', Ev("terminate", <<r>>), Ev("delegate", <<r>>))
                      /\ spent.drops = 0 /\ (Working(<<r>>)' \/ Has(Line', Ev("delegate", <<r>>))) =>
                           <<r>> \in api.rows \/ Has(Line', Ev("terminate", <<r>>))
    BY <1>1 DEF RootAnswers
  <2>1. /\ Has(bus, Ev("delegateAck", <<r>>)) => api.run[r] # "none"
        /\ Has(bus, Ev("delegateAck", <<r>>)) \/ Has(bus, Ev("terminateAck", <<r>>)) =>
             core[<<r>>].state \in Dead /\ ~Has(bus, Ev("delegate", <<r>>))
        /\ ~Precedes(bus, Ev("terminate", <<r>>), Ev("delegate", <<r>>))
        /\ spent.drops = 0 /\ (Working(<<r>>) \/ Has(bus, Ev("delegate", <<r>>))) =>
             <<r>> \in api.rows \/ Has(bus, Ev("terminate", <<r>>))
    BY <1>2 DEF AInv, RootAnswers
  <2>2. Has(Line', Ev("delegate", <<r>>)) => Has(bus, Ev("delegate", <<r>>))
    BY <1>2
  <2>3. CASE <<r>> = d
    BY <1>2, <1>3, <1>9, <2>1, <2>2, <2>3
  <2>4. CASE <<r>> # d
    <3>1. core'[<<r>>] = core[<<r>>]
      BY <1>5, <2>4, RootFacts
    <3> QED
      BY <1>2, <1>9, <2>1, <2>2, <3>1 DEF Working
  <2> QED
    BY <2>3, <2>4
<1>17. Opened'
  <2>1. \A b \in Questions : Raiser(b) \in Delegations
    BY QuestionFacts
  <2> QED
    BY <1>1, <1>2, <1>6, <1>8, <1>9, <2>1 DEF AInv, Opened, Asked
<1>18. StoreOnly' /\ Tidy(api)' /\ Promised'
  BY <1>1, <1>2, CoreRest
<1>19. Logged'
  BY <1>1 DEF AInv, Logged
<1> QED
  BY <1>11, <1>12, <1>13, <1>14, <1>15, <1>16, <1>17, <1>18, <1>19 DEF AInv
LEMMA CoreTerminatesAgrees ==
  ASSUME IInv, SInv, AInv, CoreTerminates
  PROVE  AInv'
<1> DEFINE d == bus[1].d  e == Ev("terminateAck", d)  b == Tail(bus)
<1>1. /\ loaded /\ bus # << >> /\ bus[1].k = "terminate"
      /\ api' = api /\ promise' = promise /\ loaded' = loaded /\ io' = io /\ spent' = spent
      /\ raised' = raised /\ log' = log
      /\ \/ core[d].state \in Dead /\ bus' = Append(b, e) /\ core' = core
         \/ core[d].state \notin Dead /\ bus' = b /\ core' = To(d, "stopping")
  BY DEF CoreTerminates, At, CoreTurn
<1>2. bus \in Seq(Item) /\ b \in Seq(Item) /\ bus[1] \in Item /\ 1 \in DOMAIN bus /\ core \in CoreType
  BY <1>1, Popped, HeadFacts DEF IInv, TypeOK, CoreType
<1>3. d \in Delegations /\ bus[1] = Ev("terminate", d)
  BY <1>1, <1>2, ItemForms DEF Signals
<1>4. e \in Item
  BY <1>3, ItemsMade
<1>5. Line = bus /\ Line' = bus' /\ Has(bus, bus[1])
  BY <1>1, <1>2 DEF Line, Has
<1>6. /\ \A x : Has(bus, x) <=> x = bus[1] \/ Has(b, x)
      /\ \A x, y : Precedes(b, x, y) => Precedes(bus, x, y)
      /\ \A y : Has(b, y) => Precedes(bus, bus[1], y)
      /\ \A x, y : Leads(bus, x, y) => bus[1] # y /\ (bus[1] # x => Leads(b, x, y))
  BY <1>1, <1>2, OrderTail, LeadsTail
<1> HIDE DEF b
<1>7. /\ \A x : Has(Append(b, e), x) <=> Has(b, x) \/ x = e
      /\ \A x, y : Precedes(Append(b, e), x, y) <=> Precedes(b, x, y) \/ (Has(b, x) /\ y = e)
      /\ \A x, y : Leads(b, x, y) /\ y # e => Leads(Append(b, e), x, y)
  BY <1>2, <1>4, OrderAppend, LeadsAppend
<1>8. /\ \A k, c : k # "terminateAck" => Ev(k, c) # e
      /\ \A k, a : AskEv(k, a) # e
      /\ \A a, v : Ack(a, v) # e
      /\ \A c : Ev("terminateAck", c) = e <=> c = d
      /\ \A k, c : k # "terminate" => Ev(k, c) # bus[1]
      /\ \A k, a : AskEv(k, a) # bus[1]
      /\ \A a, v : Ack(a, v) # bus[1]
  BY <1>3, EvFacts
<1> HIDE DEF d, e
<1>9. /\ \A x : Has(Line', x) => Has(b, x) \/ (x = e /\ core[d].state \in Dead)
      /\ \A x : Has(b, x) => Has(Line', x)
      /\ \A x, y : Precedes(Line', x, y) => Precedes(bus, x, y) \/ y = e
      /\ \A x, y : Leads(bus, x, y) /\ y # e /\ bus[1] # x => Leads(Line', x, y)
  BY <1>1, <1>5, <1>6, <1>7
<1>10. /\ \A c \in Delegations : /\ core'[c].pc = core[c].pc
                                 /\ core'[c].state \in Dead <=> core[c].state \in Dead
                                 /\ Working(c)' => Working(c)
       /\ core'[d].state \notin {"running", "asking"}
  <2>1. CASE core[d].state \in Dead
    <3>1. core' = core
      BY <1>1, <2>1
    <3> QED
      BY <1>3, <2>1, <3>1 DEF Working, Dead
  <2>2. CASE core[d].state \notin Dead
    <3>1. core' = To(d, "stopping")
      BY <1>1, <2>2
    <3>2. /\ \A c \in Delegations : core'[c].pc = core[c].pc /\ (c # d => core'[c] = core[c])
          /\ core'[d].state = "stopping"
      BY <1>2, <1>3, <3>1 DEF To, CoreType
    <3> QED
      BY <1>3, <2>2, <3>2 DEF Working, Dead
  <2> QED
    BY <2>1, <2>2
<1>11. \A a : (Asked(a, Line') <=> Asked(a, bus)) /\ (Acked(a, Line') <=> Acked(a, bus))
  BY <1>6, <1>8, <1>9 DEF Asked, Acked
<1>12. \A k, c : k \notin {"terminate", "terminateAck"} => (Has(Line', Ev(k, c)) <=> Has(bus, Ev(k, c)))
  BY <1>6, <1>8, <1>9
<1>13. \A a \in Asks : Raiser(a) \in Delegations
  BY AskFacts
<1>14. Untouched'
  <2>1. \A a \in Asks : Unraised(a)' => Unraised(a)
    BY <1>10, <1>13 DEF Unraised
  <2> QED
    BY <1>1, <1>5, <1>11, <2>1 DEF AInv, Untouched, Asked, Acked
<1>15. Audited'
  <2>1. \A a, w : Has(Line', Ack(a, w)) <=> Has(bus, Ack(a, w))
    BY <1>6, <1>8, <1>9
  <2>2. \A a, u, w : Leads(bus, Ack(a, u), Ack(a, w)) => Leads(Line', Ack(a, u), Ack(a, w))
    BY <1>8, <1>9
  <2> QED
    BY <1>1, <1>5, <2>1, <2>2 DEF AInv, Audited
<1>16. Torn'
  <2>1. ASSUME NEW s \in Sections, Left(s, Line)' PROVE Left(s, Line)
    <3>1. \A k \in Signals : Has(Line', Ev(k, s)) => \E j \in Signals : Has(bus, Ev(j, s))
      BY <1>3, <1>5, <1>6, <1>8, <1>9 DEF Signals
    <3> QED
      BY <1>5, <1>10, <1>11, <2>1, <3>1, SectionFacts DEF Left, Asked
  <2> QED
    BY <1>1, <2>1 DEF AInv, Torn
<1>17. LastWord'
  BY <1>5, <1>8, <1>9 DEF AInv, LastWord
<1>18. Reach'
  <2>1. \A a \in Questions : Raiser(a) \in Delegations
    BY QuestionFacts
  <2> QED
    BY <1>1, <1>5, <1>10, <1>11, <2>1 DEF AInv, Reach, Asked, Acked
<1>19. RootAnswers'
  <2> SUFFICES ASSUME NEW r \in Runs
               PROVE  /\ Has(Line', Ev("delegateAck", <<r>>)) => api.run[r] # "none"
                      /\ Has(Line', Ev("delegateAck", <<r>>)) \/ Has(Line', Ev("terminateAck", <<r>>)) =>
                           core'[<<r>>].state \in Dead /\ ~Has(Line', Ev("delegate", <<r>>))
                      /\ ~Precedes(Line', Ev("terminate", <<r>>), Ev("delegate", <<r>>))
                      /\ spent.drops = 0 /\ (Working(<<r>>)' \/ Has(Line', Ev("delegate", <<r>>))) =>
                           <<r>> \in api.rows \/ Has(Line', Ev("terminate", <<r>>))
    BY <1>1 DEF RootAnswers
  <2>1. /\ Has(bus, Ev("delegateAck", <<r>>)) => api.run[r] # "none"
        /\ Has(bus, Ev("delegateAck", <<r>>)) \/ Has(bus, Ev("terminateAck", <<r>>)) =>
             core[<<r>>].state \in Dead /\ ~Has(bus, Ev("delegate", <<r>>))
        /\ ~Precedes(bus, Ev("terminate", <<r>>), Ev("delegate", <<r>>))
        /\ spent.drops = 0 /\ (Working(<<r>>) \/ Has(bus, Ev("delegate", <<r>>))) =>
             <<r>> \in api.rows \/ Has(bus, Ev("terminate", <<r>>))
    BY <1>5 DEF AInv, RootAnswers
  <2>2. <<r>> \in Delegations
    BY RootFacts
  <2>3. Has(Line', Ev("delegate", <<r>>)) <=> Has(bus, Ev("delegate", <<r>>))
    BY <1>12
  <2>4. <<r>> = d => ~Has(bus, Ev("delegate", <<r>>))
    BY <1>3, <1>6, <1>8, <2>1
  <2>5. Has(Line', Ev("terminateAck", <<r>>)) =>
          Has(bus, Ev("terminateAck", <<r>>)) \/ (<<r>> = d /\ core[d].state \in Dead)
    BY <1>6, <1>8, <1>9
  <2>6. Has(bus, Ev("terminate", <<r>>)) => Has(Line', Ev("terminate", <<r>>)) \/ <<r>> = d
    BY <1>3, <1>6, <1>9, EvFacts
  <2>7. <<r>> = d => ~Working(<<r>>)'
    BY <1>10 DEF Working
  <2>8. ~Precedes(Line', Ev("terminate", <<r>>), Ev("delegate", <<r>>))
    BY <1>8, <1>9, <2>1
  <2>9. Working(<<r>>)' => Working(<<r>>)
    BY <1>10, <2>2
  <2> QED
    BY <1>10, <1>12, <2>1, <2>2, <2>3, <2>4, <2>5, <2>6, <2>7, <2>8, <2>9
<1>20. Opened'
  <2>1. \A a \in Questions : Raiser(a) \in Delegations
    BY QuestionFacts
  <2>2. \A k, c : k # "terminate" => (Has(bus, Ev(k, c)) => Has(Line', Ev(k, c)))
    BY <1>6, <1>8, <1>9
  <2> QED
    BY <1>1, <1>5, <1>10, <1>11, <2>1, <2>2 DEF AInv, Opened, Asked
<1>21. StoreOnly' /\ Tidy(api)' /\ Promised'
  <2>1. \A x : Has(bus', x) /\ x.k = "stored" => Has(bus, x)
    BY <1>5, <1>6, <1>9 DEF e, Ev
  <2> QED
    BY <1>1, <2>1, CoreRest
<1>22. Logged'
  BY <1>1 DEF AInv, Logged
<1> QED
  BY <1>14, <1>15, <1>16, <1>17, <1>18, <1>19, <1>20, <1>21, <1>22 DEF AInv

\* While it works a delegation has not answered.
LEMMA NoAnswerYet ==
  ASSUME SInv, AInv, NEW d \in Delegations, core[d].state \notin Dead
  PROVE  ~Has(Line, Ev("delegateAck", d)) /\ ~Has(Line, Ev("terminateAck", d)) /\ ~Has(Line, Ev("delegate", d))
<1>1. CASE d \in Roots
  BY <1>1 DEF Roots, AInv, RootAnswers, SInv, Account, Starts, Dead
<1>2. CASE d \in Sections
  BY <1>2 DEF SInv, Account, Starts, Ends, Dead
<1> QED
  BY <1>1, <1>2, DelegationFacts

\* The request that d raises at the place n.
LEMMA LastOfAppend == ASSUME NEW d \in Delegations, NEW n PROVE Last(Append(d, n)) = n
<1>1. \E S : d \in Seq(S) /\ n \in S /\ d # << >>
  <2>1. CASE d \in Roots
    <3>1. PICK r \in Runs : d = <<r>>
      BY <2>1 DEF Roots
    <3>2. d \in Seq({r, n}) /\ d # << >>
      BY <3>1
    <3> QED
      BY <3>2
  <2>2. CASE d \in Sections
    <3>1. PICK r \in Runs : \E k \in DOMAIN Program[r] : d = <<r, k>>
      BY <2>2 DEF Sections, RunRequests
    <3>2. PICK k \in DOMAIN Program[r] : d = <<r, k>>
      BY <3>1
    <3>3. d \in Seq({r, k, n}) /\ d # << >>
      BY <3>2
    <3> QED
      BY <3>3
  <2> QED
    BY <2>1, <2>2, DelegationFacts
<1>2. PICK S : d \in Seq(S) /\ n \in S /\ d # << >>
  BY <1>1
<1> QED
  BY <1>2, FrontOfAppend

LEMMA CoreRaisesAgrees ==
  ASSUME IInv, SInv, AInv, NEW d \in Delegations, CoreRaises(d)
  PROVE  AInv'
<1> DEFINE a == Append(d, core[d].pc)  e == AskEv("escalate", a)
           to == IF Request(a).wait THEN "asking" ELSE "running"
<1>1. core \in CoreType
  BY DEF IInv, TypeOK, CoreType
<1>2. /\ loaded /\ core[d].state = "running" /\ core[d].pc <= Len(Body(d)) /\ core[d].pc \in Nat \ {0}
      /\ api' = api /\ promise' = promise /\ loaded' = loaded /\ spent' = spent /\ io' = io
      /\ log' = log /\ raised' = raised \cup {a} /\ bus' = Append(bus, e)
      /\ core' = [core EXCEPT ![d] = [state |-> to, pc |-> core[d].pc + 1]]
  BY <1>1 DEF CoreRaises, CoreTurn, CoreType
<1>3. a \in Asks /\ Raiser(a) = d
  BY <1>2, RaisesFacts
<1>4. Last(a) = core[d].pc
  BY <1>2, LastOfAppend
<1>5. e \in Item /\ to \in {"asking", "running"}
  BY <1>3, ItemsMade
<1> HIDE DEF a, to
<1>6. /\ Line = bus /\ Line' = bus'
      /\ \A x : Has(Line', x) <=> Has(bus, x) \/ x = e
      /\ \A x, y : Precedes(Line', x, y) <=> Precedes(bus, x, y) \/ (Has(bus, x) /\ y = e)
      /\ \A x, y : Leads(bus, x, y) /\ y # e => Leads(Line', x, y)
  BY <1>2, <1>5, PushLine
<1>7. /\ \A k, c : Ev(k, c) # e
      /\ \A c : AskEv("escalate", c) = e <=> c = a
      /\ \A c, v : Ack(c, v) # e
  BY EvFacts
<1> HIDE DEF e
<1>8. /\ \A c \in Delegations : c # d => core'[c] = core[c]
      /\ core'[d].state = to /\ core'[d].pc = core[d].pc + 1
  BY <1>1, <1>2 DEF CoreType
<1>9. \A c \in Delegations : /\ core'[c].state \in Dead <=> core[c].state \in Dead
                             /\ Working(c)' <=> Working(c)
  BY <1>2, <1>5, <1>8 DEF Dead, Working
<1>10. /\ \A k, c : Has(Line', Ev(k, c)) <=> Has(bus, Ev(k, c))
       /\ \A c : Asked(c, Line') <=> Asked(c, bus) \/ c = a
       /\ \A c : Acked(c, Line') <=> Acked(c, bus)
  BY <1>6, <1>7 DEF Asked, Acked
<1>11. \A c \in Asks : Raiser(c) \in Delegations /\ Last(c) \in Nat
  BY AskFacts, PlaceFacts
<1>12. \A c \in Asks : Unraised(c)' => Unraised(c) /\ c # a
  <2> SUFFICES ASSUME NEW c \in Asks, Unraised(c)' PROVE Unraised(c) /\ c # a
    OBVIOUS
  <2>1. core[Raiser(c)].pc \in Nat
    BY <1>1, <1>11 DEF CoreType
  <2>2. CASE Raiser(c) = d
    BY <1>2, <1>3, <1>4, <1>8, <1>11, <2>1, <2>2 DEF Unraised
  <2>3. CASE Raiser(c) # d
    BY <1>3, <1>8, <1>11, <2>3 DEF Unraised
  <2> QED
    BY <2>2, <2>3
<1>13. Unraised(a)
  BY <1>2, <1>3, <1>4 DEF Unraised
<1>14. Untouched'
  <2> SUFFICES ASSUME NEW b \in Asks, Unraised(b)'
               PROVE  /\ ~Asked(b, Line')
                      /\ b \in Questions => /\ b \notin raised' /\ b \notin api.open /\ ~Acked(b, Line')
                                            /\ log.audit[b] = "none" /\ log.got[b] = "none"
    BY <1>2 DEF Untouched, Asked, Acked
  <2>1. Unraised(b) /\ b # a
    BY <1>12
  <2> QED
    BY <1>2, <1>6, <1>10, <2>1 DEF AInv, Untouched
<1>15. Audited'
  <2>1. \A b, w : Has(Line', Ack(b, w)) <=> Has(bus, Ack(b, w))
    BY <1>6, <1>7
  <2>2. \A b, u, w : Leads(bus, Ack(b, u), Ack(b, w)) => Leads(Line', Ack(b, u), Ack(b, w))
    BY <1>6, <1>7
  <2>3. a \in Questions => log.audit[a] = "none"
    BY <1>3, <1>13 DEF AInv, Untouched
  <2> QED
    BY <1>2, <1>6, <2>1, <2>2, <2>3 DEF AInv, Audited
<1>16. Torn'
  <2>1. ASSUME NEW s \in Sections, Left(s, Line)' PROVE Left(s, Line)
    <3>1. CASE s = d
      BY <1>2, <3>1 DEF Left, Dead
    <3>2. CASE s # d
      BY <1>3, <1>6, <1>9, <1>10, <2>1, <3>2, SectionFacts DEF Left, Asked
    <3> QED
      BY <3>1, <3>2
  <2> QED
    BY <1>2, <2>1 DEF AInv, Torn
<1>17. LastWord'
  <2>1. ~Has(bus, Ev("delegateAck", d)) /\ ~Has(bus, Ev("terminateAck", d))
    BY <1>2, <1>6, NoAnswerYet DEF Dead
  <2> QED
    BY <1>3, <1>6, <1>7, <2>1 DEF AInv, LastWord
<1>18. Reach'
  <2>1. \A b \in Questions : Raiser(b) \in Delegations
    BY QuestionFacts
  <2> QED
    BY <1>2, <1>6, <1>9, <1>10, <2>1 DEF AInv, Reach, Asked, Acked
<1>19. RootAnswers'
  <2>1. \A r \in Runs : <<r>> \in Delegations
    BY RootFacts
  <2>2. \A k, j, c, b : Precedes(Line', Ev(k, c), Ev(j, b)) <=> Precedes(bus, Ev(k, c), Ev(j, b))
    BY <1>6, <1>7
  <2> QED
    BY <1>2, <1>6, <1>9, <1>10, <2>1, <2>2 DEF AInv, RootAnswers
<1>20. Opened'
  <2>1. \A b \in Questions : Raiser(b) \in Delegations
    BY QuestionFacts
  <2>2. core[d].state \notin Dead
    BY <1>2 DEF Dead
  <2> QED
    BY <1>2, <1>3, <1>6, <1>9, <1>10, <2>1, <2>2 DEF AInv, Opened, Asked
<1>21. StoreOnly' /\ Tidy(api)' /\ Promised'
  <2>1. \A x : Has(bus', x) /\ x.k = "stored" => Has(bus, x)
    BY <1>6 DEF e, AskEv
  <2> QED
    BY <1>2, <2>1, CoreRest
<1>22. Logged'
  BY <1>2 DEF AInv, Logged
<1> QED
  BY <1>14, <1>15, <1>16, <1>17, <1>18, <1>19, <1>20, <1>21, <1>22 DEF AInv

LEMMA CoreEndsAgrees ==
  ASSUME IInv, SInv, AInv, NEW d \in Delegations, CoreReturns(d) \/ CoreStops(d)
  PROVE  AInv'
<1>1. PICK k \in {"delegateAck", "terminateAck"} :
        /\ loaded /\ core[d].state \in {"running", "stopping"} /\ bus' = Append(bus, Ev(k, d))
        /\ api' = api /\ promise' = promise /\ loaded' = loaded /\ io' = io /\ spent' = spent
        /\ log' = log /\ raised' = raised \ RaisedBy(d) /\ core' = To(d, "gone")
  BY DEF CoreReturns, CoreStops, CoreTurn
<1> DEFINE e == Ev(k, d)
<1>2. e \in Item
  BY ItemsMade
<1>3. core \in CoreType /\ core[d].state \notin Dead
  BY <1>1 DEF IInv, TypeOK, CoreType, Dead
<1>4. /\ Line = bus /\ Line' = bus'
      /\ \A x : Has(Line', x) <=> Has(bus, x) \/ x = e
      /\ \A x, y : Precedes(Line', x, y) <=> Precedes(bus, x, y) \/ (Has(bus, x) /\ y = e)
      /\ \A x, y : Leads(bus, x, y) /\ y # e => Leads(Line', x, y)
  BY <1>1, <1>2, PushLine
<1>5. /\ \A j, c : Ev(j, c) = e <=> j = k /\ c = d
      /\ \A j, c : AskEv(j, c) # e
      /\ \A c, v : Ack(c, v) # e
  BY EvFacts
<1> HIDE DEF e
<1>6. /\ \A c \in Delegations : core'[c].pc = core[c].pc /\ (c # d => core'[c] = core[c])
      /\ core'[d].state = "gone"
  BY <1>1, <1>3 DEF To, CoreType
<1>7. \A c \in Delegations : /\ core[c].state \in Dead => core'[c].state \in Dead
                             /\ Working(c)' => Working(c) /\ c # d
                             /\ c # d => (core'[c].state \in Dead => core[c].state \in Dead)
  BY <1>6 DEF Dead, Working
<1>8. /\ \A c : Asked(c, Line') <=> Asked(c, bus)
      /\ \A c : Acked(c, Line') <=> Acked(c, bus)
      /\ \A j, c : Has(bus, Ev(j, c)) => Has(Line', Ev(j, c))
      /\ \A j, c : Has(Line', Ev(j, c)) => Has(bus, Ev(j, c)) \/ (j = k /\ c = d)
  BY <1>4, <1>5 DEF Asked, Acked
<1>9. \A c \in Asks : Raiser(c) \in Delegations
  BY AskFacts
<1>10. /\ ~Has(bus, Ev("delegateAck", d)) /\ ~Has(bus, Ev("terminateAck", d))
       /\ ~Has(bus, Ev("delegate", d))
  BY <1>3, <1>4, NoAnswerYet
<1>11. Untouched'
  <2>1. \A b \in Asks : Unraised(b)' => Unraised(b)
    BY <1>6, <1>9 DEF Unraised
  <2> QED
    BY <1>1, <1>4, <1>8, <2>1 DEF AInv, Untouched, Asked, Acked
<1>12. Audited'
  <2>1. \A b, w : Has(Line', Ack(b, w)) <=> Has(bus, Ack(b, w))
    BY <1>4, <1>5
  <2>2. \A b, u, w : Leads(bus, Ack(b, u), Ack(b, w)) => Leads(Line', Ack(b, u), Ack(b, w))
    BY <1>4, <1>5
  <2> QED
    BY <1>1, <1>4, <2>1, <2>2 DEF AInv, Audited
<1>13. Torn'
  <2>1. ASSUME NEW s \in Sections, Left(s, Line)' PROVE Left(s, Line)
    <3>1. CASE s = d
      BY <1>3, <3>1 DEF Left
    <3>2. CASE s # d
      BY <1>4, <1>7, <1>8, <2>1, <3>2, SectionFacts DEF Left, Asked
    <3> QED
      BY <3>1, <3>2
  <2> QED
    BY <1>1, <2>1 DEF AInv, Torn
<1>14. LastWord'
  BY <1>4, <1>5, <1>10 DEF AInv, LastWord
<1>15. Reach'
  <2>1. \A b \in Questions : Raiser(b) \in Delegations
    BY QuestionFacts
  <2> QED
    BY <1>1, <1>4, <1>7, <1>8, <2>1 DEF AInv, Reach, Asked, Acked
<1>16. RootAnswers'
  <2> SUFFICES ASSUME NEW r \in Runs
               PROVE  /\ Has(Line', Ev("delegateAck", <<r>>)) => api.run[r] # "none"
                      /\ Has(Line', Ev("delegateAck", <<r>>)) \/ Has(Line', Ev("terminateAck", <<r>>)) =>
                           core'[<<r>>].state \in Dead /\ ~Has(Line', Ev("delegate", <<r>>))
                      /\ ~Precedes(Line', Ev("terminate", <<r>>), Ev("delegate", <<r>>))
                      /\ spent.drops = 0 /\ (Working(<<r>>)' \/ Has(Line', Ev("delegate", <<r>>))) =>
                           <<r>> \in api.rows \/ Has(Line', Ev("terminate", <<r>>))
    BY <1>1 DEF RootAnswers
  <2>1. /\ Has(bus, Ev("delegateAck", <<r>>)) => api.run[r] # "none"
        /\ Has(bus, Ev("delegateAck", <<r>>)) \/ Has(bus, Ev("terminateAck", <<r>>)) =>
             core[<<r>>].state \in Dead /\ ~Has(bus, Ev("delegate", <<r>>))
        /\ ~Precedes(bus, Ev("terminate", <<r>>), Ev("delegate", <<r>>))
        /\ spent.drops = 0 /\ (Working(<<r>>) \/ Has(bus, Ev("delegate", <<r>>))) =>
             <<r>> \in api.rows \/ Has(bus, Ev("terminate", <<r>>))
    BY <1>4 DEF AInv, RootAnswers
  <2>2. <<r>> \in Delegations /\ (api.run[r] = "none" => core[<<r>>].state = "absent")
    BY RootFacts DEF SInv, Account, Fresh
  <2>3. Has(Line', Ev("delegateAck", <<r>>)) => api.run[r] # "none"
    BY <1>3, <1>8, <2>1, <2>2 DEF Dead
  <2>4. Has(Line', Ev("delegate", <<r>>)) <=> Has(bus, Ev("delegate", <<r>>))
    BY <1>8
  <2>5. Has(Line', Ev("delegateAck", <<r>>)) \/ Has(Line', Ev("terminateAck", <<r>>)) =>
          core'[<<r>>].state \in Dead /\ ~Has(bus, Ev("delegate", <<r>>))
    <3>1. CASE <<r>> = d
      BY <1>6, <1>10, <3>1 DEF Dead
    <3>2. CASE <<r>> # d
      BY <1>7, <1>8, <2>1, <2>2, <3>2
    <3> QED
      BY <3>1, <3>2
  <2>6. ~Precedes(Line', Ev("terminate", <<r>>), Ev("delegate", <<r>>))
    BY <1>4, <1>5, <2>1
  <2> QED
    BY <1>7, <1>8, <2>1, <2>2, <2>3, <2>4, <2>5, <2>6
<1>17. Opened'
  <2> SUFFICES ASSUME spent.drops = 0, NEW a \in Questions
               PROVE  /\ a \in api.open \/ Asked(a, Line') =>
                           \/ core'[Raiser(a)].state \notin Dead
                           \/ Has(Line', Ev("delegateAck", Raiser(a)))
                           \/ Has(Line', Ev("terminateAck", Raiser(a)))
                      /\ a \in raised' => core'[Raiser(a)].state \notin Dead
    BY <1>1 DEF Opened, Asked
  <2>1. /\ a \in api.open \/ Asked(a, bus) =>
             \/ core[Raiser(a)].state \notin Dead
             \/ Has(bus, Ev("delegateAck", Raiser(a))) \/ Has(bus, Ev("terminateAck", Raiser(a)))
        /\ a \in raised => core[Raiser(a)].state \notin Dead
    BY <1>4 DEF AInv, Opened
  <2>2. Raiser(a) \in Delegations
    BY QuestionFacts
  <2>3. CASE Raiser(a) = d
    <3>1. a \notin raised'
      BY <1>1, <2>3 DEF RaisedBy
    <3>2. Has(Line', Ev(k, Raiser(a)))
      BY <1>4, <1>5, <2>3
    <3> QED
      BY <1>1, <3>1, <3>2
  <2>4. CASE Raiser(a) # d
    BY <1>1, <1>7, <1>8, <2>1, <2>2, <2>4
  <2> QED
    BY <2>3, <2>4
<1>18. StoreOnly' /\ Tidy(api)' /\ Promised'
  <2>1. \A x : Has(bus', x) /\ x.k = "stored" => Has(bus, x)
    BY <1>4 DEF e, Ev
  <2> QED
    BY <1>1, <2>1, CoreRest
<1>19. Logged'
  BY <1>1 DEF AInv, Logged
<1> QED
  BY <1>11, <1>12, <1>13, <1>14, <1>15, <1>16, <1>17, <1>18, <1>19 DEF AInv
-----------------------------------------------------------------------------
(* Users, the store, and the warm state that is dropped and read back.     *)

\* No committed event comes to the line; and none is lost or overtakes another.
NothingNew(L, M) ==
  \A x, y : IsEvent(x) /\ IsEvent(y) =>
    (Has(M, x) => Has(L, x)) /\ (Precedes(M, x, y) => Precedes(L, x, y))
NothingLost(L, M) ==
  \A x, y : IsEvent(x) /\ IsEvent(y) =>
    (Has(L, x) => Has(M, x)) /\ (Leads(L, x, y) => Leads(M, x, y))

\* A step that leaves the instances below and the rows where they were.
LEMMA StillAgrees ==
  ASSUME IInv, SInv, AInv, NothingNew(Line, Line'),
         \/ NothingLost(Line, Line') /\ spent'.drops = spent.drops
         \/ spent'.drops # 0 /\ ~loaded',
         api'.rows = api.rows, api'.run = api.run, api'.tasks = api.tasks, api'.queue = api.queue,
         (api'.open = api.open /\ (loaded' => loaded)) \/ api'.open = raised \cap Questions,
         core' = core, raised' = raised, log'.audit = log.audit, log'.got = log.got,
         Logged', StoreOnly', Promised'
  PROVE  AInv'
<1> DEFINE L == Line  M == Line'
<1>1. /\ NothingNew(L, M)
      /\ (NothingLost(L, M) /\ spent'.drops = spent.drops) \/ (spent'.drops # 0 /\ ~loaded')
  OBVIOUS
<1>2. /\ Untouched /\ Audited /\ Tidy(api) /\ Torn /\ LastWord /\ Reach /\ RootAnswers /\ Opened
  BY DEF AInv
<1>3. /\ \A k \in Signals : \A d : IsEvent(Ev(k, d))
      /\ \A a : IsEvent(AskEv("escalate", a)) /\ \A v : IsEvent(Ack(a, v))
  BY DEF Signals, IsEvent, Events, Ev, AskEv, Ack
<1> HIDE DEF L, M
<1>4. /\ \A k \in Signals : \A d : Has(M, Ev(k, d)) => Has(L, Ev(k, d))
      /\ \A a : Asked(a, M) => Asked(a, L)
      /\ \A a : Acked(a, M) => Acked(a, L)
      /\ \A a, v : Has(M, Ack(a, v)) => Has(L, Ack(a, v))
      /\ \A j, k \in Signals : \A c, d : Precedes(M, Ev(j, c), Ev(k, d)) => Precedes(L, Ev(j, c), Ev(k, d))
      /\ \A j \in Signals : \A c, a :
           Precedes(M, Ev(j, c), AskEv("escalate", a)) => Precedes(L, Ev(j, c), AskEv("escalate", a))
  BY <1>1, <1>3 DEF NothingNew, Asked, Acked
<1>5. NothingLost(L, M) =>
        /\ \A k \in Signals : \A d : Has(L, Ev(k, d)) => Has(M, Ev(k, d))
        /\ \A a : Asked(a, L) => Asked(a, M)
        /\ \A a : Acked(a, L) => Acked(a, M)
        /\ \A a, v : Has(L, Ack(a, v)) => Has(M, Ack(a, v))
        /\ \A a, v, w : Leads(L, Ack(a, v), Ack(a, w)) => Leads(M, Ack(a, v), Ack(a, w))
  BY <1>3 DEF NothingLost, Asked, Acked
<1>6. "delegate" \in Signals /\ "terminate" \in Signals /\ "delegateAck" \in Signals /\ "terminateAck" \in Signals
  BY DEF Signals
<1>7. Untouched'
  <2> SUFFICES ASSUME NEW a \in Asks, Unraised(a)
               PROVE  /\ ~Asked(a, M)
                      /\ a \in Questions => /\ a \notin raised /\ a \notin api'.open /\ ~Acked(a, M)
                                            /\ log.audit[a] = "none" /\ log.got[a] = "none"
    BY DEF Untouched, Unraised, Asked, Acked, M
  <2> QED
    BY <1>2, <1>4 DEF Untouched, L
<1>8. Audited'
  <2> SUFFICES ASSUME spent'.drops = 0, NEW a \in Questions
               PROVE  /\ log.got[a] # "none" => log.got[a] = log.audit[a]
                      /\ log.audit[a] = "none" => \A v \in AckValues \ {"none"} : ~Has(M, Ack(a, v))
                      /\ a \in raised /\ log.audit[a] # "none" =>
                           /\ Has(M, Ack(a, log.audit[a]))
                           /\ \A v \in AckValues \ {"none", log.audit[a]} :
                                Leads(M, Ack(a, log.audit[a]), Ack(a, v))
    BY DEF Audited, M
  <2>1. NothingLost(L, M) /\ spent.drops = 0
    BY <1>1
  <2> QED
    BY <1>2, <1>4, <1>5, <2>1 DEF Audited, L
<1>9. Tidy(api)'
  BY <1>2 DEF Tidy, Queued
<1>10. Torn'
  <2>1. \A s \in Sections : Left(s, Line)' => Left(s, Line)
    BY <1>4 DEF Left, L, M, Asked
  <2> QED
    BY <1>2, <2>1 DEF Torn
<1>11. LastWord'
  BY <1>2, <1>4, <1>6 DEF LastWord, L, M
<1>12. Reach'
  <2> SUFFICES ASSUME loaded', NEW a \in Questions, a \in raised, Working(Raiser(a)), Raiser(a) \in api.rows
               PROVE  a \in api'.open \/ Asked(a, M) \/ Acked(a, M)
    BY DEF Reach, Working, Asked, Acked, M
  <2> QED
    BY <1>1, <1>2, <1>5 DEF Reach, L
<1>13. RootAnswers'
  <2> SUFFICES ASSUME NEW r \in Runs
               PROVE  /\ Has(M, Ev("delegateAck", <<r>>)) => api.run[r] # "none"
                      /\ Has(M, Ev("delegateAck", <<r>>)) \/ Has(M, Ev("terminateAck", <<r>>)) =>
                           core[<<r>>].state \in Dead /\ ~Has(M, Ev("delegate", <<r>>))
                      /\ ~Precedes(M, Ev("terminate", <<r>>), Ev("delegate", <<r>>))
                      /\ spent'.drops = 0 /\ (Working(<<r>>) \/ Has(M, Ev("delegate", <<r>>))) =>
                           <<r>> \in api.rows \/ Has(M, Ev("terminate", <<r>>))
    BY DEF RootAnswers, Working, M
  <2> QED
    BY <1>1, <1>2, <1>4, <1>5, <1>6 DEF RootAnswers, L
<1>14. Opened'
  <2> SUFFICES ASSUME spent'.drops = 0, NEW a \in Questions
               PROVE  /\ a \in api'.open \/ Asked(a, M) =>
                           \/ core[Raiser(a)].state \notin Dead
                           \/ Has(M, Ev("delegateAck", Raiser(a))) \/ Has(M, Ev("terminateAck", Raiser(a)))
                      /\ a \in raised => core[Raiser(a)].state \notin Dead
    BY DEF Opened, Asked, M
  <2>1. NothingLost(L, M) /\ spent.drops = 0
    BY <1>1
  <2> QED
    BY <1>2, <1>4, <1>5, <1>6, <2>1 DEF Opened, L
<1> QED
  BY <1>7, <1>8, <1>9, <1>10, <1>11, <1>12, <1>13, <1>14 DEF AInv

\* Outside the loop, a command is submitted.
LEMMA SubmitAgrees ==
  ASSUME IInv, SInv, AInv, NEW e \in Item, ~IsEvent(e), bus' = Append(bus, e),
         api' = api, loaded' = loaded, outbox' = outbox, core' = core, raised' = raised,
         spent'.drops = spent.drops, log'.audit = log.audit, log'.got = log.got, Logged', Promised',
         e.k = "stored" => e.ask \in Of("store"),
         \A a \in Asks : io'[a] > 0 => a \in Of("store")
  PROVE  AInv'
<1>1. bus \in Seq(Item)
  BY DEF IInv, TypeOK
<1>2. /\ \A x : Has(Append(bus, e), x) <=> Has(bus, x) \/ x = e
      /\ \A x, y : Precedes(Append(bus, e), x, y) <=> Precedes(bus, x, y) \/ (Has(bus, x) /\ y = e)
      /\ \A x, y : Leads(bus, x, y) /\ y # e => Leads(Append(bus, e), x, y)
  BY <1>1, OrderAppend, LeadsAppend
<1>3. NothingNew(Line, Line') /\ NothingLost(Line, Line')
  <2>1. CASE loaded
    <3>1. Line = bus /\ Line' = Append(bus, e)
      BY <2>1 DEF Line
    <3> QED
      BY <1>2, <3>1 DEF NothingNew, NothingLost
  <2>2. CASE ~loaded
    <3>1. Line = outbox /\ Line' = outbox
      BY <2>2 DEF Line
    <3> QED
      BY <3>1 DEF NothingNew, NothingLost
  <2> QED
    BY <2>1, <2>2
<1>4. StoreOnly'
  <2> SUFFICES ASSUME NEW n \in DOMAIN bus', bus'[n].k = "stored" PROVE bus'[n].ask \in Of("store")
    BY DEF StoreOnly
  <2>1. Has(bus, bus'[n]) \/ bus'[n] = e
    BY <1>2 DEF Has
  <2> QED
    BY <2>1 DEF Has, AInv, StoreOnly
<1> QED
  BY <1>3, <1>4, StillAgrees

LEMMA OutsideAgrees ==
  ASSUME IInv, IInv', SInv, AInv, Metered, User \/ StoreStep
  PROVE  AInv'
<1>1. Logged /\ Promised /\ \A a \in Asks : io[a] > 0 => a \in Of("store")
  BY DEF AInv, StoreOnly
<1>2. ASSUME log' = log PROVE Logged' /\ log'.audit = log.audit /\ log'.got = log.got
  BY <1>1, <1>2 DEF Logged
<1>3. CASE \E r \in Runs : UserStarts(r)
  <2>1. PICK r \in Runs : UserStarts(r)
    BY <1>3
  <2>2. Ev("start", <<r>>) \in Item /\ ~IsEvent(Ev("start", <<r>>)) /\ Ev("start", <<r>>).k # "stored"
    BY ItemsMade DEF IsEvent, Events, Ev
  <2>3. /\ api' = api /\ promise[r] = "none" /\ promise' = [promise EXCEPT ![r] = "pending"] /\ log' = log
        /\ bus' = Append(bus, Ev("start", <<r>>)) /\ loaded' = loaded /\ outbox' = outbox
        /\ core' = core /\ raised' = raised /\ spent' = spent /\ io' = io
    BY <2>1 DEF UserStarts, Submit
  <2>4. api.run[r] = "none"
    BY <2>3 DEF IInv, StartsOnce
  <2>5. \A q \in Runs : promise'[q] = IF q = r THEN "pending" ELSE promise[q]
    BY <2>3 DEF IInv, TypeOK
  <2>6. Promised'
    <3> SUFFICES ASSUME NEW q \in Runs
                 PROVE  /\ promise'[q] \in Terminal => promise'[q] = api.run[q] \/ api.run[q] = "error"
                        /\ promise'[q] = "pending" /\ <<q>> \notin api.rows /\ api.run[q] # "none" =>
                             api.run[q] = "error"
      BY <2>3 DEF Promised
    <3>1. CASE q = r
      BY <2>4, <2>5, <3>1 DEF Terminal
    <3>2. CASE q # r
      BY <1>1, <2>5, <3>2 DEF Promised
    <3> QED
      BY <3>1, <3>2
  <2> QED
    BY <1>1, <1>2, <2>2, <2>3, <2>6, SubmitAgrees
<1>4. CASE \E r \in Runs : UserCancels(r)
  <2>1. PICK r \in Runs : UserCancels(r)
    BY <1>4
  <2>2. Ev("cancel", <<r>>) \in Item /\ ~IsEvent(Ev("cancel", <<r>>)) /\ Ev("cancel", <<r>>).k # "stored"
    BY ItemsMade DEF IsEvent, Events, Ev
  <2>3. spent'.drops = spent.drops
    BY <2>1 DEF UserCancels, Metered
  <2>4. /\ api' = api /\ promise' = promise /\ log' = log
        /\ bus' = Append(bus, Ev("cancel", <<r>>)) /\ loaded' = loaded /\ outbox' = outbox
        /\ core' = core /\ raised' = raised /\ io' = io
    BY <2>1 DEF UserCancels, Submit
  <2>5. Promised'
    BY <1>1, <2>4 DEF Promised
  <2> QED
    BY <1>1, <1>2, <2>2, <2>3, <2>4, <2>5, SubmitAgrees
<1>5. CASE \E a \in Of("user"), value \in Answers : UserAnswers(a, value)
  <2>1. PICK a \in Of("user"), value \in Answers : UserAnswers(a, value)
    BY <1>5
  <2> DEFINE e == [k |-> "answer", d |-> Raiser(a), ask |-> a, value |-> value]
  <2>2. e \in Item /\ ~IsEvent(e) /\ e.k # "stored"
    BY ItemsMade DEF IsEvent, Events, Of
  <2>3. spent'.drops = spent.drops
    BY <2>1 DEF UserAnswers, Metered
  <2>4. bus' = Append(bus, e)
    BY <2>1 DEF UserAnswers, Submit
  <2> HIDE DEF e
  <2>5. /\ api' = api /\ promise' = promise /\ log' = log /\ loaded' = loaded /\ outbox' = outbox
        /\ core' = core /\ raised' = raised /\ io' = io
    BY <2>1 DEF UserAnswers
  <2>6. Promised'
    BY <1>1, <2>5 DEF Promised
  <2> QED
    BY <1>1, <1>2, <2>2, <2>3, <2>4, <2>5, <2>6, SubmitAgrees
<1>6. CASE StoreStep
  <2>1. PICK a \in Asks : StoreLands(a)
    BY <1>6 DEF StoreStep
  <2>2. PICK k \in {"stored", "unstored"} : bus' = Append(bus, AskEv(k, a))
    BY <2>1 DEF StoreLands, Submit
  <2>3. /\ AskEv(k, a) \in Item /\ ~IsEvent(AskEv(k, a))
        /\ AskEv(k, a).ask = a
    BY ItemsMade DEF IsEvent, Events, AskEv
  <2>4. /\ io[a] > 0 /\ io' = [io EXCEPT ![a] = @ - 1] /\ io \in [Asks -> Nat]
        /\ api' = api /\ promise' = promise /\ loaded' = loaded /\ outbox' = outbox
        /\ core' = core /\ raised' = raised /\ spent' = spent
    BY <2>1 DEF StoreLands, IInv, TypeOK
  <2>5. \A b \in Asks : io'[b] > 0 => io[b] > 0
    BY <2>4
  <2>6. Logged' /\ log'.audit = log.audit /\ log'.got = log.got
    <3>1. CASE log' = log
      BY <1>2, <3>1
    <3>2. CASE log' = [log EXCEPT !.writes = Append(@, a)]
      <4>1. Append(log.writes, a) \in Seq(Asks)
        BY <1>1, ToSetAppend DEF Logged
      <4> QED
        BY <1>1, <3>2, <4>1 DEF Logged
    <3> QED
      BY <2>1, <3>1, <3>2 DEF StoreLands
  <2>7. Promised'
    BY <1>1, <2>4 DEF Promised
  <2> QED
    BY <1>1, <2>2, <2>3, <2>4, <2>5, <2>6, <2>7, SubmitAgrees
<1> QED
  BY <1>3, <1>4, <1>5, <1>6 DEF User

LEMMA DropsAgree ==
  ASSUME IInv, SInv, AInv, Metered, Reloads \/ DropsPoison
  PROVE  AInv'
<1>1. /\ loaded /\ loaded' = FALSE /\ bus \in Seq(Item) /\ Line = bus
      /\ api' = api /\ core' = core /\ raised' = raised /\ log' = log
      /\ promise' = [r \in Runs |-> IF promise[r] = "pending" THEN "dropped" ELSE promise[r]]
  BY DEF Reloads, DropsPoison, DropWarm, PoisonRunPromises, IInv, TypeOK, Line
<1>2. Logged'
  BY <1>1 DEF AInv, Logged
<1>3. Promised'
  BY <1>1 DEF AInv, Promised, Terminal
<1>4. CASE Reloads
  <2>1. PICK rows \in RowsOf(bus) : outbox' = rows
    BY <1>4 DEF Reloads, DropWarm
  <2>2. Line' = rows
    BY <1>1, <2>1 DEF Line
  <2>3. NothingNew(bus, rows) /\ NothingLost(bus, rows)
    BY <1>1, RowsOfOrder DEF NothingNew, NothingLost
  <2>4. StoreOnly'
    <3>1. bus' = << >> /\ \A a \in Asks : io'[a] > 0 => io[a] > 0
      BY <1>4 DEF Reloads
    <3> QED
      BY <3>1 DEF AInv, StoreOnly
  <2>5. spent'.drops = spent.drops
    BY <1>4 DEF Reloads, Metered
  <2> QED
    BY <1>1, <1>2, <1>3, <2>2, <2>3, <2>4, <2>5, StillAgrees
<1>5. CASE DropsPoison
  <2>1. bus # << >> /\ bus' = <<Ev("failRun", <<RunOf(bus[1].d)>>)>> /\ io' = io
    BY <1>5 DEF DropsPoison
  <2>2. PICK rows \in RowsOf(Tail(bus)) : outbox' = rows
    BY <1>5 DEF DropsPoison, DropWarm
  <2>3. Line' = rows
    BY <1>1, <2>2 DEF Line
  <2>4. NothingNew(bus, rows)
    <3> DEFINE rest == Tail(bus)
    <3>1. rest \in Seq(Item) /\ rows \in RowsOf(rest)
      BY <1>1, <2>1, <2>2, Popped
    <3>2. \A x, y : (Has(rest, x) => Has(bus, x)) /\ (Precedes(rest, x, y) => Precedes(bus, x, y))
      BY <1>1, <2>1, OrderTail
    <3> HIDE DEF rest
    <3>3. NothingNew(rest, rows)
      BY <3>1, RowsOfOrder DEF NothingNew
    <3> QED
      BY <3>2, <3>3 DEF NothingNew
  <2>5. spent'.drops # 0
    BY <1>5 DEF DropsPoison, Metered
  <2>6. StoreOnly'
    <3>1. \A n \in DOMAIN bus' : bus'[n].k = "failRun"
      BY <2>1 DEF Ev
    <3> QED
      BY <2>1, <3>1 DEF AInv, StoreOnly
  <2> QED
    BY <1>1, <1>2, <1>3, <2>3, <2>4, <2>5, <2>6, StillAgrees
<1> QED
  BY <1>4, <1>5

LEMMA LoadAgrees ==
  ASSUME IInv, SInv, AInv, Load
  PROVE  AInv'
<1> DEFINE kick == IF api.queue # {} THEN <<Ev("kick", <<>>)>> ELSE <<>>
           B == [api EXCEPT !.open = raised \cap Of("user"), !.tasks = Spawned(api), !.fence = {}]
<1>1. /\ ~loaded /\ loaded' = TRUE /\ api' = B /\ core' = core /\ spent' = spent /\ raised' = raised
      /\ log' = log /\ promise' = promise /\ bus' = bus \o kick \o outbox
      /\ io' = [a \in Asks |-> IF a \in raised \cap Of("store") THEN io[a] + 1 ELSE io[a]]
  BY DEF Load
<1>2. bus \in Seq(Item) /\ outbox \in Seq(Item) /\ api \in Reactor /\ Line = outbox /\ Line' = bus'
  BY <1>1 DEF IInv, TypeOK, Line
<1>3. /\ B.open = raised \cap Questions /\ B.tasks = api.tasks /\ B.rows = api.rows
      /\ B.queue = api.queue /\ B.run = api.run
  <2>1. Spawned(api) = api.tasks
    BY DEF SInv, Account, Held
  <2>2. api \in Reactor /\ Questions = Of("user")
    BY <1>2 DEF Questions
  <2> QED
    BY <2>1, <2>2 DEF Reactor
<1> HIDE DEF B
<1>4. kick \in Seq(Item) /\ \A x : Has(kick, x) => x.k = "kick"
  <2>1. CASE kick = << >>
    BY <2>1, OrderEmpty
  <2>2. CASE kick = <<Ev("kick", <<>>)>>
    <3> DEFINE e == Ev("kick", <<>>)
    <3>1. e \in Item /\ kick = <<e>> /\ e.k = "kick"
      BY <2>2, ItemsMade DEF Ev
    <3> HIDE DEF e
    <3>2. \A x : Has(<<e>>, x) <=> x = e
      BY OrderOne
    <3> QED
      BY <3>1, <3>2
  <2> QED
    BY <2>1, <2>2
<1>5. \A x : IsEvent(x) => ~Has(bus, x)
  BY <1>1 DEF SInv, Quiet, Has
<1> HIDE DEF kick
<1> DEFINE b == bus \o kick
<1>6. b \in Seq(Item)
  BY <1>2, <1>4, ConcatProperties
<1>7. \A x : Has(b, x) <=> Has(bus, x) \/ Has(kick, x)
  BY <1>2, <1>4, OrderConcat
<1>8. bus' = b \o outbox
  BY <1>1
<1> HIDE DEF b
<1>9. \A x : IsEvent(x) => ~Has(b, x)
  BY <1>4, <1>5, <1>7 DEF IsEvent, Events
<1>10. \A x, y : /\ Has(b \o outbox, x) <=> Has(b, x) \/ Has(outbox, x)
                 /\ Precedes(b \o outbox, x, y) <=>
                      Precedes(b, x, y) \/ Precedes(outbox, x, y) \/ (Has(b, x) /\ Has(outbox, y))
  BY <1>2, <1>6, OrderConcat
<1>11. NothingNew(outbox, b \o outbox)
  BY <1>9, <1>10, OrderHas DEF NothingNew
<1>12. NothingLost(outbox, b \o outbox)
  <2>1. ASSUME NEW x, NEW y, IsEvent(x), IsEvent(y), Leads(outbox, x, y) PROVE Leads(b \o outbox, x, y)
    <3>1. Leads(b, x, y)
      BY <1>9, <2>1, LeadsNone
    <3> QED
      BY <1>2, <1>6, <2>1, <3>1, LeadsConcat
  <2> QED
    BY <1>10, <2>1 DEF NothingLost
<1>13. StoreOnly'
  <2>1. \A a \in Asks : io'[a] > 0 => io[a] > 0 \/ a \in Of("store")
    BY <1>1
  <2>2. ASSUME NEW n \in DOMAIN bus', bus'[n].k = "stored" PROVE bus'[n].ask \in Of("store")
    <3>1. Has(b \o outbox, bus'[n])
      BY <1>8 DEF Has
    <3>2. ~Has(outbox, bus'[n])
      BY <2>2 DEF IInv, TypeOK, Has, IsEvent, Events
    <3>3. Has(bus, bus'[n])
      BY <1>4, <1>7, <1>10, <2>2, <3>1, <3>2
    <3> QED
      BY <2>2, <3>3 DEF Has, AInv, StoreOnly
  <2> QED
    BY <2>1, <2>2 DEF AInv, StoreOnly
<1>14. Logged' /\ Promised'
  BY <1>1, <1>3 DEF AInv, Logged, Promised
<1> QED
  BY <1>1, <1>2, <1>3, <1>8, <1>11, <1>12, <1>13, <1>14, StillAgrees
-----------------------------------------------------------------------------
(* The theorems.                                                           *)

LEMMA InitAInv == Init => AInv
<1> SUFFICES ASSUME Init PROVE AInv
  OBVIOUS
<1>1. /\ Line = << >> /\ bus = << >> /\ spent.drops = 0 /\ raised = {}
      /\ api.queue = {} /\ api.tasks = {} /\ api.rows = {} /\ api.open = {}
      /\ api.run = [r \in Runs |-> "none"] /\ promise = [r \in Runs |-> "none"]
      /\ io = [a \in Asks |-> 0]
  BY DEF Init, Line
<1>2. \A d \in Delegations : core[d].state = "absent"
  BY DEF Init
<1>3. \A x, y : ~Has(Line, x) /\ ~Precedes(Line, x, y)
  BY <1>1, OrderEmpty
<1>4. /\ log = [writes |-> << >>, audit |-> [a \in Asks |-> "none"], got |-> [a \in Asks |-> "none"]]
      /\ \A a \in Asks : log.audit[a] = "none" /\ log.got[a] = "none"
  BY DEF Init
<1>5. Logged
  <2>1. << >> \in Seq(Asks)
    OBVIOUS
  <2> QED
    BY <1>4, <2>1 DEF Logged
<1>6. StoreOnly
  BY <1>1 DEF StoreOnly
<1>7. \A a : ~Asked(a, Line) /\ ~Acked(a, Line)
  BY <1>3 DEF Asked, Acked
<1>8. \A a \in Questions : a \in Asks /\ Raiser(a) \in Delegations
  BY QuestionFacts
<1>9. Untouched
  BY <1>1, <1>4, <1>7, <1>8 DEF Untouched
<1>10. Audited
  BY <1>1, <1>3, <1>4, <1>8 DEF Audited
<1>11. Tidy(api)
  BY <1>1 DEF Tidy, Queued
<1>12. Torn
  BY <1>2, <1>3, <1>7, SectionFacts DEF Torn, Left, Dead
<1>13. LastWord
  BY <1>3 DEF LastWord
<1>14. Reach
  BY <1>1 DEF Reach
<1>15. Promised
  BY <1>1 DEF Promised, Terminal
<1>16. RootAnswers
  BY <1>2, <1>3, RootFacts DEF RootAnswers, Working
<1>17. Opened
  BY <1>1, <1>7 DEF Opened
<1> QED
  BY <1>5, <1>6, <1>9, <1>10, <1>11, <1>12, <1>13, <1>14, <1>15, <1>16, <1>17 DEF AInv

LEMMA AnswersNext ==
  ASSUME IInv, IInv', SInv, AInv, Metered, [Outcomes!Next]_(api.run), [Next]_vars
  PROVE  AInv'
<1>1. CASE ApiTurn
  BY <1>1, ApiTurnKeeps
<1>2. CASE CoreStarts \/ CoreTerminates \/ CoreIsAnswered
  BY <1>2, CoreStartsAgrees, CoreTerminatesAgrees, CoreIsAnsweredAgrees
<1>3. CASE CoreStep
  BY <1>3, CoreRaisesAgrees, CoreEndsAgrees DEF CoreStep
<1>4. CASE StoreStep \/ User
  BY <1>4, OutsideAgrees
<1>5. CASE Load \/ Reloads \/ DropsPoison
  BY <1>5, LoadAgrees, DropsAgree
<1>6. CASE UNCHANGED vars
  <2>1. /\ api' = api /\ core' = core /\ spent' = spent /\ loaded' = loaded /\ bus' = bus
        /\ raised' = raised /\ log' = log /\ promise' = promise /\ io' = io /\ Line' = Line
    BY <1>6 DEF vars, Line
  <2>2. NothingNew(Line, Line') /\ NothingLost(Line, Line')
    BY <2>1 DEF NothingNew, NothingLost
  <2>3. Logged' /\ StoreOnly' /\ Promised'
    BY <2>1 DEF AInv, Logged, StoreOnly, Promised
  <2> QED
    BY <2>1, <2>2, <2>3, StillAgrees
<1> QED
  BY <1>1, <1>2, <1>3, <1>4, <1>5, <1>6 DEF Next, Turn, ApiTurn

-----------------------------------------------------------------------------
(* The store requests.                                                     *)

Stores == Of("store")
Replies == {"escalate", "stored", "unstored"}
Coming(a, L) == Acked(a, L) \/ \E k \in Replies : Has(L, AskEv(k, a))

\* Of a store request that was not reached no row is open, and a program that
\* works under a live root hears of the one that is.
Fetched ==
  /\ \A a \in Stores : Unraised(a) => a \notin raised
  /\ \A a \in Stores :
       a \in raised /\ loaded /\ Working(Raiser(a)) /\ Root(a) \in api.rows =>
         io[a] > 0 \/ Coming(a, bus)

LEMMA StoreFacts ==
  ASSUME NEW a \in Stores
  PROVE  /\ a \in Asks /\ Request(a).kind = "store" /\ Raiser(a) \in Delegations /\ Last(a) \in Nat \ {0}
         /\ RunOf(a) \in Runs /\ Root(a) = <<RunOf(a)>> /\ Root(Raiser(a)) = Root(a)
BY PlaceFacts, AskFacts DEF Stores, Of, Root

\* What works below a live root is a root or a task.
LEMMA WorkerRouted ==
  ASSUME AInv, NEW d \in Delegations, Working(d), Root(d) \in api.rows
  PROVE  d \in api.tasks \/ d \in Roots
<1>1. d \in Sections => Left(d, Line)
  BY DEF Working, Left, Dead
<1> QED
  BY <1>1, DelegationFacts DEF AInv, Torn

\* A store that fails takes the row of the root.
LEMMA StoreFailsRoot ==
  ASSUME IInv, SInv, AInv, FailRunForStore, NEW a \in Stores, bus[1] = AskEv("unstored", a),
         Working(Raiser(a)), Root(a) \in api.rows
  PROVE  Root(a) \notin api'.rows
<1> DEFINE d == Raiser(a)  C == FailDelegation(api, d)
<1>1. loaded /\ bus # << >> /\ bus[1].d = d /\ Commit(FailDelegation(api, bus[1].d))
  BY DEF FailRunForStore, At, AskEv
<1>2. d \in Delegations /\ Root(d) = Root(a)
  BY StoreFacts
<1>3. api \in Reactor /\ SecRows(api) /\ Held(api) /\ Tidy(api)
  BY <1>1, TurnFacts
<1>4. d \in api.tasks \/ d \in Roots
  BY <1>2, WorkerRouted
<1>5. Commit(C)
  BY <1>1
<1> HIDE DEF d
<1>6. C \in Reactor /\ Root(d) \notin C.rows
  BY <1>2, <1>3, <1>4, FailDelegationFollows DEF Follows
<1> HIDE DEF C
<1>7. api'.rows = C.rows
  BY <1>1, <1>5, <1>6, TurnLine
<1> QED
  BY <1>2, <1>6, <1>7

LEMMA StoredAcks ==
  ASSUME IInv, SInv, AInv, StoreAnswered, NEW a \in Stores, bus[1] = AskEv("stored", a)
  PROVE  Has(bus', Ack(a, "stored"))
<1> DEFINE e == Ack(a, "stored")  C == Send(api, e)
<1>1. loaded /\ bus # << >> /\ bus[1].ask = a /\ Commit(Send(api, Ack(bus[1].ask, "stored")))
  BY DEF StoreAnswered, At, AskEv
<1>2. e \in Item
  BY StoreFacts, ItemsMade
<1>3. Commit(C)
  BY <1>1
<1> HIDE DEF e
<1>4. api \in Reactor /\ api.out \in Seq(Item)
  BY <1>1, TurnFacts DEF Reactor
<1>5. Append(api.out, e) \in Seq(Item) /\ ToSet(Append(api.out, e)) = ToSet(api.out) \cup {e}
  BY <1>2, <1>4, ToSetAppend
<1>6. C \in Reactor /\ C.out = Append(api.out, e)
  BY <1>4, <1>5 DEF Send, Reactor
<1> HIDE DEF C
<1>7. Has(bus', e)
  BY <1>1, <1>3, <1>5, <1>6, TurnLine
<1> QED
  BY <1>7 DEF e

LEMMA ApiTurnFetches ==
  ASSUME IInv, IInv', SInv, AInv, Fetched, ApiTurn
  PROVE  Fetched'
<1>1. loaded /\ bus # << >> /\ bus[1].k # "escalateAck"
  BY DEF ApiTurn, StartRun, CancelRun, FailRun, AnswerEscalation, StoreAnswered, FailRunForStore,
         SpawnHead, DelegateAck, TerminateAck, Escalate, At
<1>2. PICK B : Commit(B) /\ Served(B)
  BY StartRunServed, CancelRunServed, AnswerServed, CommandServed, DelegateAckServed,
     TerminateAckServed, EscalateServed DEF ApiTurn, Serves
<1>3. B \in Reactor /\ ServedRows(B)
  BY <1>2 DEF Served, ServedRows
<1>4. /\ Line' = bus' /\ core' = core /\ raised' = raised /\ loaded' /\ api'.rows = B.rows
      /\ \A x : Has(bus', x) <=> Has(Tail(bus), x) \/ x \in ToSet(B.out)
      /\ \A x : Has(bus, x) <=> x = bus[1] \/ Has(Tail(bus), x)
  BY <1>1, <1>2, <1>3, TurnLine
<1>5. io \in [Asks -> Nat]
  BY DEF IInv, TypeOK
<1>6. \A a \in Asks : io'[a] >= io[a]
  <2>1. io' = io \/ io' = [io EXCEPT ![bus[1].ask] = @ + 1]
    BY DEF ApiTurn, StartRun, CancelRun, FailRun, AnswerEscalation, StoreAnswered,
           FailRunForStore, SpawnHead, DelegateAck, TerminateAck, Escalate
  <2> QED
    BY <1>5, <2>1
<1> SUFFICES ASSUME NEW a \in Stores, a \in raised, Working(Raiser(a)), Root(a) \in B.rows
             PROVE  io'[a] > 0 \/ Coming(a, bus')
  BY <1>4 DEF Fetched, Unraised, Working, Coming, Acked
<1>7. /\ a \in Asks /\ Request(a).kind = "store" /\ RunOf(a) \in Runs /\ Root(a) = <<RunOf(a)>>
      /\ io[a] \in Nat /\ io'[a] \in Nat
  BY <1>5, StoreFacts DEF IInv, TypeOK
<1>8. Root(a) \in api.rows
  <2> SUFFICES ASSUME Root(a) \notin api.rows PROVE FALSE
    OBVIOUS
  <2>1. api.run[RunOf(a)] = "none"
    BY <1>3, <1>7 DEF ServedRows
  <2>2. Unraised(a)
    BY <1>7, <2>1, NotStarted
  <2> QED
    BY <2>2 DEF Fetched
<1>9. io[a] > 0 \/ Coming(a, bus)
  BY <1>1, <1>8 DEF Fetched
<1>10. CASE io[a] > 0
  BY <1>6, <1>7, <1>10
<1>11. CASE Acked(a, bus)
  <2>1. \A v : bus[1] # Ack(a, v)
    BY <1>1 DEF Ack
  <2> QED
    BY <1>4, <1>11, <2>1 DEF Acked, Coming
<1>12. ASSUME NEW k \in Replies, Has(bus, AskEv(k, a)) PROVE io'[a] > 0 \/ Coming(a, bus')
  <2>1. CASE Has(Tail(bus), AskEv(k, a))
    BY <1>4, <2>1 DEF Coming
  <2>2. CASE bus[1] = AskEv(k, a)
    <3>1. bus[1].k = k /\ bus[1].ask = a
      BY <2>2 DEF AskEv
    <3>2. CASE k = "escalate"
      <4>1. Escalate
        BY <3>1, <3>2 DEF ApiTurn, StartRun, CancelRun, FailRun, AnswerEscalation, StoreAnswered,
           FailRunForStore, SpawnHead, DelegateAck, TerminateAck, Escalate, At
      <4>2. io' = [io EXCEPT ![a] = @ + 1]
        BY <1>7, <3>1, <4>1 DEF Escalate
      <4> QED
        BY <1>5, <1>7, <4>2
    <3>3. CASE k = "stored"
      <4>1. StoreAnswered
        BY <3>1, <3>3 DEF ApiTurn, StartRun, CancelRun, FailRun, AnswerEscalation, StoreAnswered,
           FailRunForStore, SpawnHead, DelegateAck, TerminateAck, Escalate, At
      <4>2. Has(bus', Ack(a, "stored"))
        BY <2>2, <3>3, <4>1, StoredAcks
      <4> QED
        BY <4>2 DEF Coming, Acked, AckValues
    <3>4. CASE k = "unstored"
      <4>1. FailRunForStore
        BY <3>1, <3>4 DEF ApiTurn, StartRun, CancelRun, FailRun, AnswerEscalation, StoreAnswered,
           FailRunForStore, SpawnHead, DelegateAck, TerminateAck, Escalate, At
      <4> QED
        BY <1>4, <1>8, <2>2, <3>4, <4>1, StoreFailsRoot
    <3> QED
      BY <3>2, <3>3, <3>4 DEF Replies
  <2> QED
    BY <1>4, <1>12, <2>1, <2>2
<1> QED
  BY <1>9, <1>10, <1>11, <1>12 DEF Coming

\* A step that takes nothing of a store request away.
LEMMA StillFetches ==
  ASSUME IInv, Fetched, loaded, api' = api, raised' \subseteq raised,
         \A d \in Delegations : core'[d].pc = core[d].pc /\ (Working(d)' => Working(d)),
         \A a \in raised' \cap Stores : io[a] > 0 \/ Coming(a, bus) => io'[a] > 0 \/ Coming(a, bus')
  PROVE  Fetched'
BY StoreFacts DEF Fetched, Unraised

LEMMA CoreTurnFetches ==
  ASSUME IInv, SInv, AInv, Fetched, CoreStarts \/ CoreTerminates \/ CoreIsAnswered
  PROVE  Fetched'
<1>1. /\ loaded /\ bus # << >> /\ bus[1].k \in {"delegate", "terminate", "escalateAck"}
      /\ api' = api /\ io' = io /\ raised' \subseteq raised
  BY DEF CoreStarts, CoreTerminates, CoreIsAnswered, At, CoreTurn
<1>2. bus \in Seq(Item) /\ Tail(bus) \in Seq(Item) /\ bus[1] \in Item /\ core \in CoreType
  BY <1>1, HeadFacts DEF IInv, TypeOK, CoreType
<1>3. \A x : Has(bus, x) <=> x = bus[1] \/ Has(Tail(bus), x)
  BY <1>1, <1>2, OrderTail
<1>4. \A x : Has(Tail(bus), x) => Has(bus', x)
  <2>1. CASE bus' = Tail(bus)
    BY <2>1
  <2>2. CASE bus' # Tail(bus)
    <3> DEFINE d == bus[1].d  e == Ev("terminateAck", d)
    <3>1. bus' = Append(Tail(bus), e) /\ bus[1].k = "terminate"
      BY <2>2 DEF CoreStarts, CoreTerminates, CoreIsAnswered, At, CoreTurn
    <3>2. d \in Delegations
      BY <1>2, <3>1, ItemFacts DEF IsEvent, Events
    <3>3. e \in Item
      BY <3>2, ItemsMade
    <3> HIDE DEF e
    <3> QED
      BY <1>2, <3>1, <3>3, OrderAppend
  <2> QED
    BY <2>1, <2>2
<1>5. ASSUME NEW a \in Stores, io[a] > 0 \/ Coming(a, bus), bus[1].k = "escalateAck" => bus[1].ask # a
      PROVE  io'[a] > 0 \/ Coming(a, bus')
  <2>1. \A k \in Replies : AskEv(k, a) # bus[1]
    BY <1>1 DEF AskEv, Replies
  <2>2. \A v : Ack(a, v) # bus[1]
    BY <1>1, <1>5 DEF Ack
  <2> QED
    BY <1>1, <1>3, <1>4, <1>5, <2>1, <2>2 DEF Coming, Acked
<1>6. CASE CoreStarts
  <2> DEFINE d == bus[1].d
  <2>1. bus[1].k = "delegate" /\ raised' = raised /\ core' = [core EXCEPT ![d] = [state |-> "running", pc |-> 1]]
    BY <1>6 DEF CoreStarts, At
  <2>2. d \in Delegations /\ bus[1] = Ev("delegate", d)
    <3>1. d \in Delegations
      BY <1>2, <2>1, ItemFacts DEF IsEvent, Events
    <3> QED
      BY <1>2, <2>1, <3>1, ItemForms DEF Signals
  <2>3. core[d].state = "absent" /\ core[d].pc = 1
    <3>1. Has(Line, Ev("delegate", d))
      BY <1>1, <1>3, <2>2 DEF Line
    <3> QED
      BY <2>2, <3>1 DEF SInv, Account, Starts
  <2> HIDE DEF d
  <2>4. \A c \in Delegations : core'[c].pc = core[c].pc /\ (c # d => core'[c] = core[c])
    BY <1>2, <2>1, <2>2, <2>3 DEF CoreType
  <2>5. ASSUME NEW a \in Stores PROVE Unraised(a)' <=> Unraised(a)
    BY <2>4, StoreFacts DEF Unraised
  <2>6. ASSUME NEW a \in Stores, a \in raised, Working(Raiser(a))' PROVE Working(Raiser(a))
    <3>1. CASE Raiser(a) = d
      <4>1. Unraised(a)
        BY <2>3, <3>1, StoreFacts DEF Unraised
      <4> QED
        BY <2>6, <4>1 DEF Fetched
    <3>2. CASE Raiser(a) # d
      BY <2>4, <2>6, <3>2, StoreFacts DEF Working
    <3> QED
      BY <3>1, <3>2
  <2> QED
    BY <1>1, <1>5, <2>1, <2>5, <2>6 DEF Fetched
<1>7. CASE CoreTerminates
  <2> DEFINE d == bus[1].d
  <2>1. bus[1].k = "terminate" /\ (core' = core \/ core' = To(d, "stopping")) /\ raised' = raised
    BY <1>7 DEF CoreTerminates, At
  <2> HIDE DEF d
  <2>2. \A c \in Delegations : core'[c].pc = core[c].pc /\ (Working(c)' => Working(c))
    BY <1>2, <2>1 DEF To, Working, CoreType
  <2> QED
    BY <1>1, <1>5, <2>1, <2>2, StillFetches
<1>8. CASE CoreIsAnswered
  <2> DEFINE a == bus[1].ask  d == Raiser(bus[1].ask)
  <2>1. /\ raised' = raised \ {a} /\ (core' = core \/ (core' = To(d, "running") /\ core[d].state = "asking"))
    BY <1>8 DEF CoreIsAnswered, At
  <2> HIDE DEF d
  <2>2. \A c \in Delegations : core'[c].pc = core[c].pc /\ (Working(c)' => Working(c))
    BY <1>2, <2>1 DEF To, Working, CoreType
  <2> QED
    BY <1>1, <1>5, <2>1, <2>2, StillFetches
<1> QED
  BY <1>6, <1>7, <1>8

LEMMA CoreStepFetches ==
  ASSUME IInv, Fetched, NEW d \in Delegations, CoreRaises(d) \/ CoreReturns(d) \/ CoreStops(d)
  PROVE  Fetched'
<1>1. loaded /\ api' = api /\ io' = io /\ loaded' = loaded
  BY DEF CoreRaises, CoreReturns, CoreStops, CoreTurn
<1>2. bus \in Seq(Item) /\ core \in CoreType /\ \A c \in Asks : Raiser(c) \in Delegations /\ Last(c) \in Nat
  BY AskFacts, PlaceFacts DEF IInv, TypeOK, CoreType
<1>3. CASE CoreRaises(d)
  <2> DEFINE b == Append(d, core[d].pc)  e == AskEv("escalate", b)
             to == IF Request(b).wait THEN "asking" ELSE "running"
  <2>1. /\ core[d].state = "running" /\ core[d].pc \in Nat \ {0} /\ core[d].pc <= Len(Body(d))
        /\ raised' = raised \cup {b} /\ bus' = Append(bus, e)
        /\ core' = [core EXCEPT ![d] = [state |-> to, pc |-> core[d].pc + 1]]
    BY <1>2, <1>3 DEF CoreRaises, CoreTurn, CoreType
  <2>2. b \in Asks /\ Raiser(b) = d /\ Last(b) = core[d].pc
    BY <2>1, RaisesFacts, LastOfAppend
  <2>3. e \in Item
    BY <2>2, ItemsMade
  <2> HIDE DEF e, b, to
  <2>4. \A x : Has(bus', x) <=> Has(bus, x) \/ x = e
    BY <1>2, <2>1, <2>3, OrderAppend
  <2>5. /\ \A c \in Delegations : c # d => core'[c] = core[c]
        /\ core'[d].pc = core[d].pc + 1
    BY <1>2, <2>1 DEF CoreType
  <2>6. ASSUME NEW a \in Stores, Unraised(a)' PROVE Unraised(a) /\ a # b
    <3>1. a \in Asks /\ Raiser(a) \in Delegations /\ Last(a) \in Nat
      BY StoreFacts
    <3>2. CASE Raiser(a) = d
      BY <2>1, <2>2, <2>5, <2>6, <3>1, <3>2 DEF Unraised
    <3>3. CASE Raiser(a) # d
      BY <2>2, <2>5, <2>6, <3>1, <3>3 DEF Unraised
    <3> QED
      BY <3>2, <3>3
  <2>7. ASSUME NEW a \in Stores, Working(Raiser(a))' PROVE Working(Raiser(a))
    BY <2>1, <2>5, <2>7, StoreFacts DEF Working
  <2>8. Coming(b, bus')
    BY <2>4 DEF e, Coming, Replies
  <2>9. \A a : Coming(a, bus) => Coming(a, bus')
    BY <2>4 DEF Coming, Acked
  <2> QED
    BY <1>1, <2>1, <2>6, <2>7, <2>8, <2>9 DEF Fetched
<1>4. CASE CoreReturns(d) \/ CoreStops(d)
  <2> DEFINE e == IF CoreReturns(d) THEN Ev("delegateAck", d) ELSE Ev("terminateAck", d)
  <2>1. raised' \subseteq raised /\ core' = To(d, "gone") /\ bus' = Append(bus, e)
    BY <1>4 DEF CoreReturns, CoreStops, CoreTurn
  <2>2. e \in Item
    BY ItemsMade
  <2> HIDE DEF e
  <2>3. \A x : Has(bus, x) => Has(bus', x)
    BY <1>2, <2>1, <2>2, OrderAppend
  <2>4. \A c \in Delegations : core'[c].pc = core[c].pc /\ (Working(c)' => Working(c))
    BY <1>2, <2>1 DEF To, Working, CoreType
  <2> QED
    BY <1>1, <2>1, <2>3, <2>4, StillFetches DEF Coming, Acked
<1> QED
  BY <1>3, <1>4

LEMMA OutsideFetches ==
  ASSUME IInv, Fetched, StoreStep \/ User
  PROVE  Fetched'
<1>1. api' = api /\ core' = core /\ raised' = raised /\ loaded' = loaded
  BY DEF StoreStep, User, StoreLands, UserStarts, UserCancels, UserAnswers, Submit
<1>2. bus \in Seq(Item) /\ io \in [Asks -> Nat]
  BY DEF IInv, TypeOK
<1>3. PICK e : bus' = Append(bus, e)
  BY DEF StoreStep, User, StoreLands, UserStarts, UserCancels, UserAnswers, Submit
<1>4. Has(bus', e) /\ \A x : Has(bus, x) => Has(bus', x)
  <2>1. /\ DOMAIN bus = 1..Len(bus) /\ DOMAIN bus' = 1..(Len(bus) + 1) /\ Len(bus) \in Nat
        /\ bus'[Len(bus) + 1] = e /\ \A n \in 1..Len(bus) : bus'[n] = bus[n]
    BY <1>2, <1>3
  <2> QED
    BY <2>1 DEF Has
<1>5. ASSUME NEW a \in Stores, io[a] > 0 \/ Coming(a, bus) PROVE io'[a] > 0 \/ Coming(a, bus')
  <2>1. CASE Coming(a, bus)
    BY <1>4, <2>1 DEF Coming, Acked
  <2>2. CASE io'[a] = io[a]
    BY <1>4, <1>5, <2>2 DEF Coming, Acked
  <2>3. CASE io'[a] # io[a]
    <3>1. PICK b \in Asks : StoreLands(b)
      BY <2>3 DEF StoreStep, User, UserStarts, UserCancels, UserAnswers, Submit
    <3>2. io' = [io EXCEPT ![b] = @ - 1]
      BY <3>1 DEF StoreLands
    <3>3. a = b
      BY <1>2, <2>3, <3>2, StoreFacts
    <3>4. bus' = Append(bus, AskEv("stored", a)) \/ bus' = Append(bus, AskEv("unstored", a))
      BY <3>1, <3>3 DEF StoreLands, Submit
    <3>5. Has(bus', AskEv("stored", a)) \/ Has(bus', AskEv("unstored", a))
      <4>1. bus'[Len(bus) + 1] \in {AskEv("stored", a), AskEv("unstored", a)}
        BY <1>2, <3>4
      <4>2. Len(bus) + 1 \in DOMAIN bus'
        BY <1>2, <1>3
      <4> QED
        BY <4>1, <4>2 DEF Has
    <3> QED
      BY <3>5 DEF Coming, Replies
  <2> QED
    BY <2>1, <2>2, <2>3
<1> QED
  BY <1>1, <1>5 DEF Fetched, Unraised, Working

\* A load drives again whatever is open.
LEMMA ReloadFetches ==
  ASSUME IInv, Fetched, Load \/ Reloads \/ DropsPoison
  PROVE  Fetched'
<1>1. core' = core /\ raised' = raised /\ io \in [Asks -> Nat]
  BY DEF Load, Reloads, DropsPoison, DropWarm, IInv, TypeOK
<1>2. \A a \in Stores : Unraised(a)' => a \notin raised'
  BY <1>1 DEF Fetched, Unraised
<1>3. CASE Load
  <2>1. \A a \in Stores : a \in raised => io'[a] = io[a] + 1 /\ io[a] \in Nat
    BY <1>1, <1>3, StoreFacts DEF Load, Stores
  <2> QED
    BY <1>1, <1>2, <2>1 DEF Fetched
<1>4. CASE Reloads \/ DropsPoison
  BY <1>2, <1>4 DEF Fetched, Reloads, DropsPoison, DropWarm
<1> QED
  BY <1>3, <1>4

LEMMA InitFetched == Init => Fetched
BY DEF Init, Fetched

LEMMA FetchedNext ==
  ASSUME IInv, IInv', SInv, AInv, Fetched, [Next]_vars
  PROVE  Fetched'
<1>1. CASE UNCHANGED vars
  BY <1>1 DEF vars, Fetched, Unraised, Working, Coming, Acked
<1> QED
  BY <1>1, ApiTurnFetches, CoreTurnFetches, CoreStepFetches, OutsideFetches, ReloadFetches
     DEF Next, Turn, ApiTurn, CoreStep

LEMMA AgreeNow == AInv /\ Fetched => AnswersAgree
<1> SUFFICES ASSUME AInv, Fetched PROVE AnswersAgree
  OBVIOUS
<1>1. AuditIsAnswer
  BY DEF AInv, Audited, AuditIsAnswer, Questions
<1>2. PromiseAgrees
  BY DEF AInv, Promised, PromiseAgrees
<1>3. QuestionReachable
  <2> SUFFICES ASSUME NEW a \in Questions, a \in raised, loaded, Working(Raiser(a)), Raiser(a) \in api.rows,
                      a \notin api.open
               PROVE  \E i \in ToSet(bus) : i.k \in {"escalate", "escalateAck"} /\ i.ask = a
    BY DEF QuestionReachable, Questions
  <2>1. Asked(a, bus) \/ Acked(a, bus)
    BY DEF AInv, Reach, Line
  <2>2. \A x : Has(bus, x) => x \in ToSet(bus)
    BY DEF Has, ToSet
  <2>3. AskEv("escalate", a).k = "escalate" /\ AskEv("escalate", a).ask = a
    BY DEF AskEv
  <2>4. \A v : Ack(a, v).k = "escalateAck" /\ Ack(a, v).ask = a
    BY DEF Ack
  <2> QED
    BY <2>1, <2>2, <2>3, <2>4 DEF Asked, Acked
<1>4. StoreReachable
  <2> SUFFICES ASSUME NEW a \in Stores, a \in raised, loaded, Working(Raiser(a)),
                      <<RunOf(a)>> \in api.rows, ~(io[a] > 0)
               PROVE  \E i \in ToSet(bus) :
                        i.k \in {"escalate", "stored", "unstored", "escalateAck"} /\ i.ask = a
    BY DEF StoreReachable, Stores
  <2>1. Coming(a, bus)
    BY StoreFacts DEF Fetched
  <2>2. \A x : Has(bus, x) => x \in ToSet(bus)
    BY DEF Has, ToSet
  <2>3. \A k : AskEv(k, a).k = k /\ AskEv(k, a).ask = a
    BY DEF AskEv
  <2>4. \A v : Ack(a, v).k = "escalateAck" /\ Ack(a, v).ask = a
    BY DEF Ack
  <2> QED
    BY <2>1, <2>2, <2>3, <2>4 DEF Coming, Acked, Replies
<1> QED
  BY <1>1, <1>2, <1>3, <1>4 DEF AnswersAgree

LEMMA NothingLeftNow == IInv /\ SInv /\ AInv => NothingLeaks
<1> SUFFICES ASSUME IInv, SInv, AInv, loaded, bus = << >>, spent.drops = 0
             PROVE  /\ \A d \in Delegations : Working(d) => d \in api.rows /\ api.run[RunOf(d)] \notin Terminal
                    /\ \A a \in api.open :
                         api.run[RunOf(a)] \notin Terminal \/ core[<<RunOf(a)>>].state \notin Dead
  BY DEF NothingLeaks
<1>1. Line = << >> /\ \A x : ~Has(Line, x)
  BY OrderEmpty DEF Line
<1>2. \A r \in Runs : <<r>> \in api.rows => api.run[r] \notin Terminal
  BY DEF IInv, RootsLive, Alive, Terminal
<1>3. ASSUME NEW r \in Runs, Working(<<r>>) PROVE <<r>> \in api.rows
  BY <1>1, <1>3 DEF AInv, RootAnswers
<1>4. ASSUME NEW s \in Sections, Working(s) PROVE s \in api.rows /\ Root(s) \in api.rows
  <2>1. s \in api.tasks
    BY <1>1, <1>4 DEF SInv, Account, Lined, Due
  <2>2. s \in Queued(api)
    BY <2>1 DEF SInv, Account, Held, Spawned, Queued
  <2> QED
    BY <2>1, <2>2 DEF AInv, Tidy
<1>5. ASSUME NEW d \in Delegations, Working(d)
      PROVE  d \in api.rows /\ api.run[RunOf(d)] \notin Terminal
  <2>1. CASE d \in Roots
    BY <1>2, <1>3, <1>5, <2>1, DelegationFacts
  <2>2. CASE d \in Sections
    BY <1>2, <1>4, <1>5, <2>2, DelegationFacts DEF Root
  <2> QED
    BY <2>1, <2>2, DelegationFacts
<1>6. ASSUME NEW a \in api.open PROVE core[<<RunOf(a)>>].state \notin Dead
  <2>1. a \in Questions
    BY DEF IInv, TypeOK, Reactor, Questions
  <2>2. Raiser(a) = <<RunOf(a)>>
    BY <2>1, QuestionFacts
  <2> QED
    BY <1>1, <2>1, <2>2 DEF AInv, Opened
<1> QED
  BY <1>5, <1>6

\* What a user answers, and what one who awaits a run is told, is what the rows
\* say: the history holds the answer the program got (unless an event was
\* dropped), a question that suspends a live run is open or its answer is on its
\* way back, and a promise tells what the run's row tells, or that it failed.  A
\* store request of a live run is computed or its reply is on its way.
THEOREM AnswersHold == Spec => []AnswersAgree
<1>1. IInv /\ IInv' /\ SInv /\ AInv /\ Metered /\ [Outcomes!Next]_(api.run) /\ [Next]_vars => AInv'
  BY AnswersNext
<1>2. IInv /\ SInv /\ Metered /\ [Next]_vars => SInv'
  BY SectionsNext
<1>3. IInv /\ IInv' /\ SInv /\ AInv /\ Fetched /\ [Next]_vars => Fetched'
  BY FetchedNext
<1> QED
  BY InitIInv, NextKeeps, InitSInv, MeteredKept, InitAInv, InitFetched, AgreeNow, <1>1, <1>2, <1>3, PTL
     DEF Spec

\* When the line is empty, nothing that works is without its row, and no question
\* of a finished run is open that a late request of its root put there: unless an
\* event was dropped, everybody who lost the row was told to stop, behind whatever
\* started it.
THEOREM NothingLeft == Spec => []NothingLeaks
<1>1. IInv /\ IInv' /\ SInv /\ AInv /\ Metered /\ [Outcomes!Next]_(api.run) /\ [Next]_vars => AInv'
  BY AnswersNext
<1>2. IInv /\ SInv /\ Metered /\ [Next]_vars => SInv'
  BY SectionsNext
<1> QED
  BY InitIInv, NextKeeps, InitSInv, MeteredKept, InitAInv, NothingLeftNow, <1>1, <1>2, PTL DEF Spec
=============================================================================
