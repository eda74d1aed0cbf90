------------------------- MODULE CallReactorProofs -------------------------
(***************************************************************************)
(* What the shared lifecycle of external calls (CallReactor) keeps true of *)
(* its state, whichever reactor runs it: for any number of calls and inner *)
(* delegations, every operation leads from a consistent state to one.      *)
(***************************************************************************)
EXTENDS CallReactor, SequenceLemmas, FiniteSetTheorems, FunctionTheorems

-----------------------------------------------------------------------------
(* Consistent states.                                                      *)

Statuses == {"none", "running", "cancelling", "awaitingAnswer", "gone"}
Outcomes == {"result", "failure", "cancelled"}
Edges    == {"none", "running", "cancelling", "retired"}
Proxies  == {"idle", "calling", "cancelling", "done"}
Callees  == {"none", "running", "asking", "answered", "done"}
Fields   == {"status", "settled", "held", "relays", "edge", "bridge", "staged", "raised",
             "proxy", "asked", "callee", "mail"}

\* The events that travel: one for a delegation, or the ask of a child under its call.
Letters == {Event(k, d, Own) : k \in EventKind, d \in Call \cup Inner}
             \cup {Event(k, ParentOf[i], i) : k \in {"escalate", "escalateAck"}, i \in Inner}

IsMail(m) == m \in Seq(ToSet(m)) /\ \A t \in ToSet(m) : IsEvent(t) => t \in Letters

\* A reactor may add fields of its own, and work of its own to the mail.
IsWarm(w) ==
  /\ w = [f \in DOMAIN w |-> w[f]] /\ Fields \subseteq DOMAIN w
  /\ w.status \in [Call -> Statuses] /\ w.settled \in [Call -> BOOLEAN]
  /\ w.held \in [Call -> Outcomes \cup {"nothing"}]
  /\ w.relays \subseteq Call \X Inner
  /\ w.edge \in [Inner -> Edges] /\ w.raised \in [Call -> Nat]
  /\ w.proxy \in [Call -> Proxies] /\ w.callee \in [Inner -> Callees]
  /\ w.asked \subseteq {<<c, Own>> : c \in Call} \cup {<<ParentOf[i], i>> : i \in Inner}
  /\ IsMail(w.mail)

Acked(m, d) == Has(m, Event("delegateAck", d, Own)) \/ Has(m, Event("terminateAck", d, Own))

\* Of a delegation: it is there before it is torn down, once.
DelegateFirst(m, d) ==
  /\ ~Precedes(m, Event("delegate", d, Own), Event("delegate", d, Own))
  /\ ~Precedes(m, Event("terminate", d, Own), Event("delegate", d, Own))

CallOk(w, c) ==
  /\ w.proxy[c] = "idle" => w.status[c] = "none"
  /\ w.status[c] = "none" /\ w.proxy[c] # "idle" => Has(w.mail, Event("delegate", c, Own))
  /\ Has(w.mail, Event("delegate", c, Own)) => w.status[c] = "none" /\ w.proxy[c] # "idle"
  /\ Has(w.mail, Event("terminate", c, Own)) => w.proxy[c] \in {"cancelling", "done"}
  /\ DelegateFirst(w.mail, c)
  /\ Acked(w.mail, c) \/ w.proxy[c] = "done" => w.status[c] = "gone"

InnerOk(w, i) ==
  /\ w.edge[i] = "none" => w.callee[i] = "none"
  /\ w.edge[i] # "none" /\ w.callee[i] = "none" => Has(w.mail, Event("delegate", i, Own))
  /\ Has(w.mail, Event("delegate", i, Own)) =>
       w.callee[i] = "none" /\ w.edge[i] \in {"running", "cancelling"}
  /\ Has(w.mail, Event("terminate", i, Own)) => w.edge[i] \in {"cancelling", "retired"}
  /\ DelegateFirst(w.mail, i)
  /\ Acked(w.mail, i) \/ w.edge[i] = "retired" => w.callee[i] = "done"

\* A call that winds down winds its children down; one that is done has none.
Wound(w, i) ==
  LET c == ParentOf[i]
  IN /\ w.status[c] = "none" => w.edge[i] = "none"
     /\ w.status[c] \in {"gone", "awaitingAnswer"} => w.edge[i] \in {"none", "retired"}
     /\ w.status[c] = "cancelling" \/ w.held[c] # "nothing" => w.edge[i] # "running"

HeldOk(w, c) == w.held[c] # "nothing" => w.status[c] = "running"

\* The ask of a child nobody tears down is on its way up, with core, or answered.
AskMoves(w, i) ==
  LET c == ParentOf[i]
  IN \/ Has(w.mail, Event("escalate", i, Own))
     \/ Has(w.mail, Event("escalateAck", i, Own))
     \/ /\ <<c, i>> \in w.relays
        /\ \/ Has(w.mail, Event("escalate", c, i))
           \/ <<c, i>> \in w.asked
           \/ Has(w.mail, Event("escalateAck", c, i))
           \/ w.proxy[c] = "cancelling"

AskOk(w, i) == w.callee[i] = "asking" /\ w.edge[i] = "running" => AskMoves(w, i)

Consistent(w) ==
  /\ IsWarm(w)
  /\ \A c \in Call : CallOk(w, c) /\ HeldOk(w, c)
  /\ \A i \in Inner : InnerOk(w, i) /\ Wound(w, i) /\ AskOk(w, i)
-----------------------------------------------------------------------------
(* The members of a finite set in order.                                   *)

LEMMA InjectiveOnto ==
  ASSUME NEW S, IsFiniteSet(S), NEW q \in [1..Cardinality(S) -> S],
         \A i, j \in 1..Cardinality(S) : q[i] = q[j] => i = j
  PROVE  q \in Seq(S) /\ Len(q) = Cardinality(S) /\ ToSet(q) = S
<1> DEFINE n == Cardinality(S)
<1>1. n \in Nat
  BY FS_CardinalityType
<1>2. q \in Injection(1..n, S)
  BY Fun_IsInj
<1>3. IsFiniteSet(1..n) /\ Cardinality(1..n) = n
  BY <1>1, FS_Interval
<1>4. q \in Surjection(1..n, S)
  BY <1>2, <1>3, FS_Injection
<1>5. \A x \in S : \E i \in 1..n : q[i] = x
  BY <1>4 DEF Surjection
<1>6. q \in Seq(S) /\ Len(q) = n /\ DOMAIN q = 1..n
  BY <1>1
<1>7. ToSet(q) = S
  <2>1. ToSet(q) \subseteq S
    BY <1>6 DEF ToSet
  <2>2. S \subseteq ToSet(q)
    BY <1>5, <1>6 DEF ToSet
  <2> QED
    BY <2>1, <2>2
<1> QED
  BY <1>6, <1>7

LEMMA SetToSeqFacts ==
  ASSUME NEW S, IsFiniteSet(S)
  PROVE  /\ SetToSeq(S) \in Seq(S) /\ Len(SetToSeq(S)) = Cardinality(S)
         /\ IsInjective(SetToSeq(S)) /\ ToSet(SetToSeq(S)) = S
<1> DEFINE n == Cardinality(S)
           q == SetToSeq(S)
<1>1. n \in Nat /\ ExistsBijection(1..n, S)
  BY FS_CardinalityType
<1>2. PICK b \in Bijection(1..n, S) : TRUE
  BY <1>1 DEF ExistsBijection
<1>3. b \in [1..n -> S] /\ \A i, j \in 1..n : b[i] = b[j] => i = j
  BY <1>2, Fun_BijectionProperties
<1>4. \E f \in [1..n -> S] : IsInjective(f)
  BY <1>3 DEF IsInjective
<1>5. q \in [1..n -> S] /\ IsInjective(q)
  BY <1>4 DEF SetToSeq
<1>6. \A i, j \in 1..n : q[i] = q[j] => i = j
  BY <1>5 DEF IsInjective
<1> QED
  BY <1>5, <1>6, InjectiveOnto

\* The place of a number in a finite set of numbers: how many are no larger.
LEMMA RankOrders ==
  ASSUME NEW S \in SUBSET Nat, IsFiniteSet(S), NEW x \in S, NEW y \in S, x < y
  PROVE  /\ Cardinality({z \in S : z <= x}) \in 1..Cardinality(S)
         /\ Cardinality({z \in S : z <= x}) < Cardinality({z \in S : z <= y})
<1> DEFINE A == {z \in S : z <= x}
           B == {z \in S : z <= y}
<1>1. A \in SUBSET S /\ B \in SUBSET S /\ A \in SUBSET B /\ x \in A /\ y \in B /\ y \notin A
  <2>1. x \in Nat /\ y \in Nat /\ \A z \in S : z \in Nat
    OBVIOUS
  <2>2. \A z \in S : z <= x => z <= y
    BY <2>1
  <2>3. ~(y <= x) /\ x <= x /\ y <= y
    BY <2>1
  <2>4. A \in SUBSET S /\ B \in SUBSET S /\ A \in SUBSET B
    BY <2>2
  <2>5. x \in A /\ y \in B /\ y \notin A
    BY <2>3
  <2> QED
    BY <2>4, <2>5
<1>2. /\ IsFiniteSet(A) /\ IsFiniteSet(B)
      /\ Cardinality(A) <= Cardinality(S)
  BY <1>1, FS_Subset
<1>3. Cardinality(A) <= Cardinality(B) /\ Cardinality(A) # Cardinality(B)
  BY <1>1, <1>2, FS_Subset
<1>4. Cardinality(A) \in Nat /\ Cardinality(B) \in Nat /\ Cardinality(S) \in Nat
  BY <1>2, FS_CardinalityType
<1>5. Cardinality(A) # 0
  BY <1>1, <1>2, FS_EmptySet
<1> QED
  BY <1>2, <1>3, <1>4, <1>5

LEMMA AscendingFacts ==
  ASSUME NEW S \in SUBSET Nat, IsFiniteSet(S)
  PROVE  /\ Ascending(S) \in Seq(S) /\ Len(Ascending(S)) = Cardinality(S)
         /\ ToSet(Ascending(S)) = S
         /\ \A i, j \in DOMAIN Ascending(S) : i < j <=> Ascending(S)[i] < Ascending(S)[j]
<1> DEFINE n == Cardinality(S)
           rank(x) == Cardinality({z \in S : z <= x})
           r == [x \in S |-> rank(x)]
<1>1. n \in Nat
  BY FS_CardinalityType
<1>2. \A x \in S : rank(x) \in 1..n
  <2> SUFFICES ASSUME NEW x \in S PROVE rank(x) \in 1..n
    OBVIOUS
  <2> DEFINE A == {z \in S : z <= x}
  <2>1. A \in SUBSET S /\ x \in A
    OBVIOUS
  <2>2. IsFiniteSet(A) /\ Cardinality(A) <= n
    BY <2>1, FS_Subset
  <2>3. Cardinality(A) \in Nat /\ Cardinality(A) # 0
    BY <2>1, <2>2, FS_CardinalityType, FS_EmptySet
  <2> QED
    BY <1>1, <2>2, <2>3
<1>3. \A x, y \in S : x < y => rank(x) < rank(y)
  BY RankOrders
<1> HIDE DEF rank
<1>4. r \in [S -> 1..n]
  BY <1>2
<1>5. \A x, y \in S : r[x] = r[y] => x = y
  <2> SUFFICES ASSUME NEW x \in S, NEW y \in S, r[x] = r[y] PROVE x = y
    OBVIOUS
  <2>1. x \in Nat /\ y \in Nat /\ rank(x) = rank(y) /\ rank(x) \in 1..n
    BY <1>2
  <2>2. ~(x < y) /\ ~(y < x)
    BY <1>1, <1>3, <2>1
  <2> QED
    BY <2>1, <2>2
<1>6. r \in Injection(S, 1..n)
  BY <1>4, <1>5, Fun_IsInj
<1>7. IsFiniteSet(1..n) /\ Cardinality(1..n) = n
  BY <1>1, FS_Interval
<1>8. r \in Surjection(S, 1..n)
  BY <1>6, <1>7, FS_Injection
<1>9. \A k \in 1..n : \E x \in S : r[x] = k
  BY <1>8 DEF Surjection
<1> DEFINE s == [k \in 1..n |-> CHOOSE x \in S : rank(x) = k]
<1>10. \A k \in 1..n : s[k] \in S /\ rank(s[k]) = k
  <2>1. \A k \in 1..n : \E x \in S : rank(x) = k
    BY <1>9
  <2> QED
    BY <2>1
<1>11. s \in [1..n -> S]
  BY <1>10
<1>12. s = Ascending(S)
  BY DEF Ascending, rank
<1> HIDE DEF s
<1>13. \A k, l \in 1..n : k # l => s[k] # s[l]
  BY <1>10
<1>14. \A k, l \in 1..n : s[k] = s[l] => k = l
  BY <1>13
<1>15. \A k, l \in DOMAIN s : k < l => s[k] < s[l]
  <2> SUFFICES ASSUME NEW k \in 1..n, NEW l \in 1..n, k < l PROVE s[k] < s[l]
    BY <1>11
  <2>1. s[k] \in Nat /\ s[l] \in Nat /\ s[k] \in S /\ s[l] \in S
    BY <1>11
  <2>2. rank(s[k]) < rank(s[l])
    BY <1>10
  <2>3. s[k] # s[l]
    BY <1>1, <1>10, <2>2
  <2>4. ~(s[l] < s[k])
    <3> SUFFICES ASSUME s[l] < s[k] PROVE FALSE
      OBVIOUS
    <3>1. rank(s[l]) < rank(s[k])
      BY <1>3, <2>1
    <3> QED
      BY <1>1, <1>10, <2>2, <3>1
  <2> QED
    BY <2>1, <2>3, <2>4
<1>16. s \in Seq(S) /\ Len(s) = n /\ ToSet(s) = S
  BY <1>11, <1>14, InjectiveOnto
<1>17. \A k, l \in DOMAIN s : s[k] < s[l] => k < l
  <2> SUFFICES ASSUME NEW k \in 1..n, NEW l \in 1..n, s[k] < s[l] PROVE k < l
    BY <1>11
  <2>1. s[k] \in Nat /\ s[l] \in Nat
    BY <1>11
  <2>2. k # l /\ ~(l < k)
    BY <1>11, <1>15, <2>1
  <2> QED
    BY <1>1, <2>2
<1> QED
  BY <1>15, <1>16, <1>12, <1>17

LEMMA InnerAscending ==
  ASSUME NEW S \in SUBSET Inner
  PROVE  /\ Ascending(S) \in Seq(S) /\ Len(Ascending(S)) = Cardinality(S)
         /\ ToSet(Ascending(S)) = S
<1>1. S \in SUBSET Nat /\ IsFiniteSet(S)
  BY InnerAssumption, FS_Subset
<1> QED
  BY <1>1, AscendingFacts
-----------------------------------------------------------------------------
(* Mail.                                                                   *)

LEMMA SeqWiden ==
  ASSUME NEW A, NEW B, A \subseteq B, NEW s \in Seq(A)
  PROVE  s \in Seq(B)
<1>1. Len(s) \in Nat /\ s \in [1..Len(s) -> A]
  OBVIOUS
<1>2. s \in [1..Len(s) -> B]
  BY <1>1
<1> QED
  BY <1>1, <1>2

LEMMA SeqOfOwn ==
  ASSUME NEW A, NEW s \in Seq(A)
  PROVE  s \in Seq(ToSet(s)) /\ ToSet(s) \subseteq A
<1>1. Len(s) \in Nat /\ s \in [1..Len(s) -> A] /\ DOMAIN s = 1..Len(s)
  OBVIOUS
<1>2. \A i \in 1..Len(s) : s[i] \in ToSet(s)
  BY <1>1 DEF ToSet
<1>3. s \in [1..Len(s) -> ToSet(s)]
  BY <1>1, <1>2
<1>4. ToSet(s) \subseteq A
  BY <1>1 DEF ToSet
<1> QED
  BY <1>1, <1>3, <1>4

LEMMA HasIsIn == ASSUME NEW s, NEW x PROVE Has(s, x) <=> x \in ToSet(s)
BY DEF Has, ToSet

LEMMA MailConcat ==
  ASSUME NEW m, NEW u, IsMail(m), IsMail(u)
  PROVE  /\ IsMail(m \o u) /\ ToSet(m \o u) = ToSet(m) \cup ToSet(u)
         /\ \A e : Has(m \o u, e) <=> Has(m, e) \/ Has(u, e)
         /\ \A e, f : Precedes(m \o u, e, f) <=>
              Precedes(m, e, f) \/ Precedes(u, e, f) \/ (Has(m, e) /\ Has(u, f))
<1> DEFINE S == ToSet(m) \cup ToSet(u)
<1>1. m \in Seq(S) /\ u \in Seq(S)
  BY SeqWiden DEF IsMail
<1>2. m \o u \in Seq(S) /\ ToSet(m \o u) = ToSet(m) \cup ToSet(u)
  BY <1>1, ToSetConcat
<1>3. IsMail(m \o u)
  <2>1. m \o u \in Seq(ToSet(m \o u))
    BY <1>2
  <2>2. \A t \in ToSet(m \o u) : IsEvent(t) => t \in Letters
    BY <1>2 DEF IsMail
  <2> QED
    BY <2>1, <2>2 DEF IsMail
<1> HIDE DEF S
<1>4. ASSUME NEW e, NEW f
      PROVE  /\ Has(m \o u, e) <=> Has(m, e) \/ Has(u, e)
             /\ Precedes(m \o u, e, f) <=>
                  Precedes(m, e, f) \/ Precedes(u, e, f) \/ (Has(m, e) /\ Has(u, f))
  BY <1>1, OrderConcat
<1> QED
  BY <1>2, <1>3, <1>4

LEMMA MailOne ==
  ASSUME NEW t, IsEvent(t) => t \in Letters
  PROVE  /\ IsMail(<<t>>) /\ ToSet(<<t>>) = {t}
         /\ \A e : Has(<<t>>, e) <=> e = t
         /\ \A e, f : ~Precedes(<<t>>, e, f)
<1>1. ToSet(<<t>>) = {t}
  BY DEF ToSet
<1>2. <<t>> \in Seq({t})
  OBVIOUS
<1>3. DOMAIN <<t>> = {1} /\ <<t>>[1] = t
  OBVIOUS
<1> QED
  BY <1>1, <1>2, <1>3 DEF IsMail, Has, Precedes

LEMMA MailNone ==
  IsMail(<< >>) /\ (\A e : ~Has(<< >>, e)) /\ (\A e, f : ~Precedes(<< >>, e, f))
BY ToSetEmpty, OrderEmpty DEF IsMail

LEMMA MailSend ==
  ASSUME NEW m, IsMail(m), NEW t, IsEvent(t) => t \in Letters
  PROVE  /\ IsMail(Append(m, t)) /\ ToSet(Append(m, t)) = ToSet(m) \cup {t}
         /\ \A e : Has(Append(m, t), e) <=> Has(m, e) \/ e = t
         /\ \A e, f : Precedes(Append(m, t), e, f) <=>
              Precedes(m, e, f) \/ (Has(m, e) /\ f = t)
<1>1. Append(m, t) = m \o <<t>>
  BY DEF IsMail
<1>2. IsMail(<<t>>)
  BY MailOne
<1> QED
  BY <1>1, <1>2, MailConcat, MailOne

LEMMA MailTake ==
  ASSUME NEW m, IsMail(m), m # << >>
  PROVE  /\ IsMail(Tail(m)) /\ ToSet(m) = {Head(m)} \cup ToSet(Tail(m))
         /\ Head(m) \in ToSet(m) /\ (IsEvent(Head(m)) => Head(m) \in Letters)
         /\ \A e : Has(m, e) <=> e = Head(m) \/ Has(Tail(m), e)
         /\ \A e, f : Precedes(m, e, f) <=>
              (e = Head(m) /\ Has(Tail(m), f)) \/ Precedes(Tail(m), e, f)
<1> DEFINE S == ToSet(m)
<1>1. m \in Seq(S) /\ Head(m) = m[1]
  BY DEF IsMail
<1>2. Tail(m) \in Seq(S) /\ S = {Head(m)} \cup ToSet(Tail(m)) /\ Head(m) \in S
  BY <1>1, ToSetHeadTail
<1>3. IsMail(Tail(m))
  BY <1>2, SeqOfOwn DEF IsMail
<1>4. IsEvent(Head(m)) => Head(m) \in Letters
  BY <1>2 DEF IsMail
<1> HIDE DEF S
<1>5. ASSUME NEW e, NEW f
      PROVE  /\ Has(m, e) <=> e = Head(m) \/ Has(Tail(m), e)
             /\ Precedes(m, e, f) <=>
                  (e = Head(m) /\ Has(Tail(m), f)) \/ Precedes(Tail(m), e, f)
  BY <1>1, OrderTail
<1> QED
  BY <1>2, <1>3, <1>4, <1>5 DEF S

\* The elements at some places: those, in their order.
LEMMA PickedFacts ==
  ASSUME NEW S, NEW s \in Seq(S), NEW N \in SUBSET DOMAIN s
  PROVE  /\ Picked(s, N) \in Seq(S)
         /\ \A e : Has(Picked(s, N), e) <=> \E n \in N : s[n] = e
         /\ \A e, f : Precedes(Picked(s, N), e, f) <=>
              \E m, n \in N : m < n /\ s[m] = e /\ s[n] = f
<1> DEFINE q == Ascending(N)
           v == Picked(s, N)
<1>1. Len(s) \in Nat /\ DOMAIN s = 1..Len(s)
  OBVIOUS
<1>2. N \in SUBSET Nat /\ IsFiniteSet(N)
  <2>1. IsFiniteSet(1..Len(s)) /\ N \in SUBSET (1..Len(s))
    BY <1>1, FS_Interval
  <2>2. IsFiniteSet(N)
    BY <2>1, FS_Subset
  <2> QED
    BY <1>1, <2>2
<1>3. /\ q \in Seq(N) /\ ToSet(q) = N
      /\ \A i, j \in DOMAIN q : i < j <=> q[i] < q[j]
  BY <1>2, AscendingFacts
<1>4. v = [k \in DOMAIN q |-> s[q[k]]]
  BY DEF Picked
<1> HIDE DEF q, v
<1>5. /\ Len(q) \in Nat /\ DOMAIN q = 1..Len(q) /\ DOMAIN v = DOMAIN q
      /\ \A k \in DOMAIN q : q[k] \in N /\ v[k] = s[q[k]]
  BY <1>3, <1>4
<1>6. \A n \in N : \E k \in DOMAIN q : q[k] = n
  BY <1>3 DEF ToSet
<1>7. v \in Seq(S)
  BY <1>4, <1>5
<1>8. ASSUME NEW e PROVE Has(v, e) <=> \E n \in N : s[n] = e
  BY <1>5, <1>6 DEF Has
<1>9. ASSUME NEW e, NEW f
      PROVE  Precedes(v, e, f) <=> \E m, n \in N : m < n /\ s[m] = e /\ s[n] = f
  <2>1. ASSUME Precedes(v, e, f) PROVE \E m, n \in N : m < n /\ s[m] = e /\ s[n] = f
    <3>1. PICK k \in DOMAIN v, l \in DOMAIN v : k < l /\ v[k] = e /\ v[l] = f
      BY <2>1 DEF Precedes
    <3> QED
      BY <1>3, <1>5, <3>1
  <2>2. ASSUME NEW m \in N, NEW n \in N, m < n, s[m] = e, s[n] = f PROVE Precedes(v, e, f)
    <3>1. PICK k \in DOMAIN q : q[k] = m
      BY <1>6
    <3>2. PICK l \in DOMAIN q : q[l] = n
      BY <1>6
    <3>3. k < l
      BY <1>3, <2>2, <3>1, <3>2
    <3>4. v[k] = e /\ v[l] = f /\ k \in DOMAIN v /\ l \in DOMAIN v
      BY <1>5, <2>2, <3>1, <3>2
    <3> QED
      BY <3>3, <3>4 DEF Precedes
  <2> QED
    BY <2>1, <2>2
<1> QED
  BY <1>7, <1>8, <1>9 DEF v

\* The events of a mail, in their order.
LEMMA EventsFacts ==
  ASSUME NEW m, IsMail(m)
  PROVE  /\ IsMail(EventsOf(m)) /\ \A t \in ToSet(EventsOf(m)) : IsEvent(t)
         /\ \A e : Has(EventsOf(m), e) <=> Has(m, e) /\ IsEvent(e)
         /\ \A e, f : IsEvent(e) /\ IsEvent(f) =>
              (Precedes(EventsOf(m), e, f) <=> Precedes(m, e, f))
<1> DEFINE N == {n \in DOMAIN m : IsEvent(m[n])}
           v == EventsOf(m)
<1>1. m \in Seq(ToSet(m)) /\ N \in SUBSET DOMAIN m /\ v = Picked(m, N)
  BY DEF IsMail, EventsOf
<1>2. \A n : n \in N <=> n \in DOMAIN m /\ IsEvent(m[n])
  OBVIOUS
<1> HIDE DEF N, v
<1>3. /\ v \in Seq(ToSet(m))
      /\ \A e : Has(v, e) <=> \E n \in N : m[n] = e
      /\ \A e, f : Precedes(v, e, f) <=> \E i, j \in N : i < j /\ m[i] = e /\ m[j] = f
  BY <1>1, PickedFacts
<1>4. \A e : Has(v, e) <=> Has(m, e) /\ IsEvent(e)
  BY <1>2, <1>3 DEF Has
<1>5. ASSUME NEW e, NEW f, IsEvent(e), IsEvent(f)
      PROVE  Precedes(v, e, f) <=> Precedes(m, e, f)
  <2>1. Precedes(v, e, f) <=> \E i, j \in N : i < j /\ m[i] = e /\ m[j] = f
    BY <1>3
  <2>2. Precedes(m, e, f) <=> \E i, j \in DOMAIN m : i < j /\ m[i] = e /\ m[j] = f
    BY DEF Precedes
  <2>3. \A i : i \in DOMAIN m /\ m[i] \in {e, f} => i \in N
    BY <1>2, <1>5
  <2> QED
    BY <1>2, <2>1, <2>2, <2>3
<1>6. \A t \in ToSet(v) : t \in ToSet(m) /\ IsEvent(t)
  BY <1>4, HasIsIn
<1>7. IsMail(v)
  BY <1>3, <1>6, SeqOfOwn DEF IsMail
<1> QED
  BY <1>4, <1>5, <1>6, <1>7 DEF v

-----------------------------------------------------------------------------
(* Letters of one delegation.                                              *)

\* What n holds about a delegation is what m holds, in the same order.
Calm(m, n, d) ==
  \A e, f : e.d = d /\ f.d = d =>
    (Has(n, e) <=> Has(m, e)) /\ (Precedes(n, e, f) <=> Precedes(m, e, f))

LEMMA CalmSelf == ASSUME NEW m, NEW d PROVE Calm(m, m, d)
BY DEF Calm

LEMMA CalmTwice ==
  ASSUME NEW m, NEW n, NEW o, NEW d, Calm(m, n, d), Calm(n, o, d) PROVE Calm(m, o, d)
BY DEF Calm

LEMMA CalmTake ==
  ASSUME NEW m, IsMail(m), m # << >>, NEW d, Head(m).d # d
  PROVE  Calm(m, Tail(m), d)
BY MailTake DEF Calm

LEMMA CalmSend ==
  ASSUME NEW m, IsMail(m), NEW t, IsEvent(t) => t \in Letters, NEW d, t.d # d
  PROVE  Calm(m, Append(m, t), d)
BY MailSend DEF Calm

LEMMA CalmConcat ==
  ASSUME NEW m, NEW u, IsMail(m), IsMail(u), NEW d, \A t \in ToSet(u) : t.d # d
  PROVE  Calm(m, m \o u, d)
<1>1. \A e : e.d = d => ~Has(u, e)
  BY HasIsIn
<1>2. \A e, f : e.d = d => ~Precedes(u, e, f)
  BY <1>1, OrderHas
<1>3. \A e : Has(m \o u, e) <=> Has(m, e) \/ Has(u, e)
  BY MailConcat
<1>4. \A e, f : Precedes(m \o u, e, f) <=>
        Precedes(m, e, f) \/ Precedes(u, e, f) \/ (Has(m, e) /\ Has(u, f))
  BY MailConcat
<1> QED
  BY <1>1, <1>2, <1>3, <1>4 DEF Calm

LEMMA EventFacts ==
  ASSUME NEW k, NEW d, NEW x
  PROVE  /\ Event(k, d, x).k = k /\ Event(k, d, x).d = d /\ Event(k, d, x).x = x
         /\ \A k2, d2, x2 : Event(k, d, x) = Event(k2, d2, x2) <=> k = k2 /\ d = d2 /\ x = x2
         /\ IsEvent(Event(k, d, x)) <=> k \in EventKind
BY DEF Event, IsEvent

LEMMA OwnFacts == Own \notin Inner /\ \A i \in Inner : i # Own /\ i \notin Call
BY InnerAssumption, CallAssumption DEF Own

LEMMA LetterFacts ==
  ASSUME NEW t \in Letters
  PROVE  /\ t = Event(t.k, t.d, t.x) /\ t.k \in EventKind /\ IsEvent(t)
         /\ \/ t.d \in Call \cup Inner /\ t.x = Own
            \/ /\ t.x \in Inner /\ t.d = ParentOf[t.x] /\ t.d \in Call
               /\ t.k \in {"escalate", "escalateAck"}
<1>1. CASE \E k \in EventKind, d \in Call \cup Inner : t = Event(k, d, Own)
  BY <1>1, EventFacts
<1>2. CASE \E k \in {"escalate", "escalateAck"}, i \in Inner : t = Event(k, ParentOf[i], i)
  <2>1. PICK k \in {"escalate", "escalateAck"}, i \in Inner : t = Event(k, ParentOf[i], i)
    BY <1>2
  <2>2. ParentOf[i] \in Call /\ k \in EventKind
    BY ParentAssumption DEF EventKind
  <2> QED
    BY <2>1, <2>2, EventFacts
<1> QED
  BY <1>1, <1>2 DEF Letters
-----------------------------------------------------------------------------
(* What an operation leaves alone.                                         *)

LEMMA KeepCall ==
  ASSUME NEW w, NEW v, NEW c \in Call, CallOk(w, c), Calm(w.mail, v.mail, c),
         v.status[c] = w.status[c], v.proxy[c] = w.proxy[c]
  PROVE  CallOk(v, c)
<1> DEFINE L(k) == Event(k, c, Own)
<1>1. \A k : L(k).d = c
  BY EventFacts
<1>2. \A k : Has(v.mail, L(k)) <=> Has(w.mail, L(k))
  BY <1>1 DEF Calm
<1>3. \A k, l : Precedes(v.mail, L(k), L(l)) <=> Precedes(w.mail, L(k), L(l))
  BY <1>1 DEF Calm
<1> QED
  BY <1>2, <1>3 DEF CallOk, Acked, DelegateFirst

LEMMA KeepInner ==
  ASSUME NEW w, NEW v, NEW i \in Inner, InnerOk(w, i), Calm(w.mail, v.mail, i),
         v.edge[i] = w.edge[i], v.callee[i] = w.callee[i]
  PROVE  InnerOk(v, i)
<1> DEFINE L(k) == Event(k, i, Own)
<1>1. \A k : L(k).d = i
  BY EventFacts
<1>2. \A k : Has(v.mail, L(k)) <=> Has(w.mail, L(k))
  BY <1>1 DEF Calm
<1>3. \A k, l : Precedes(v.mail, L(k), L(l)) <=> Precedes(w.mail, L(k), L(l))
  BY <1>1 DEF Calm
<1> QED
  BY <1>2, <1>3 DEF InnerOk, Acked, DelegateFirst

\* The letters on which the ask of i travels.
AskLetters(i) == {Event("escalate", i, Own), Event("escalateAck", i, Own),
                  Event("escalate", ParentOf[i], i), Event("escalateAck", ParentOf[i], i)}

LEMMA KeepAsk ==
  ASSUME NEW w, NEW v, NEW i \in Inner, AskOk(w, i),
         v.callee[i] = "asking" => w.callee[i] = "asking",
         v.edge[i] = "running" => w.edge[i] = "running",
         <<ParentOf[i], i>> \in w.relays => <<ParentOf[i], i>> \in v.relays,
         <<ParentOf[i], i>> \in w.asked => <<ParentOf[i], i>> \in v.asked,
         w.proxy[ParentOf[i]] = "cancelling" => v.proxy[ParentOf[i]] = "cancelling",
         \A e \in AskLetters(i) : Has(w.mail, e) => Has(v.mail, e)
  PROVE  AskOk(v, i)
BY DEF AskOk, AskMoves, AskLetters

\* Everything but the calls in C, the inner delegations in I and the asks of A.
ConsistentBut(w, C, I, A) ==
  /\ IsWarm(w)
  /\ \A c \in Call : (c \notin C => CallOk(w, c)) /\ HeldOk(w, c)
  /\ \A i \in Inner : /\ i \notin I => InnerOk(w, i)
                      /\ Wound(w, i)
                      /\ i \notin A => AskOk(w, i)

LEMMA ButNothing == ASSUME NEW w PROVE ConsistentBut(w, {}, {}, {}) <=> Consistent(w)
BY DEF ConsistentBut, Consistent

\* The state without the first letter of its mail.
Rest(w) == [w EXCEPT !.mail = Tail(@)]

LEMMA RestFacts ==
  ASSUME NEW w, IsWarm(w), w.mail # << >>
  PROVE  /\ IsWarm(Rest(w)) /\ Rest(w).mail = Tail(w.mail) /\ DOMAIN Rest(w) = DOMAIN w
         /\ \A f \in DOMAIN w : f # "mail" => Rest(w)[f] = w[f]
<1>1. IsMail(Tail(w.mail))
  BY MailTake DEF IsWarm
<1>2. /\ Rest(w).mail = Tail(w.mail) /\ DOMAIN Rest(w) = DOMAIN w
      /\ \A f \in DOMAIN w : f # "mail" => Rest(w)[f] = w[f]
      /\ Rest(w) = [f \in DOMAIN Rest(w) |-> Rest(w)[f]]
  BY DEF Rest, IsWarm, Fields
<1>3. /\ Rest(w).status = w.status /\ Rest(w).settled = w.settled /\ Rest(w).held = w.held
      /\ Rest(w).relays = w.relays /\ Rest(w).edge = w.edge /\ Rest(w).raised = w.raised
      /\ Rest(w).proxy = w.proxy /\ Rest(w).callee = w.callee /\ Rest(w).asked = w.asked
  BY <1>2 DEF IsWarm, Fields
<1> QED
  BY <1>1, <1>2, <1>3 DEF IsWarm

LEMMA RestSame ==
  ASSUME NEW w, IsWarm(w), w.mail # << >>
  PROVE  /\ Rest(w).status = w.status /\ Rest(w).settled = w.settled /\ Rest(w).held = w.held
         /\ Rest(w).relays = w.relays /\ Rest(w).edge = w.edge /\ Rest(w).raised = w.raised
         /\ Rest(w).proxy = w.proxy /\ Rest(w).callee = w.callee /\ Rest(w).asked = w.asked
         /\ Rest(w).bridge = w.bridge /\ Rest(w).staged = w.staged
BY RestFacts DEF IsWarm, Fields

\* Taking a letter costs what waits for it, and nothing else.
LEMMA RestConsistent ==
  ASSUME NEW w, Consistent(w), w.mail # << >>
  PROVE  ConsistentBut(Rest(w),
           {c \in Call : Head(w.mail) = Event("delegate", c, Own)},
           {i \in Inner : Head(w.mail) = Event("delegate", i, Own)},
           {i \in Inner : Head(w.mail) \in AskLetters(i)})
<1> DEFINE v == Rest(w)
           t == Head(w.mail)
<1>1. /\ IsWarm(w) /\ IsWarm(v) /\ v.mail = Tail(w.mail) /\ IsMail(w.mail)
      /\ v.status = w.status /\ v.held = w.held /\ v.edge = w.edge /\ v.proxy = w.proxy
      /\ v.callee = w.callee /\ v.asked = w.asked /\ v.relays = w.relays
  BY RestFacts, RestSame DEF Consistent, IsWarm
<1> HIDE DEF v
<1>2. \A e : Has(w.mail, e) <=> e = t \/ Has(v.mail, e)
  BY <1>1, MailTake
<1>3. \A e, f : Precedes(v.mail, e, f) => Precedes(w.mail, e, f)
  BY <1>1, MailTake
<1>4. ASSUME NEW c \in Call, t # Event("delegate", c, Own) PROVE CallOk(v, c)
  <2>1. CallOk(w, c)
    BY DEF Consistent
  <2>2. Has(v.mail, Event("delegate", c, Own)) <=> Has(w.mail, Event("delegate", c, Own))
    BY <1>2, <1>4
  <2>3. Acked(v.mail, c) => Acked(w.mail, c)
    BY <1>2 DEF Acked
  <2>4. DelegateFirst(w.mail, c) => DelegateFirst(v.mail, c)
    BY <1>3 DEF DelegateFirst
  <2>5. Has(v.mail, Event("terminate", c, Own)) => Has(w.mail, Event("terminate", c, Own))
    BY <1>2
  <2> QED
    BY <1>1, <2>1, <2>2, <2>3, <2>4, <2>5 DEF CallOk
<1>5. ASSUME NEW i \in Inner, t # Event("delegate", i, Own) PROVE InnerOk(v, i)
  <2>1. InnerOk(w, i)
    BY DEF Consistent
  <2>2. Has(v.mail, Event("delegate", i, Own)) <=> Has(w.mail, Event("delegate", i, Own))
    BY <1>2, <1>5
  <2>3. Acked(v.mail, i) => Acked(w.mail, i)
    BY <1>2 DEF Acked
  <2>4. DelegateFirst(w.mail, i) => DelegateFirst(v.mail, i)
    BY <1>3 DEF DelegateFirst
  <2>5. Has(v.mail, Event("terminate", i, Own)) => Has(w.mail, Event("terminate", i, Own))
    BY <1>2
  <2> QED
    BY <1>1, <2>1, <2>2, <2>3, <2>4, <2>5 DEF InnerOk
<1>6. ASSUME NEW i \in Inner, t \notin AskLetters(i) PROVE AskOk(v, i)
  <2>1. AskOk(w, i)
    BY DEF Consistent
  <2>2. \A e \in AskLetters(i) : Has(w.mail, e) => Has(v.mail, e)
    BY <1>2, <1>6
  <2> QED
    BY <1>1, <2>1, <2>2, KeepAsk
<1>7. \A c \in Call : HeldOk(v, c)
  BY <1>1 DEF Consistent, HeldOk
<1>8. \A i \in Inner : Wound(v, i)
  BY <1>1 DEF Consistent, Wound
<1> QED
  BY <1>1, <1>4, <1>5, <1>6, <1>7, <1>8 DEF ConsistentBut, v

\* A letter that is no event's, or that nothing waits for.
LEMMA RestFree ==
  ASSUME NEW w, Consistent(w), w.mail # << >>,
         IsEvent(Head(w.mail)) => Head(w.mail).k \notin {"delegate", "escalate", "escalateAck"}
  PROVE  Consistent(Rest(w))
<1> DEFINE t == Head(w.mail)
<1>1. \A k, d, x : k \in {"delegate", "escalate", "escalateAck"} => t # Event(k, d, x)
  BY EventFacts DEF EventKind
<1>2. /\ {c \in Call : t = Event("delegate", c, Own)} = {}
      /\ {i \in Inner : t = Event("delegate", i, Own)} = {}
      /\ {i \in Inner : t \in AskLetters(i)} = {}
  BY <1>1 DEF AskLetters
<1> QED
  BY <1>2, RestConsistent, ButNothing

LEMMA SendFacts ==
  ASSUME NEW w, IsWarm(w), NEW k, NEW d, NEW x, Event(k, d, x) \in Letters
  PROVE  /\ IsWarm(Send(w, k, d, x)) /\ DOMAIN Send(w, k, d, x) = DOMAIN w
         /\ Send(w, k, d, x).mail = Append(w.mail, Event(k, d, x))
         /\ \A f \in DOMAIN w : f # "mail" => Send(w, k, d, x)[f] = w[f]
<1> DEFINE v == Send(w, k, d, x)
<1>1. IsMail(Append(w.mail, Event(k, d, x)))
  BY MailSend DEF IsWarm
<1>2. /\ v.mail = Append(w.mail, Event(k, d, x)) /\ DOMAIN v = DOMAIN w
      /\ \A f \in DOMAIN w : f # "mail" => v[f] = w[f]
      /\ v = [f \in DOMAIN v |-> v[f]]
  BY DEF Send, IsWarm, Fields
<1>3. /\ v.status = w.status /\ v.settled = w.settled /\ v.held = w.held
      /\ v.relays = w.relays /\ v.edge = w.edge /\ v.raised = w.raised
      /\ v.proxy = w.proxy /\ v.callee = w.callee /\ v.asked = w.asked
  BY <1>2 DEF IsWarm, Fields
<1> QED
  BY <1>1, <1>2, <1>3 DEF IsWarm

LEMMA SendSame ==
  ASSUME NEW w, IsWarm(w), NEW k, NEW d, NEW x, Event(k, d, x) \in Letters
  PROVE  LET v == Send(w, k, d, x)
         IN /\ v.status = w.status /\ v.settled = w.settled /\ v.held = w.held
            /\ v.relays = w.relays /\ v.edge = w.edge /\ v.raised = w.raised
            /\ v.proxy = w.proxy /\ v.callee = w.callee /\ v.asked = w.asked
            /\ v.bridge = w.bridge /\ v.staged = w.staged
<1> DEFINE v == Send(w, k, d, x)
<1>1. \A f \in DOMAIN w : f # "mail" => v[f] = w[f]
  BY SendFacts
<1> HIDE DEF v
<1>2. Fields \subseteq DOMAIN w
  BY DEF IsWarm
<1>3. /\ v.status = w.status /\ v.settled = w.settled /\ v.held = w.held
      /\ v.relays = w.relays /\ v.edge = w.edge /\ v.raised = w.raised
      /\ v.proxy = w.proxy /\ v.callee = w.callee /\ v.asked = w.asked
      /\ v.bridge = w.bridge /\ v.staged = w.staged
  BY <1>1, <1>2 DEF Fields
<1> QED
  BY <1>3 DEF v

LEMMA SomeLetters ==
  /\ \A k \in EventKind, c \in Call : Event(k, c, Own) \in Letters
  /\ \A k \in EventKind, i \in Inner : Event(k, i, Own) \in Letters
  /\ \A i \in Inner : /\ Event("escalate", ParentOf[i], i) \in Letters
                      /\ Event("escalateAck", ParentOf[i], i) \in Letters
                      /\ ParentOf[i] \in Call
BY ParentAssumption DEF Letters
-----------------------------------------------------------------------------
(* A call ends.                                                            *)

LEMMA DropFacts ==
  ASSUME NEW w, IsWarm(w), NEW c \in Call
  PROVE  /\ IsWarm(Drop(w, c)) /\ DOMAIN Drop(w, c) = DOMAIN w
         /\ Drop(w, c).status = [w.status EXCEPT ![c] = "gone"]
         /\ Drop(w, c).settled = [w.settled EXCEPT ![c] = FALSE]
         /\ Drop(w, c).held = [w.held EXCEPT ![c] = "nothing"]
         /\ Drop(w, c).edge = w.edge /\ Drop(w, c).raised = w.raised
         /\ Drop(w, c).proxy = w.proxy /\ Drop(w, c).callee = w.callee
         /\ Drop(w, c).asked = w.asked /\ Drop(w, c).staged = w.staged
         /\ Drop(w, c).mail = w.mail
         /\ Drop(w, c).bridge = {b \in w.bridge : ParentOf[b[1]] # c}
<1> DEFINE v == Drop(w, c)
<1>1. /\ DOMAIN v = DOMAIN w /\ v = [f \in DOMAIN v |-> v[f]]
      /\ v.status = [w.status EXCEPT ![c] = "gone"]
      /\ v.settled = [w.settled EXCEPT ![c] = FALSE]
      /\ v.held = [w.held EXCEPT ![c] = "nothing"]
      /\ v.relays = {r \in w.relays : r[1] # c}
  BY DEF Drop, IsWarm, Fields
<1>2. /\ v.edge = w.edge /\ v.raised = w.raised
      /\ v.proxy = w.proxy /\ v.callee = w.callee
      /\ v.asked = w.asked /\ v.staged = w.staged
      /\ v.mail = w.mail
      /\ v.bridge = {b \in w.bridge : ParentOf[b[1]] # c}
  BY DEF Drop, IsWarm, Fields
<1> HIDE DEF v
<1>3. /\ v.status \in [Call -> Statuses] /\ v.settled \in [Call -> BOOLEAN]
      /\ v.held \in [Call -> Outcomes \cup {"nothing"}] /\ v.relays \subseteq Call \X Inner
  BY <1>1 DEF IsWarm, Statuses
<1>4. IsWarm(v)
  BY <1>1, <1>2, <1>3 DEF IsWarm
<1> QED
  BY <1>1, <1>2, <1>4 DEF v

LEMMA DropRelays ==
  ASSUME NEW w, IsWarm(w), NEW c \in Call
  PROVE  \A r : r \in Drop(w, c).relays <=> r \in w.relays /\ r[1] # c
BY DEF Drop, IsWarm, Fields

\* A call that has drained answers, and is gone.
LEMMA AnswerKeeps ==
  ASSUME NEW w, NEW A, ConsistentBut(w, {}, {}, A), NEW c \in Call,
         \A i \in A : ParentOf[i] = c,
         Live(w, c), ~Draining(w, c), NEW k \in {"delegateAck", "terminateAck"}
  PROVE  Consistent(Drop(Send(w, k, c, Own), c))
<1> DEFINE e == Event(k, c, Own)
           s == Send(w, k, c, Own)
           v == Drop(s, c)
<1>1. IsWarm(w) /\ IsMail(w.mail) /\ k \in EventKind
  BY DEF ConsistentBut, IsWarm, EventKind
<1>2. e \in Letters
  BY <1>1, SomeLetters
<1>3. /\ IsWarm(s) /\ s.mail = Append(w.mail, e)
      /\ s.status = w.status /\ s.held = w.held /\ s.relays = w.relays /\ s.edge = w.edge
      /\ s.proxy = w.proxy /\ s.callee = w.callee /\ s.asked = w.asked
  BY <1>1, <1>2, SendFacts, SendSame
<1> HIDE DEF s
<1>4. /\ IsWarm(v) /\ v.status = [w.status EXCEPT ![c] = "gone"]
      /\ v.held = [w.held EXCEPT ![c] = "nothing"]
      /\ (\A r : r \in v.relays <=> r \in w.relays /\ r[1] # c) /\ v.edge = w.edge
      /\ v.proxy = w.proxy /\ v.callee = w.callee /\ v.asked = w.asked
      /\ v.mail = Append(w.mail, e)
  <2>1. IsWarm(s)
    BY <1>3
  <2>2. /\ IsWarm(v) /\ v.status = [s.status EXCEPT ![c] = "gone"]
        /\ v.held = [s.held EXCEPT ![c] = "nothing"]
        /\ v.edge = s.edge
        /\ v.proxy = s.proxy /\ v.callee = s.callee /\ v.asked = s.asked
        /\ v.mail = s.mail
    BY <2>1, DropFacts
  <2>3. \A r : r \in Drop(s, c).relays <=> r \in s.relays /\ r[1] # c
    BY <2>1, DropRelays
  <2>4. v.relays = Drop(s, c).relays
    OBVIOUS
  <2> HIDE DEF v
  <2> QED
    BY <1>3, <2>2, <2>3, <2>4
<1> HIDE DEF v
<1>5. /\ \A x : Has(v.mail, x) <=> Has(w.mail, x) \/ x = e
      /\ \A x, y : Precedes(v.mail, x, y) <=> Precedes(w.mail, x, y) \/ (Has(w.mail, x) /\ y = e)
  BY <1>1, <1>2, <1>4, MailSend
<1>6. e.d = c
  BY EventFacts
<1> HIDE DEF e
<1>7. \A d : d # c => Calm(w.mail, v.mail, d)
  BY <1>1, <1>2, <1>4, <1>6, CalmSend
<1>8. /\ w.status \in [Call -> Statuses] /\ w.held \in [Call -> Outcomes \cup {"nothing"}]
      /\ w.edge \in [Inner -> Edges]
  BY <1>1 DEF IsWarm
<1>9. \A i \in Inner : ParentOf[i] = c => w.edge[i] \in {"none", "retired"}
  BY <1>8 DEF Draining, Children, Edges
<1>10. CallOk(v, c)
  <2>1. CallOk(w, c) /\ w.status[c] # "none"
    BY DEF ConsistentBut, Live
  <2>2. v.status[c] = "gone" /\ v.proxy[c] = w.proxy[c]
    BY <1>4, <1>8
  <2>3. /\ e # Event("delegate", c, Own) /\ e # Event("terminate", c, Own)
    BY EventFacts DEF e
  <2>4. DelegateFirst(v.mail, c)
    BY <1>5, <2>1, <2>3 DEF CallOk, DelegateFirst
  <2> QED
    BY <1>5, <2>1, <2>2, <2>3, <2>4 DEF CallOk
<1>11. ASSUME NEW d \in Call, d # c PROVE CallOk(v, d)
  BY <1>4, <1>7, <1>8, <1>11, KeepCall DEF ConsistentBut
<1>12. \A d \in Call : HeldOk(v, d)
  BY <1>4, <1>8 DEF ConsistentBut, HeldOk
<1>13. ASSUME NEW i \in Inner PROVE InnerOk(v, i)
  <2>1. i # c
    BY OwnFacts
  <2> QED
    BY <1>4, <1>7, <2>1, KeepInner DEF ConsistentBut
<1>14. ASSUME NEW i \in Inner PROVE Wound(v, i)
  <2>1. Wound(w, i) /\ ParentOf[i] \in Call
    BY SomeLetters DEF ConsistentBut
  <2>2. CASE ParentOf[i] = c
    BY <1>4, <1>8, <1>9, <2>2 DEF Wound
  <2>3. CASE ParentOf[i] # c
    BY <1>4, <1>8, <2>1, <2>3 DEF Wound
  <2> QED
    BY <2>2, <2>3
<1>15. ASSUME NEW i \in Inner PROVE AskOk(v, i)
  <2>1. CASE ParentOf[i] = c
    BY <1>4, <1>9, <2>1 DEF AskOk
  <2>2. CASE ParentOf[i] # c
    <3>1. AskOk(w, i)
      BY <2>2 DEF ConsistentBut
    <3>2. <<ParentOf[i], i>> \in w.relays => <<ParentOf[i], i>> \in v.relays
      BY <1>4, <2>2
    <3> QED
      BY <1>4, <1>5, <3>1, <3>2, KeepAsk
  <2> QED
    BY <2>1, <2>2
<1> QED
  BY <1>4, <1>10, <1>11, <1>12, <1>13, <1>14, <1>15 DEF Consistent, v, s

LEMMA RaiseFacts ==
  ASSUME NEW w, IsWarm(w), NEW c \in Call
  PROVE  LET v == RaiseFailure(w, c)
         IN /\ IsWarm(v) /\ DOMAIN v = DOMAIN w
            /\ v.status = [w.status EXCEPT ![c] = "awaitingAnswer"]
            /\ v.raised = [w.raised EXCEPT ![c] = @ + 1]
            /\ v.mail = Append(w.mail, Event("escalate", c, Own))
            /\ v.settled = w.settled /\ v.held = w.held /\ v.relays = w.relays
            /\ v.edge = w.edge /\ v.proxy = w.proxy /\ v.callee = w.callee
            /\ v.asked = w.asked /\ v.bridge = w.bridge /\ v.staged = w.staged
<1> DEFINE e == Event("escalate", c, Own)
           s == Send(w, "escalate", c, Own)
           v == RaiseFailure(w, c)
<1>1. e \in Letters
  BY SomeLetters DEF EventKind
<1>2. /\ IsWarm(s) /\ DOMAIN s = DOMAIN w /\ s.mail = Append(w.mail, e)
  BY <1>1, SendFacts
<1>3. /\ s.status = w.status /\ s.settled = w.settled /\ s.held = w.held /\ s.relays = w.relays
      /\ s.edge = w.edge /\ s.proxy = w.proxy /\ s.callee = w.callee /\ s.asked = w.asked
      /\ s.bridge = w.bridge /\ s.staged = w.staged /\ s.raised = w.raised
  BY <1>1, SendSame
<1>4. v = [s EXCEPT !.status[c] = "awaitingAnswer", !.raised[c] = @ + 1]
  BY DEF RaiseFailure
<1> HIDE DEF s, v
<1>5. /\ DOMAIN v = DOMAIN s /\ v = [f \in DOMAIN v |-> v[f]]
      /\ v.status = [s.status EXCEPT ![c] = "awaitingAnswer"]
      /\ v.raised = [s.raised EXCEPT ![c] = @ + 1]
      /\ v.mail = s.mail /\ v.settled = s.settled /\ v.held = s.held /\ v.relays = s.relays
  BY <1>2, <1>4 DEF IsWarm, Fields
<1>6. /\ v.edge = s.edge /\ v.proxy = s.proxy /\ v.callee = s.callee
      /\ v.asked = s.asked /\ v.bridge = s.bridge /\ v.staged = s.staged
  BY <1>2, <1>4 DEF IsWarm, Fields
<1>7. v.status \in [Call -> Statuses] /\ v.raised \in [Call -> Nat]
  BY <1>2, <1>5 DEF IsWarm, Statuses
<1>8. IsWarm(v)
  BY <1>2, <1>5, <1>6, <1>7 DEF IsWarm
<1> QED
  BY <1>2, <1>3, <1>5, <1>6, <1>8 DEF v

\* A call that has drained raises its failure, and waits for a handler.
LEMMA RaiseKeeps ==
  ASSUME NEW w, Consistent(w), NEW c \in Call, w.held[c] = "nothing",
         w.status[c] \in {"running", "awaitingAnswer"}, ~Draining(w, c)
  PROVE  Consistent(RaiseFailure(w, c))
<1> DEFINE e == Event("escalate", c, Own)
           v == RaiseFailure(w, c)
<1>1. IsWarm(w) /\ IsMail(w.mail)
  BY DEF Consistent, IsWarm
<1>2. /\ IsWarm(v) /\ v.status = [w.status EXCEPT ![c] = "awaitingAnswer"]
      /\ v.mail = Append(w.mail, e) /\ v.held = w.held /\ v.relays = w.relays
      /\ v.edge = w.edge /\ v.proxy = w.proxy /\ v.callee = w.callee /\ v.asked = w.asked
  BY ZenonT(30), <1>1, RaiseFacts
<1> HIDE DEF v
<1>3. e \in Letters /\ e.d = c
  BY SomeLetters, EventFacts DEF EventKind
<1>4. /\ \A x : Has(v.mail, x) <=> Has(w.mail, x) \/ x = e
      /\ \A x, y : Precedes(v.mail, x, y) <=> Precedes(w.mail, x, y) \/ (Has(w.mail, x) /\ y = e)
  BY <1>1, <1>2, <1>3, MailSend
<1>5. /\ w.status \in [Call -> Statuses] /\ w.edge \in [Inner -> Edges]
  BY <1>1 DEF IsWarm
<1>6. \A k \in {"delegate", "terminate", "delegateAck", "terminateAck"} : e # Event(k, c, Own)
  BY EventFacts
<1> HIDE DEF e
<1>7. \A d : d # c => Calm(w.mail, v.mail, d)
  BY <1>1, <1>2, <1>3, CalmSend
<1>8. \A i \in Inner : ParentOf[i] = c => w.edge[i] \in {"none", "retired"}
  BY <1>5 DEF Draining, Children, Edges
<1>9. CallOk(v, c)
  <2>1. CallOk(w, c) /\ v.status[c] = "awaitingAnswer"
    BY <1>2, <1>5 DEF Consistent
  <2>2. DelegateFirst(v.mail, c)
    BY <1>4, <1>6, <2>1 DEF CallOk, DelegateFirst
  <2>3. Acked(v.mail, c) <=> Acked(w.mail, c)
    BY <1>4, <1>6 DEF Acked
  <2> QED
    BY <1>2, <1>4, <1>6, <2>1, <2>2, <2>3 DEF CallOk
<1>10. ASSUME NEW d \in Call, d # c PROVE CallOk(v, d)
  BY <1>2, <1>5, <1>7, <1>10, KeepCall DEF Consistent
<1>11. ASSUME NEW d \in Call PROVE HeldOk(v, d)
  <2>1. HeldOk(w, d)
    BY DEF Consistent
  <2> QED
    BY <1>2, <1>5, <2>1 DEF HeldOk
<1>12. ASSUME NEW i \in Inner PROVE InnerOk(v, i)
  <2>1. i # c
    BY OwnFacts
  <2> QED
    BY <1>2, <1>7, <2>1, KeepInner DEF Consistent
<1>13. ASSUME NEW i \in Inner PROVE Wound(v, i)
  <2>1. Wound(w, i) /\ ParentOf[i] \in Call
    BY SomeLetters DEF Consistent
  <2>2. CASE ParentOf[i] = c
    BY <1>2, <1>5, <1>8, <2>2 DEF Wound
  <2>3. CASE ParentOf[i] # c
    BY <1>2, <1>5, <2>1, <2>3 DEF Wound
  <2> QED
    BY <2>2, <2>3
<1>14. ASSUME NEW i \in Inner PROVE AskOk(v, i)
  <2>1. AskOk(w, i)
    BY DEF Consistent
  <2> QED
    BY <1>2, <1>4, <2>1, KeepAsk
<1> QED
  BY <1>2, <1>9, <1>10, <1>11, <1>12, <1>13, <1>14 DEF Consistent, v
-----------------------------------------------------------------------------
(* The barrier.                                                            *)

LEMMA HoldFacts ==
  ASSUME NEW w, IsWarm(w), NEW c \in Call, NEW o \in Outcomes \cup {"nothing"}
  PROVE  LET v == [w EXCEPT !.held[c] = o]
         IN /\ IsWarm(v) /\ DOMAIN v = DOMAIN w
            /\ v.held = [w.held EXCEPT ![c] = o]
            /\ v.status = w.status /\ v.settled = w.settled /\ v.relays = w.relays
            /\ v.edge = w.edge /\ v.raised = w.raised /\ v.proxy = w.proxy
            /\ v.callee = w.callee /\ v.asked = w.asked /\ v.staged = w.staged
            /\ v.mail = w.mail /\ v.bridge = w.bridge
<1> DEFINE v == [w EXCEPT !.held[c] = o]
<1>1. /\ DOMAIN v = DOMAIN w /\ v = [f \in DOMAIN v |-> v[f]]
      /\ v.held = [w.held EXCEPT ![c] = o]
      /\ v.status = w.status /\ v.settled = w.settled /\ v.relays = w.relays
      /\ v.edge = w.edge /\ v.raised = w.raised
  BY DEF IsWarm, Fields
<1>2. /\ v.proxy = w.proxy
      /\ v.callee = w.callee /\ v.asked = w.asked /\ v.staged = w.staged
      /\ v.mail = w.mail /\ v.bridge = w.bridge
  BY DEF IsWarm, Fields
<1> HIDE DEF v
<1>3. v.held \in [Call -> Outcomes \cup {"nothing"}]
  BY <1>1 DEF IsWarm
<1>4. IsWarm(v)
  BY <1>1, <1>2, <1>3 DEF IsWarm
<1> QED
  BY <1>1, <1>2, <1>4 DEF v

\* What the barrier finds: the outcome of c may just have been recorded.
Nearly(w, c) ==
  /\ IsWarm(w)
  /\ \A d \in Call : CallOk(w, d) /\ (d # c => HeldOk(w, d))
  /\ w.held[c] # "nothing" => w.status[c] \in {"running", "awaitingAnswer"}
  /\ \A i \in Inner : InnerOk(w, i) /\ Wound(w, i) /\ AskOk(w, i)

LEMMA ConsistentNearly ==
  ASSUME NEW w, Consistent(w), NEW c \in Call PROVE Nearly(w, c)
BY DEF Consistent, Nearly, HeldOk

LEMMA NearlyConsistent ==
  ASSUME NEW w, NEW c \in Call, Nearly(w, c), HeldOk(w, c) PROVE Consistent(w)
BY DEF Consistent, Nearly

\* Without its outcome the call is an ordinary one.
LEMMA ReleaseKeeps ==
  ASSUME NEW w, NEW c \in Call, Nearly(w, c)
  PROVE  Consistent([w EXCEPT !.held[c] = "nothing"])
<1> DEFINE v == [w EXCEPT !.held[c] = "nothing"]
<1>1. /\ IsWarm(v) /\ v.held = [w.held EXCEPT ![c] = "nothing"]
      /\ v.status = w.status /\ v.relays = w.relays /\ v.edge = w.edge
      /\ v.proxy = w.proxy /\ v.callee = w.callee /\ v.asked = w.asked
      /\ v.mail = w.mail
  BY HoldFacts DEF Nearly
<1> HIDE DEF v
<1>2. w.held \in [Call -> Outcomes \cup {"nothing"}]
  BY DEF Nearly, IsWarm
<1>3. ASSUME NEW d \in Call PROVE CallOk(v, d) /\ HeldOk(v, d)
  <2>1. CallOk(v, d)
    BY <1>1, KeepCall, CalmSelf DEF Nearly
  <2>2. HeldOk(v, d)
    BY <1>1, <1>2 DEF Nearly, HeldOk
  <2> QED
    BY <2>1, <2>2
<1>4. ASSUME NEW i \in Inner PROVE InnerOk(v, i) /\ Wound(v, i) /\ AskOk(v, i)
  <2>1. InnerOk(v, i)
    BY <1>1, KeepInner, CalmSelf DEF Nearly
  <2>2. Wound(v, i)
    <3>1. Wound(w, i) /\ ParentOf[i] \in Call
      BY SomeLetters DEF Nearly
    <3>2. v.held[ParentOf[i]] # "nothing" => w.held[ParentOf[i]] # "nothing"
      BY <1>1, <1>2, <3>1
    <3> QED
      BY <1>1, <3>1, <3>2 DEF Wound
  <2>3. AskOk(v, i)
    BY <1>1, KeepAsk DEF Nearly
  <2> QED
    BY <2>1, <2>2, <2>3
<1> QED
  BY <1>1, <1>3, <1>4 DEF Consistent, v

LEMMA SettledKeeps ==
  ASSUME NEW w, NEW c \in Call, Nearly(w, c), ~Draining(w, c),
         w.status[c] \in {"running", "awaitingAnswer"}
  PROVE  Consistent(Settled(w, c))
<1> DEFINE v == [w EXCEPT !.held[c] = "nothing"]
<1>1. w.held[c] \in Outcomes \cup {"nothing"}
  BY DEF Nearly, IsWarm
<1>2. CASE w.held[c] = "nothing"
  <2>1. Consistent(w)
    BY <1>2, NearlyConsistent DEF HeldOk
  <2> QED
    BY <1>2, <2>1 DEF Settled
<1>3. CASE w.held[c] # "nothing"
  <2>1. Consistent(v) /\ ConsistentBut(v, {}, {}, {})
    BY ReleaseKeeps, ButNothing
  <2>2. /\ v.held = [w.held EXCEPT ![c] = "nothing"] /\ v.status = w.status /\ v.edge = w.edge
    BY HoldFacts DEF Nearly
  <2>3. Settled(w, c) = CASE w.held[c] = "result"    -> Drop(Send(v, "delegateAck", c, Own), c)
                          [] w.held[c] = "cancelled" -> Drop(Send(v, "terminateAck", c, Own), c)
                          [] w.held[c] = "failure"   -> RaiseFailure(v, c)
    BY <1>1, <1>3 DEF Settled, Outcomes
  <2> HIDE DEF v
  <2>4. v.held[c] = "nothing" /\ Live(v, c) /\ ~Draining(v, c)
    <3>1. w.held \in [Call -> Outcomes \cup {"nothing"}]
      BY DEF Nearly, IsWarm
    <3> QED
      BY <2>2, <3>1 DEF Live, Draining
  <2>5. CASE w.held[c] = "result"
    <3>1. Settled(w, c) = Drop(Send(v, "delegateAck", c, Own), c)
      BY <2>3, <2>5
    <3> QED
      BY <2>1, <2>4, <3>1, AnswerKeeps
  <2>6. CASE w.held[c] = "cancelled"
    <3>1. Settled(w, c) = Drop(Send(v, "terminateAck", c, Own), c)
      BY <2>3, <2>6
    <3> QED
      BY <2>1, <2>4, <3>1, AnswerKeeps
  <2>7. CASE w.held[c] = "failure"
    <3>1. Settled(w, c) = RaiseFailure(v, c)
      BY <2>3, <2>7
    <3>2. v.status[c] \in {"running", "awaitingAnswer"}
      BY <2>2
    <3>3. Consistent(RaiseFailure(v, c))
      BY <2>1, <2>4, <3>2, RaiseKeeps
    <3> QED
      BY <3>1, <3>3
  <2> QED
    BY <1>1, <1>3, <2>5, <2>6, <2>7 DEF Outcomes
<1> QED
  BY <1>2, <1>3

LEMMA SettleKeeps ==
  ASSUME NEW w, NEW c \in Call, Nearly(w, c)
  PROVE  Consistent(MaybeSettle(w, c))
<1>1. w.edge \in [Inner -> Edges] /\ \A i \in Inner : Wound(w, i)
  BY DEF Nearly, IsWarm
<1>2. CASE ~Live(w, c) \/ Draining(w, c)
  <2>1. MaybeSettle(w, c) = w
    BY <1>2 DEF MaybeSettle
  <2>2. Draining(w, c) => w.status[c] # "awaitingAnswer"
    BY <1>1 DEF Draining, Children, Wound
  <2>3. HeldOk(w, c)
    BY <1>2, <2>2 DEF Nearly, HeldOk, Live
  <2> QED
    BY <2>1, <2>3, NearlyConsistent
<1>3. CASE Live(w, c) /\ ~Draining(w, c) /\ w.status[c] = "cancelling"
  <2>1. MaybeSettle(w, c) = IF w.settled[c] THEN Drop(Send(w, "terminateAck", c, Own), c) ELSE w
    BY <1>3 DEF MaybeSettle
  <2>2. Consistent(w) /\ ConsistentBut(w, {}, {}, {})
    BY <1>3, NearlyConsistent, ButNothing DEF Nearly, HeldOk
  <2>3. Consistent(Drop(Send(w, "terminateAck", c, Own), c))
    BY <1>3, <2>2, AnswerKeeps
  <2> QED
    BY <2>1, <2>2, <2>3
<1>4. CASE Live(w, c) /\ ~Draining(w, c) /\ w.status[c] # "cancelling"
  <2>1. MaybeSettle(w, c) = Settled(w, c)
    BY <1>4 DEF MaybeSettle
  <2> QED
    BY <1>4, <2>1, SettledKeeps DEF Live
<1> QED
  BY <1>2, <1>3, <1>4
-----------------------------------------------------------------------------
(* The children are told to stop.                                          *)

\* The letters that tell them.
Stops(w, c) ==
  LET running == {i \in Children(c) : w.edge[i] = "running"}
  IN [n \in 1..Cardinality(running) |-> Event("terminate", Ascending(running)[n], Own)]

LEMMA TerminateFacts ==
  ASSUME NEW w, IsWarm(w), NEW c \in Call
  PROVE  LET v == TerminateChildren(w, c)
         IN /\ IsWarm(v) /\ DOMAIN v = DOMAIN w
            /\ \A i \in Inner : v.edge[i] = IF ParentOf[i] = c /\ w.edge[i] = "running"
                                            THEN "cancelling" ELSE w.edge[i]
            /\ v.mail = w.mail \o Stops(w, c) /\ IsMail(Stops(w, c))
            /\ \A t \in ToSet(Stops(w, c)) : \E i \in Inner :
                 /\ ParentOf[i] = c /\ w.edge[i] = "running"
                 /\ t = Event("terminate", i, Own)
            /\ v.status = w.status /\ v.settled = w.settled /\ v.held = w.held
            /\ v.relays = w.relays /\ v.raised = w.raised /\ v.proxy = w.proxy
            /\ v.callee = w.callee /\ v.asked = w.asked /\ v.staged = w.staged
            /\ v.bridge = w.bridge
<1> DEFINE v == TerminateChildren(w, c)
           S == {i \in Children(c) : w.edge[i] = "running"}
           n == Cardinality(S)
           u == Stops(w, c)
           newEdge == [i \in Inner |-> IF i \in S THEN "cancelling" ELSE w.edge[i]]
<1>1. S \in SUBSET Inner
  BY DEF Children
<1>2. /\ Ascending(S) \in Seq(S) /\ Len(Ascending(S)) = n
  BY <1>1, InnerAscending
<1>3. n \in Nat
  BY <1>1, InnerAssumption, FS_Subset, FS_CardinalityType
<1>4. u = [k \in 1..n |-> Event("terminate", Ascending(S)[k], Own)]
  BY DEF Stops
<1>5. v = [w EXCEPT !.edge = newEdge, !.mail = @ \o u]
  BY <1>4 DEF TerminateChildren
<1>6. \A i \in Inner : i \in S <=> ParentOf[i] = c /\ w.edge[i] = "running"
  BY DEF Children
<1> HIDE DEF v, n, S, u
<1>7. \A k \in 1..n : Ascending(S)[k] \in S
  BY <1>2
<1>8. DOMAIN u = 1..n /\ \A k \in 1..n : u[k] = Event("terminate", Ascending(S)[k], Own)
  BY <1>4
<1>9. \A t \in ToSet(u) : \E i \in S : t = Event("terminate", i, Own)
  BY <1>7, <1>8 DEF ToSet
<1>10. u \in Seq(Letters)
  <2>1. \A k \in 1..n : Event("terminate", Ascending(S)[k], Own) \in Letters
    BY <1>1, <1>7, SomeLetters DEF EventKind
  <2> QED
    BY <1>3, <1>4, <2>1
<1>11. IsMail(u)
  BY <1>10, SeqOfOwn DEF IsMail
<1>12. IsMail(w.mail \o u)
  BY <1>11, MailConcat DEF IsWarm
<1>13. newEdge \in [Inner -> Edges]
  BY DEF IsWarm, Edges
<1>14. \A i \in Inner : newEdge[i] = IF ParentOf[i] = c /\ w.edge[i] = "running"
                                     THEN "cancelling" ELSE w.edge[i]
  BY <1>6
<1>15. \A t \in ToSet(u) : \E i \in Inner : /\ ParentOf[i] = c /\ w.edge[i] = "running"
                                            /\ t = Event("terminate", i, Own)
  BY <1>1, <1>9, <1>6
<1> HIDE DEF newEdge
<1>16. /\ DOMAIN v = DOMAIN w /\ v = [f \in DOMAIN v |-> v[f]]
       /\ v.edge = newEdge /\ v.mail = w.mail \o u
       /\ v.status = w.status /\ v.settled = w.settled /\ v.held = w.held
       /\ v.relays = w.relays
  BY <1>5 DEF IsWarm, Fields
<1>17. /\ v.raised = w.raised /\ v.proxy = w.proxy
       /\ v.callee = w.callee /\ v.asked = w.asked /\ v.staged = w.staged
       /\ v.bridge = w.bridge
  BY <1>5 DEF IsWarm, Fields
<1>18. IsWarm(v)
  BY <1>12, <1>13, <1>16, <1>17 DEF IsWarm
<1> QED
  BY <1>11, <1>16, <1>17, <1>18, <1>14, <1>15 DEF v, u

\* The outcome of c is recorded, or its cancellation: its children still run.
Winding(w, c) ==
  /\ IsWarm(w)
  /\ \A d \in Call : CallOk(w, d) /\ (d # c => HeldOk(w, d))
  /\ w.held[c] # "nothing" => w.status[c] \in {"running", "awaitingAnswer"}
  /\ \A i \in Inner : InnerOk(w, i) /\ AskOk(w, i)
  /\ \A i \in Inner : ParentOf[i] # c => Wound(w, i)
  /\ w.status[c] = "none" => \A i \in Children(c) : w.edge[i] = "none"
  /\ w.status[c] \in {"gone", "awaitingAnswer"} =>
       \A i \in Children(c) : w.edge[i] \in {"none", "retired"}

LEMMA TerminateKeeps ==
  ASSUME NEW w, NEW c \in Call, Winding(w, c)
  PROVE  Nearly(TerminateChildren(w, c), c)
<1> DEFINE v == TerminateChildren(w, c)
           S == {i \in Children(c) : w.edge[i] = "running"}
<1>1. /\ IsWarm(w) /\ IsMail(w.mail) /\ w.edge \in [Inner -> Edges]
  BY DEF Winding, IsWarm
<1>2. /\ IsWarm(v)
      /\ \A i \in Inner : v.edge[i] = IF ParentOf[i] = c /\ w.edge[i] = "running"
                                      THEN "cancelling" ELSE w.edge[i]
      /\ v.mail = w.mail \o Stops(w, c) /\ IsMail(Stops(w, c))
      /\ \A t \in ToSet(Stops(w, c)) : \E i \in Inner :
           /\ ParentOf[i] = c /\ w.edge[i] = "running"
           /\ t = Event("terminate", i, Own)
      /\ v.status = w.status /\ v.held = w.held /\ v.relays = w.relays
      /\ v.proxy = w.proxy /\ v.callee = w.callee /\ v.asked = w.asked
  BY <1>1, TerminateFacts
<1> HIDE DEF v
<1>3. S \subseteq Inner /\ \A i \in Inner : i \in S <=> ParentOf[i] = c /\ w.edge[i] = "running"
  BY DEF Children
<1> HIDE DEF S
<1> DEFINE u == Stops(w, c)
<1> HIDE DEF u
<1>4. /\ v.mail = w.mail \o u /\ IsMail(u)
      /\ \A t \in ToSet(u) : \E i \in S : t = Event("terminate", i, Own)
  BY <1>2, <1>3 DEF u
<1>5. \A i \in Inner : v.edge[i] = IF i \in S THEN "cancelling" ELSE w.edge[i]
  BY <1>2, <1>3
<1>6. /\ \A e : Has(v.mail, e) <=> Has(w.mail, e) \/ Has(u, e)
      /\ \A e, f : Precedes(v.mail, e, f) <=>
           Precedes(w.mail, e, f) \/ Precedes(u, e, f) \/ (Has(w.mail, e) /\ Has(u, f))
  BY <1>1, <1>4, MailConcat
<1>7. \A e, f : Precedes(u, e, f) => Has(u, f)
  BY OrderHas
<1>8. \A e : Has(u, e) => \E i \in S : e = Event("terminate", i, Own)
  BY <1>4, HasIsIn
<1>9. \A d \in Call : Calm(w.mail, v.mail, d)
  <2> SUFFICES ASSUME NEW d \in Call PROVE Calm(w.mail, v.mail, d)
    OBVIOUS
  <2>1. \A i \in S : i # d /\ Event("terminate", i, Own).d = i
    BY <1>3, OwnFacts, EventFacts
  <2>2. \A t \in ToSet(u) : t.d # d
    BY <1>4, <2>1
  <2> QED
    BY <1>1, <1>4, <2>2, CalmConcat
<1>10. ASSUME NEW d \in Call PROVE CallOk(v, d) /\ (d # c => HeldOk(v, d))
  <2>1. CallOk(w, d)
    BY DEF Winding
  <2>2. CallOk(v, d)
    BY <1>2, <1>9, <2>1, KeepCall
  <2> QED
    BY <1>2, <2>2 DEF Winding, HeldOk
<1>11. ASSUME NEW i \in Inner PROVE InnerOk(v, i)
  <2>1. InnerOk(w, i)
    BY DEF Winding
  <2>2. \A k, d : k # "terminate" => ~Has(u, Event(k, d, Own))
    BY <1>8, EventFacts
  <2>3. \A k : k # "terminate" => (Has(v.mail, Event(k, i, Own)) <=> Has(w.mail, Event(k, i, Own)))
    BY <1>6, <2>2
  <2>4. DelegateFirst(v.mail, i)
    BY <1>6, <1>7, <2>1, <2>2 DEF InnerOk, DelegateFirst
  <2>5. Has(v.mail, Event("terminate", i, Own)) => Has(w.mail, Event("terminate", i, Own)) \/ i \in S
    BY <1>6, <1>8, EventFacts
  <2>6. Acked(v.mail, i) <=> Acked(w.mail, i)
    BY <2>3 DEF Acked
  <2>7. v.edge[i] = "none" <=> w.edge[i] = "none"
    BY <1>3, <1>5
  <2>8. v.edge[i] = "retired" <=> w.edge[i] = "retired"
    BY <1>3, <1>5
  <2>9. /\ w.edge[i] \in {"running", "cancelling"} => v.edge[i] \in {"running", "cancelling"}
        /\ w.edge[i] \in {"cancelling", "retired"} => v.edge[i] \in {"cancelling", "retired"}
        /\ i \in S => v.edge[i] \in {"cancelling", "retired"}
    BY <1>3, <1>5
  <2>10. Has(v.mail, Event("delegate", i, Own)) <=> Has(w.mail, Event("delegate", i, Own))
    BY <2>3
  <2> QED
    BY <1>2, <2>1, <2>4, <2>5, <2>6, <2>7, <2>8, <2>9, <2>10 DEF InnerOk
<1>12. ASSUME NEW i \in Inner PROVE AskOk(v, i)
  <2>1. AskOk(w, i)
    BY DEF Winding
  <2>2. v.edge[i] = "running" => w.edge[i] = "running"
    BY <1>5
  <2> QED
    BY <1>2, <1>6, <2>1, <2>2, KeepAsk
<1>13. ASSUME NEW i \in Inner PROVE Wound(v, i)
  <2>1. CASE ParentOf[i] = c
    <3>1. i \in Children(c) /\ v.edge[i] # "running"
      BY <1>3, <1>5, <2>1 DEF Children
    <3>2. w.edge[i] \in {"none", "retired"} => v.edge[i] = w.edge[i]
      BY <1>3, <1>5
    <3> QED
      BY <1>2, <2>1, <3>1, <3>2 DEF Wound, Winding
  <2>2. CASE ParentOf[i] # c
    <3>1. v.edge[i] = w.edge[i] /\ Wound(w, i)
      BY <1>3, <1>5, <2>2 DEF Winding
    <3> QED
      BY <1>2, <3>1 DEF Wound
  <2> QED
    BY <2>1, <2>2
<1>14. v.held[c] # "nothing" => v.status[c] \in {"running", "awaitingAnswer"}
  BY <1>2 DEF Winding
<1> QED
  BY <1>2, <1>10, <1>11, <1>12, <1>13, <1>14 DEF Nearly, v

LEMMA CompleteKeeps ==
  ASSUME NEW w, Consistent(w), NEW c \in Call, NEW o \in Outcomes
  PROVE  Consistent(Complete(w, c, o))
<1>1. IsWarm(w) /\ Nearly(w, c)
  BY ConsistentNearly DEF Consistent
<1>2. CASE ~Live(w, c)
  BY <1>2 DEF Complete, Live
<1>3. CASE Live(w, c) /\ w.status[c] = "cancelling"
  <2> DEFINE v == [w EXCEPT !.settled[c] = TRUE]
  <2>1. /\ DOMAIN v = DOMAIN w /\ v = [f \in DOMAIN v |-> v[f]]
        /\ v.settled = [w.settled EXCEPT ![c] = TRUE]
        /\ v.status = w.status /\ v.held = w.held /\ v.relays = w.relays /\ v.edge = w.edge
        /\ v.raised = w.raised
    BY <1>1 DEF IsWarm, Fields
  <2>2. /\ v.proxy = w.proxy /\ v.callee = w.callee /\ v.asked = w.asked /\ v.mail = w.mail
    BY <1>1 DEF IsWarm, Fields
  <2>3. Complete(w, c, o) = MaybeSettle(v, c)
    BY <1>3 DEF Complete
  <2> HIDE DEF v
  <2>4. v.settled \in [Call -> BOOLEAN]
    BY <1>1, <2>1 DEF IsWarm
  <2>5. IsWarm(v)
    BY <1>1, <2>1, <2>2, <2>4 DEF IsWarm
  <2>6. \A d \in Call : CallOk(v, d) /\ (d # c => HeldOk(v, d))
    BY <1>1, <2>1, <2>2, KeepCall, CalmSelf DEF Nearly, HeldOk
  <2>7. \A i \in Inner : InnerOk(v, i) /\ Wound(v, i)
    BY <1>1, <2>1, <2>2, KeepInner, CalmSelf DEF Nearly, Wound
  <2>8. \A i \in Inner : AskOk(v, i)
    BY <1>1, <2>1, <2>2, KeepAsk DEF Nearly
  <2>9. Nearly(v, c)
    BY <1>1, <2>1, <2>5, <2>6, <2>7, <2>8 DEF Nearly
  <2> QED
    BY <2>3, <2>9, SettleKeeps
<1>4. CASE Live(w, c) /\ w.status[c] # "cancelling"
  <2> DEFINE v == [w EXCEPT !.held[c] = o]
  <2>1. Complete(w, c, o) = MaybeSettle(TerminateChildren(v, c), c)
    BY <1>4 DEF Complete
  <2>2. /\ IsWarm(v) /\ v.held = [w.held EXCEPT ![c] = o]
        /\ v.status = w.status /\ v.relays = w.relays /\ v.edge = w.edge
        /\ v.proxy = w.proxy /\ v.callee = w.callee /\ v.asked = w.asked
        /\ v.mail = w.mail
    BY <1>1, HoldFacts
  <2> HIDE DEF v
  <2>3. w.held \in [Call -> Outcomes \cup {"nothing"}]
    BY <1>1 DEF IsWarm
  <2>4. w.status[c] \in {"running", "awaitingAnswer"}
    BY <1>4 DEF Live
  <2>5. \A d \in Call : CallOk(v, d) /\ (d # c => HeldOk(v, d))
    <3>1. \A d \in Call : CallOk(v, d)
      BY <1>1, <2>2, KeepCall, CalmSelf DEF Nearly
    <3>2. \A d \in Call : d # c => HeldOk(v, d)
      BY <1>1, <2>2, <2>3 DEF Nearly, HeldOk
    <3> QED
      BY <3>1, <3>2
  <2>6. \A i \in Inner : InnerOk(v, i)
    BY <1>1, <2>2, KeepInner, CalmSelf DEF Nearly
  <2>7. \A i \in Inner : AskOk(v, i)
    BY <1>1, <2>2, KeepAsk DEF Nearly
  <2>8. \A i \in Inner : ParentOf[i] # c => Wound(v, i)
    <3> SUFFICES ASSUME NEW i \in Inner, ParentOf[i] # c PROVE Wound(v, i)
      OBVIOUS
    <3>1. Wound(w, i) /\ v.held[ParentOf[i]] = w.held[ParentOf[i]]
      BY <1>1, <2>2, <2>3, SomeLetters DEF Nearly
    <3> QED
      BY <2>2, <3>1 DEF Wound
  <2>9. v.status[c] \in {"gone", "awaitingAnswer"} =>
          \A i \in Children(c) : v.edge[i] \in {"none", "retired"}
    BY <1>1, <2>2 DEF Nearly, Wound, Children
  <2>10. Winding(v, c)
    BY <2>2, <2>4, <2>5, <2>6, <2>7, <2>8, <2>9 DEF Winding
  <2> QED
    BY <2>1, <2>10, TerminateKeeps, SettleKeeps
<1> QED
  BY <1>2, <1>3, <1>4
-----------------------------------------------------------------------------
(* What the reactor does with a letter.                                    *)

\* The first letter of the mail is the one about d, and it is taken.
LEMMA TakeFacts ==
  ASSUME NEW w, Consistent(w), w.mail # << >>
  PROVE  /\ IsWarm(w) /\ IsWarm(Rest(w)) /\ IsMail(w.mail) /\ IsMail(Rest(w).mail)
         /\ Rest(w).mail = Tail(w.mail)
         /\ \A e : Has(w.mail, e) <=> e = Head(w.mail) \/ Has(Rest(w).mail, e)
         /\ \A e, f : Precedes(w.mail, e, f) <=>
              (e = Head(w.mail) /\ Has(Rest(w).mail, f)) \/ Precedes(Rest(w).mail, e, f)
<1>1. IsWarm(w) /\ IsMail(w.mail)
  BY DEF Consistent, IsWarm
<1>2. IsWarm(Rest(w)) /\ Rest(w).mail = Tail(w.mail)
  BY <1>1, RestFacts
<1>3. IsMail(Rest(w).mail)
  BY <1>2 DEF IsWarm
<1> QED
  BY <1>1, <1>2, <1>3, MailTake

\* What a change to one call leaves of the others.
LEMMA OtherCalls ==
  ASSUME NEW u, NEW v, NEW c \in Call,
         \A d \in Call : d # c => CallOk(u, d) /\ HeldOk(u, d),
         \A d \in Call : d # c => /\ v.status[d] = u.status[d] /\ v.proxy[d] = u.proxy[d]
                                  /\ v.held[d] = u.held[d] /\ Calm(u.mail, v.mail, d)
  PROVE  \A d \in Call : d # c => CallOk(v, d) /\ HeldOk(v, d)
<1> SUFFICES ASSUME NEW d \in Call, d # c PROVE CallOk(v, d) /\ HeldOk(v, d)
  OBVIOUS
<1>1. CallOk(v, d)
  BY KeepCall
<1>2. HeldOk(v, d)
  BY DEF HeldOk
<1> QED
  BY <1>1, <1>2

LEMMA DelegateKeeps ==
  ASSUME NEW w, Consistent(w), w.mail # << >>, NEW c \in Call,
         Head(w.mail) = Event("delegate", c, Own)
  PROVE  Consistent(OnDelegate(Rest(w), c))
<1> DEFINE u == Rest(w)
           v == OnDelegate(u, c)
           t == Event("delegate", c, Own)
<1>1. /\ IsWarm(w) /\ IsWarm(u)
      /\ \A e : Has(w.mail, e) <=> e = t \/ Has(u.mail, e)
      /\ \A e, f : Precedes(w.mail, e, f) <=> (e = t /\ Has(u.mail, f)) \/ Precedes(u.mail, e, f)
  BY TakeFacts
<1>2. /\ u.status = w.status /\ u.held = w.held /\ u.edge = w.edge /\ u.proxy = w.proxy
  BY <1>1, RestSame
<1>3. ConsistentBut(u, {c}, {}, {})
  <2>1. {d \in Call : Head(w.mail) = Event("delegate", d, Own)} = {c}
    BY EventFacts
  <2>2. {i \in Inner : Head(w.mail) = Event("delegate", i, Own)} = {}
    BY EventFacts, OwnFacts
  <2>3. {i \in Inner : Head(w.mail) \in AskLetters(i)} = {}
    BY EventFacts DEF AskLetters
  <2> QED
    BY <2>1, <2>2, <2>3, RestConsistent
<1> HIDE DEF u
<1>4. /\ DOMAIN v = DOMAIN u /\ v = [f \in DOMAIN v |-> v[f]]
      /\ v.status = [u.status EXCEPT ![c] = "running"]
      /\ v.settled = u.settled /\ v.held = u.held /\ v.relays = u.relays /\ v.edge = u.edge
      /\ v.raised = u.raised
  BY <1>1 DEF OnDelegate, IsWarm, Fields
<1>5. v.proxy = u.proxy /\ v.callee = u.callee /\ v.asked = u.asked /\ v.mail = u.mail
  BY <1>1 DEF OnDelegate, IsWarm, Fields
<1> HIDE DEF v
<1>6. u.status \in [Call -> Statuses]
  BY <1>1 DEF IsWarm
<1>7. v.status \in [Call -> Statuses]
  BY <1>4, <1>6 DEF Statuses
<1>8. IsWarm(v)
  BY <1>1, <1>4, <1>5, <1>7 DEF IsWarm
<1>9. w.status[c] = "none" /\ w.proxy[c] # "idle" /\ CallOk(w, c) /\ HeldOk(w, c)
  BY <1>1 DEF Consistent, CallOk
<1>10. ~Has(u.mail, t) /\ ~Acked(u.mail, c) /\ w.proxy[c] # "done"
  <2>1. ~Has(u.mail, t)
    BY <1>1, <1>9 DEF CallOk, DelegateFirst
  <2>2. Acked(u.mail, c) => Acked(w.mail, c)
    BY <1>1 DEF Acked
  <2> QED
    BY <1>9, <2>1, <2>2 DEF CallOk
<1>11. v.status[c] = "running" /\ \A d \in Call : d # c => v.status[d] = u.status[d]
  BY <1>4, <1>6
<1>12. CallOk(v, c) /\ HeldOk(v, c)
  <2>1. DelegateFirst(v.mail, c)
    BY <1>1, <1>5, <1>9 DEF CallOk, DelegateFirst
  <2>2. Has(v.mail, Event("terminate", c, Own)) => v.proxy[c] \in {"cancelling", "done"}
    BY <1>1, <1>2, <1>5, <1>9 DEF CallOk
  <2> QED
    BY <1>2, <1>5, <1>9, <1>10, <1>11, <2>1, <2>2 DEF CallOk, HeldOk
<1>13. \A d \in Call : CallOk(v, d) /\ HeldOk(v, d)
  <2>1. \A d \in Call : d # c => CallOk(u, d) /\ HeldOk(u, d)
    BY <1>3 DEF ConsistentBut
  <2>2. \A d \in Call : d # c => /\ v.status[d] = u.status[d] /\ v.proxy[d] = u.proxy[d]
                                  /\ v.held[d] = u.held[d] /\ Calm(u.mail, v.mail, d)
    BY <1>4, <1>5, <1>11, CalmSelf
  <2>3. \A d \in Call : d # c => CallOk(v, d) /\ HeldOk(v, d)
    BY <2>1, <2>2, OtherCalls
  <2> QED
    BY <1>12, <2>3
<1>14. ASSUME NEW i \in Inner PROVE InnerOk(v, i) /\ Wound(v, i) /\ AskOk(v, i)
  <2>1. InnerOk(v, i)
    BY <1>3, <1>4, <1>5, KeepInner, CalmSelf DEF ConsistentBut
  <2>2. AskOk(v, i)
    BY <1>3, <1>4, <1>5, KeepAsk DEF ConsistentBut
  <2>3. Wound(u, i) /\ ParentOf[i] \in Call
    BY <1>3, SomeLetters DEF ConsistentBut
  <2>4. Wound(v, i)
    <3>1. CASE ParentOf[i] = c
      BY <1>2, <1>4, <1>9, <1>11, <2>3, <3>1 DEF Wound, HeldOk
    <3>2. CASE ParentOf[i] # c
      BY <1>4, <1>11, <2>3, <3>2 DEF Wound
    <3> QED
      BY <3>1, <3>2
  <2> QED
    BY <2>1, <2>2, <2>4
<1> QED
  BY <1>8, <1>13, <1>14 DEF Consistent, v, u

\* A letter of which nothing depends, to a delegation d.
LEMMA SendKeepsCall ==
  ASSUME NEW u, NEW v, NEW c \in Call, CallOk(u, c), IsMail(u.mail),
         NEW e \in Letters, v.mail = Append(u.mail, e),
         v.status[c] = u.status[c], v.proxy[c] = u.proxy[c],
         e # Event("delegate", c, Own),
         e = Event("terminate", c, Own) => u.proxy[c] \in {"cancelling", "done"},
         e \in {Event("delegateAck", c, Own), Event("terminateAck", c, Own)} => u.status[c] = "gone"
  PROVE  CallOk(v, c)
<1>1. /\ \A x : Has(v.mail, x) <=> Has(u.mail, x) \/ x = e
      /\ \A x, y : Precedes(v.mail, x, y) <=> Precedes(u.mail, x, y) \/ (Has(u.mail, x) /\ y = e)
  BY MailSend
<1>2. DelegateFirst(v.mail, c)
  BY <1>1 DEF CallOk, DelegateFirst
<1>3. Acked(v.mail, c) => Acked(u.mail, c) \/ u.status[c] = "gone"
  BY <1>1 DEF Acked
<1>4. Has(v.mail, Event("delegate", c, Own)) <=> Has(u.mail, Event("delegate", c, Own))
  BY <1>1
<1>5. Has(v.mail, Event("terminate", c, Own)) => v.proxy[c] \in {"cancelling", "done"}
  BY <1>1 DEF CallOk
<1> QED
  BY <1>2, <1>3, <1>4, <1>5 DEF CallOk

LEMMA SendKeepsInner ==
  ASSUME NEW u, NEW v, NEW i \in Inner, InnerOk(u, i), IsMail(u.mail),
         NEW e \in Letters, v.mail = Append(u.mail, e),
         v.edge[i] = u.edge[i], v.callee[i] = u.callee[i],
         e # Event("delegate", i, Own),
         e = Event("terminate", i, Own) => u.edge[i] \in {"cancelling", "retired"},
         e \in {Event("delegateAck", i, Own), Event("terminateAck", i, Own)} => u.callee[i] = "done"
  PROVE  InnerOk(v, i)
<1>1. /\ \A x : Has(v.mail, x) <=> Has(u.mail, x) \/ x = e
      /\ \A x, y : Precedes(v.mail, x, y) <=> Precedes(u.mail, x, y) \/ (Has(u.mail, x) /\ y = e)
  BY MailSend
<1>2. DelegateFirst(v.mail, i)
  BY <1>1 DEF InnerOk, DelegateFirst
<1>3. Acked(v.mail, i) => Acked(u.mail, i) \/ u.callee[i] = "done"
  BY <1>1 DEF Acked
<1>4. Has(v.mail, Event("delegate", i, Own)) <=> Has(u.mail, Event("delegate", i, Own))
  BY <1>1
<1>5. Has(v.mail, Event("terminate", i, Own)) => v.edge[i] \in {"cancelling", "retired"}
  BY <1>1 DEF InnerOk
<1> QED
  BY <1>2, <1>3, <1>4, <1>5 DEF InnerOk

\* A letter of which nothing depends leaves a consistent state so.
LEMMA SendKeeps ==
  ASSUME NEW u, Consistent(u), NEW k, NEW d, NEW x, Event(k, d, x) \in Letters,
         k # "delegate",
         k = "terminate" /\ d \in Call => u.proxy[d] \in {"cancelling", "done"},
         k = "terminate" /\ d \in Inner => u.edge[d] \in {"cancelling", "retired"},
         k \in {"delegateAck", "terminateAck"} /\ d \in Call => u.status[d] = "gone",
         k \in {"delegateAck", "terminateAck"} /\ d \in Inner => u.callee[d] = "done"
  PROVE  Consistent(Send(u, k, d, x))
<1> DEFINE v == Send(u, k, d, x)
           e == Event(k, d, x)
<1>1. IsWarm(u) /\ IsMail(u.mail)
  BY DEF Consistent, IsWarm
<1>2. /\ IsWarm(v) /\ v.mail = Append(u.mail, e)
  BY <1>1, SendFacts
<1>3. /\ v.status = u.status /\ v.held = u.held /\ v.relays = u.relays /\ v.edge = u.edge
      /\ v.proxy = u.proxy /\ v.callee = u.callee /\ v.asked = u.asked
  BY <1>1, SendSame
<1> HIDE DEF v
<1>4. \A k2, d2 : e = Event(k2, d2, Own) => k = k2 /\ d = d2
  BY EventFacts
<1>5. e \in Letters
  OBVIOUS
<1> HIDE DEF e
<1>6. ASSUME NEW c \in Call PROVE CallOk(v, c) /\ HeldOk(v, c)
  <2>1. CallOk(u, c) /\ HeldOk(u, c)
    BY DEF Consistent
  <2>2. /\ e # Event("delegate", c, Own)
        /\ e = Event("terminate", c, Own) => u.proxy[c] \in {"cancelling", "done"}
        /\ e \in {Event("delegateAck", c, Own), Event("terminateAck", c, Own)} => u.status[c] = "gone"
    BY <1>4
  <2>3. CallOk(v, c)
    BY <1>1, <1>2, <1>3, <1>5, <2>1, <2>2, SendKeepsCall
  <2> QED
    BY <1>3, <2>1, <2>3 DEF HeldOk
<1>7. ASSUME NEW i \in Inner PROVE InnerOk(v, i) /\ Wound(v, i) /\ AskOk(v, i)
  <2>1. InnerOk(u, i) /\ Wound(u, i) /\ AskOk(u, i)
    BY DEF Consistent
  <2>2. /\ e # Event("delegate", i, Own)
        /\ e = Event("terminate", i, Own) => u.edge[i] \in {"cancelling", "retired"}
        /\ e \in {Event("delegateAck", i, Own), Event("terminateAck", i, Own)} => u.callee[i] = "done"
    BY <1>4
  <2>3. InnerOk(v, i)
    BY <1>1, <1>2, <1>3, <1>5, <2>1, <2>2, SendKeepsInner
  <2>4. Wound(v, i)
    BY <1>3, <2>1 DEF Wound
  <2>5. \A y : Has(u.mail, y) => Has(v.mail, y)
    BY <1>1, <1>2, <1>5, MailSend
  <2>6. AskOk(v, i)
    BY <1>3, <2>1, <2>5, KeepAsk
  <2> QED
    BY <2>3, <2>4, <2>6
<1> QED
  BY <1>2, <1>6, <1>7 DEF Consistent, v
-----------------------------------------------------------------------------
(* A cancellation.                                                         *)

Cancelled(u, c) ==
  [u EXCEPT !.settled[c] = (u.status[c] = "awaitingAnswer"),
            !.held[c] = "nothing", !.status[c] = "cancelling"]

LEMMA CancelFacts ==
  ASSUME NEW u, IsWarm(u), NEW c \in Call
  PROVE  LET v == Cancelled(u, c)
         IN /\ IsWarm(v) /\ DOMAIN v = DOMAIN u
            /\ v.status = [u.status EXCEPT ![c] = "cancelling"]
            /\ v.held = [u.held EXCEPT ![c] = "nothing"]
            /\ v.relays = u.relays /\ v.edge = u.edge /\ v.raised = u.raised
            /\ v.proxy = u.proxy /\ v.callee = u.callee /\ v.asked = u.asked
            /\ v.staged = u.staged /\ v.mail = u.mail /\ v.bridge = u.bridge
<1> DEFINE v == Cancelled(u, c)
<1>1. /\ DOMAIN v = DOMAIN u /\ v = [f \in DOMAIN v |-> v[f]]
      /\ v.status = [u.status EXCEPT ![c] = "cancelling"]
      /\ v.held = [u.held EXCEPT ![c] = "nothing"]
      /\ v.settled = [u.settled EXCEPT ![c] = (u.status[c] = "awaitingAnswer")]
  BY DEF Cancelled, IsWarm, Fields
<1>2. /\ v.relays = u.relays /\ v.edge = u.edge /\ v.raised = u.raised
      /\ v.proxy = u.proxy /\ v.callee = u.callee /\ v.asked = u.asked
      /\ v.staged = u.staged /\ v.mail = u.mail /\ v.bridge = u.bridge
  BY DEF Cancelled, IsWarm, Fields
<1> HIDE DEF v
<1>3. /\ v.status \in [Call -> Statuses] /\ v.settled \in [Call -> BOOLEAN]
      /\ v.held \in [Call -> Outcomes \cup {"nothing"}]
  BY <1>1 DEF IsWarm, Statuses
<1>4. IsWarm(v)
  BY <1>1, <1>2, <1>3 DEF IsWarm
<1> QED
  BY <1>1, <1>2, <1>4 DEF v

LEMMA CancelWinds ==
  ASSUME NEW u, Consistent(u), NEW c \in Call,
         u.status[c] \in {"running", "awaitingAnswer"}
  PROVE  Winding(Cancelled(u, c), c)
<1> DEFINE v == Cancelled(u, c)
<1>1. IsWarm(u)
  BY DEF Consistent
<1>2. /\ IsWarm(v) /\ v.status = [u.status EXCEPT ![c] = "cancelling"]
      /\ v.held = [u.held EXCEPT ![c] = "nothing"]
      /\ v.relays = u.relays /\ v.edge = u.edge /\ v.proxy = u.proxy
      /\ v.callee = u.callee /\ v.asked = u.asked /\ v.mail = u.mail
  BY <1>1, CancelFacts
<1> HIDE DEF v
<1>3. u.status \in [Call -> Statuses] /\ u.held \in [Call -> Outcomes \cup {"nothing"}]
  BY <1>1 DEF IsWarm
<1>4. /\ v.status[c] = "cancelling" /\ v.held[c] = "nothing"
      /\ \A d \in Call : d # c => v.status[d] = u.status[d] /\ v.held[d] = u.held[d]
  BY <1>2, <1>3
<1>5. CallOk(v, c)
  <2>1. CallOk(u, c)
    BY DEF Consistent
  <2>2. Acked(v.mail, c) <=> Acked(u.mail, c)
    BY <1>2
  <2> QED
    BY <1>2, <1>4, <2>1, <2>2 DEF CallOk
<1>6. \A d \in Call : d # c => CallOk(v, d) /\ HeldOk(v, d)
  <2>1. \A d \in Call : d # c => CallOk(u, d) /\ HeldOk(u, d)
    BY DEF Consistent
  <2>2. \A d \in Call : d # c => /\ v.status[d] = u.status[d] /\ v.proxy[d] = u.proxy[d]
                                  /\ v.held[d] = u.held[d] /\ Calm(u.mail, v.mail, d)
    BY <1>2, <1>4, CalmSelf
  <2> QED
    BY <2>1, <2>2, OtherCalls
<1>7. ASSUME NEW i \in Inner PROVE InnerOk(v, i) /\ AskOk(v, i) /\ (ParentOf[i] # c => Wound(v, i))
  <2>1. InnerOk(u, i) /\ AskOk(u, i) /\ Wound(u, i) /\ ParentOf[i] \in Call
    BY SomeLetters DEF Consistent
  <2>2. InnerOk(v, i)
    BY <1>2, <2>1, KeepInner, CalmSelf
  <2>3. AskOk(v, i)
    BY <1>2, <2>1, KeepAsk
  <2>4. ParentOf[i] # c => Wound(v, i)
    BY <1>2, <1>4, <2>1 DEF Wound
  <2> QED
    BY <2>2, <2>3, <2>4
<1> QED
  BY <1>2, <1>4, <1>5, <1>6, <1>7 DEF Winding, v

LEMMA TerminateMailKeeps ==
  ASSUME NEW w, Consistent(w), w.mail # << >>, NEW c \in Call,
         Head(w.mail) = Event("terminate", c, Own)
  PROVE  Consistent(OnTerminate(Rest(w), c))
<1> DEFINE u == Rest(w)
           t == Event("terminate", c, Own)
           v == Cancelled(u, c)
<1>1. /\ IsWarm(w) /\ IsWarm(u)
      /\ \A e : Has(w.mail, e) <=> e = t \/ Has(u.mail, e)
      /\ \A e, f : Precedes(w.mail, e, f) <=> (e = t /\ Has(u.mail, f)) \/ Precedes(u.mail, e, f)
  BY TakeFacts
<1>2. u.status = w.status /\ u.proxy = w.proxy
  BY <1>1, RestSame
<1>3. Consistent(u)
  BY RestFree, EventFacts
<1>4. OnTerminate(u, c) = CASE ~Live(u, c) -> Send(u, "terminateAck", c, Own)
                            [] u.status[c] = "cancelling" -> u
                            [] OTHER -> MaybeSettle(TerminateChildren(v, c), c)
  BY DEF OnTerminate, Cancelled
<1>5. CASE ~Live(u, c)
  <2>1. u.status[c] \in {"none", "gone"}
    BY <1>1, <1>5 DEF Live, IsWarm, Statuses
  <2>2. CallOk(w, c)
    BY DEF Consistent
  <2>3. u.status[c] = "gone"
    <3> SUFFICES ASSUME u.status[c] = "none" PROVE FALSE
      BY <2>1
    <3>1. Has(w.mail, t) /\ Has(w.mail, Event("delegate", c, Own))
      BY <1>1, <1>2, <2>2 DEF CallOk
    <3>2. t # Event("delegate", c, Own)
      BY EventFacts
    <3>3. Precedes(w.mail, t, Event("delegate", c, Own))
      BY <1>1, <3>1, <3>2
    <3> QED
      BY <2>2, <3>3 DEF CallOk, DelegateFirst
  <2>4. OnTerminate(u, c) = Send(u, "terminateAck", c, Own)
    BY <1>4, <1>5 DEF Live
  <2>5. Event("terminateAck", c, Own) \in Letters /\ c \notin Inner
    BY SomeLetters, OwnFacts DEF EventKind
  <2> HIDE DEF u
  <2>6. Consistent(Send(u, "terminateAck", c, Own))
    BY <1>3, <2>3, <2>5, SendKeeps
  <2> QED
    BY <2>4, <2>6 DEF u
<1>6. CASE Live(u, c) /\ u.status[c] = "cancelling"
  BY <1>3, <1>4, <1>6
<1>7. CASE Live(u, c) /\ u.status[c] # "cancelling"
  <2>1. OnTerminate(u, c) = MaybeSettle(TerminateChildren(v, c), c)
    BY <1>4, <1>7
  <2>2. u.status[c] \in {"running", "awaitingAnswer"}
    BY <1>7 DEF Live
  <2>3. Winding(v, c)
    BY <1>3, <2>2, CancelWinds
  <2> HIDE DEF v
  <2>4. Consistent(MaybeSettle(TerminateChildren(v, c), c))
    BY <2>3, TerminateKeeps, SettleKeeps
  <2> QED
    BY <2>1, <2>4
<1> QED
  BY <1>5, <1>6, <1>7
-----------------------------------------------------------------------------
(* An answer, an ask.                                                      *)

\* The asks that wait for a letter of the call c.
LEMMA AskLetterOf ==
  ASSUME NEW c \in Call, NEW x, NEW k \in {"escalate", "escalateAck"}, NEW i \in Inner,
         Event(k, c, x) \in AskLetters(i)
  PROVE  x = i /\ c = ParentOf[i]
BY EventFacts, OwnFacts DEF AskLetters

LEMMA RelaysFacts ==
  ASSUME NEW u, IsWarm(u), NEW R, R \subseteq Call \X Inner
  PROVE  LET v == [u EXCEPT !.relays = R]
         IN /\ IsWarm(v) /\ DOMAIN v = DOMAIN u /\ v.relays = R
            /\ v.status = u.status /\ v.held = u.held /\ v.edge = u.edge /\ v.proxy = u.proxy
            /\ v.callee = u.callee /\ v.asked = u.asked /\ v.mail = u.mail
            /\ v.settled = u.settled /\ v.raised = u.raised /\ v.bridge = u.bridge
            /\ v.staged = u.staged
<1> DEFINE v == [u EXCEPT !.relays = R]
<1>1. /\ DOMAIN v = DOMAIN u /\ v = [f \in DOMAIN v |-> v[f]] /\ v.relays = R
      /\ v.status = u.status /\ v.held = u.held /\ v.edge = u.edge /\ v.proxy = u.proxy
      /\ v.callee = u.callee /\ v.asked = u.asked
  BY DEF IsWarm, Fields
<1>2. /\ v.mail = u.mail /\ v.settled = u.settled /\ v.raised = u.raised
      /\ v.bridge = u.bridge /\ v.staged = u.staged
  BY DEF IsWarm, Fields
<1> HIDE DEF v
<1>3. IsWarm(v)
  BY <1>1, <1>2 DEF IsWarm
<1> QED
  BY <1>1, <1>2, <1>3 DEF v

LEMMA AnswerMailKeeps ==
  ASSUME NEW w, Consistent(w), w.mail # << >>, NEW c \in Call, NEW x,
         Head(w.mail) = Event("escalateAck", c, x), Event("escalateAck", c, x) \in Letters
  PROVE  Consistent(OnEscalateAck(Rest(w), c, x))
<1> DEFINE u == Rest(w)
           t == Event("escalateAck", c, x)
           A == {i \in Inner : t \in AskLetters(i)}
<1>1. /\ IsWarm(w) /\ IsWarm(u) /\ IsMail(u.mail)
      /\ \A e : Has(w.mail, e) <=> e = t \/ Has(u.mail, e)
  BY TakeFacts
<1>2. /\ u.status = w.status /\ u.held = w.held /\ u.edge = w.edge /\ u.proxy = w.proxy
      /\ u.callee = w.callee /\ u.asked = w.asked /\ u.relays = w.relays
  BY <1>1, RestSame
<1>3. \A i \in A : x = i /\ c = ParentOf[i] /\ i \in Inner
  BY AskLetterOf
<1>4. ConsistentBut(u, {}, {}, A)
  <2>1. {d \in Call : Head(w.mail) = Event("delegate", d, Own)} = {}
    BY EventFacts
  <2>2. {i \in Inner : Head(w.mail) = Event("delegate", i, Own)} = {}
    BY EventFacts
  <2> QED
    BY <2>1, <2>2, RestConsistent
<1>5. x \in Inner => c = ParentOf[x]
  <2>1. t.x = x /\ t.d = c /\ t.k = "escalateAck"
    BY EventFacts
  <2> QED
    BY <2>1, LetterFacts, OwnFacts
<1>6. u.status \in [Call -> Statuses] /\ u.edge \in [Inner -> Edges] /\ u.relays \subseteq Call \X Inner
  BY <1>1 DEF IsWarm
<1>7. \A i \in Inner : Wound(u, i)
  BY <1>4 DEF ConsistentBut
<1> HIDE DEF u, A
\* Whoever waits for the letter is served, or waits no longer.
<1>8. ASSUME \A i \in A : AskOk(u, i) PROVE Consistent(u)
  BY <1>4, <1>8 DEF ConsistentBut, Consistent
<1>9. CASE ~Live(u, c)
  <2>1. OnEscalateAck(u, c, x) = u
    BY <1>9 DEF OnEscalateAck, Live
  <2>2. u.status[c] \in {"none", "gone"}
    BY <1>6, <1>9 DEF Live, Statuses
  <2>3. \A i \in A : AskOk(u, i)
    BY <1>3, <1>7, <2>2 DEF AskOk, Wound
  <2> QED
    BY <1>8, <2>1, <2>3 DEF u
<1>10. CASE Live(u, c) /\ <<c, x>> \in u.relays
  <2> DEFINE R == u.relays \ {<<c, x>>}
             v == [u EXCEPT !.relays = R]
  <2>1. x \in Inner /\ c = ParentOf[x]
    BY <1>5, <1>6, <1>10
  <2>2. OnEscalateAck(u, c, x) = IF x \in Inner /\ u.edge[x] \in {"running", "cancelling"}
                                 THEN Send(v, "escalateAck", x, Own) ELSE v
    BY <1>10 DEF OnEscalateAck, Live
  <2>3. R \subseteq Call \X Inner
    BY <1>6
  <2>4. \A i \in Inner : i # x => (<<ParentOf[i], i>> \in R <=> <<ParentOf[i], i>> \in u.relays)
    OBVIOUS
  <2> HIDE DEF R
  <2>5. /\ IsWarm(v) /\ v.relays = R
        /\ v.status = u.status /\ v.held = u.held /\ v.edge = u.edge /\ v.proxy = u.proxy
        /\ v.callee = u.callee /\ v.asked = u.asked /\ v.mail = u.mail
    BY <1>1, <2>3, RelaysFacts
  <2> HIDE DEF v
  <2>6. \A d \in Call : CallOk(v, d) /\ HeldOk(v, d)
    BY <1>4, <2>5, KeepCall, CalmSelf DEF ConsistentBut, HeldOk
  <2>7. \A i \in Inner : InnerOk(v, i) /\ Wound(v, i)
    BY <1>4, <2>5, KeepInner, CalmSelf DEF ConsistentBut, Wound
  <2>8. ASSUME NEW i \in Inner, i # x PROVE AskOk(v, i)
    <3>1. AskOk(u, i)
      BY <1>3, <1>4, <2>8 DEF ConsistentBut
    <3> QED
      BY <2>5, <2>8, <2>4, <3>1, KeepAsk
  <2>9. CASE u.edge[x] \in {"running", "cancelling"}
    <3> DEFINE s == Send(v, "escalateAck", x, Own)
               e == Event("escalateAck", x, Own)
    <3>1. e \in Letters /\ e.d = x
      BY <2>1, SomeLetters, EventFacts DEF EventKind
    <3>2. /\ IsWarm(s) /\ s.mail = Append(v.mail, e)
          /\ s.status = v.status /\ s.held = v.held /\ s.edge = v.edge /\ s.proxy = v.proxy
          /\ s.callee = v.callee /\ s.asked = v.asked /\ s.relays = v.relays
      <4>1. IsWarm(s) /\ s.mail = Append(v.mail, e)
        <5>1. IsWarm(v) /\ Event("escalateAck", x, Own) \in Letters
          BY <2>5, <3>1
        <5> QED
          BY <5>1, SendFacts
      <4>2. /\ s.status = v.status /\ s.held = v.held /\ s.edge = v.edge /\ s.proxy = v.proxy
            /\ s.callee = v.callee /\ s.asked = v.asked /\ s.relays = v.relays
        BY <2>5, <3>1, SendSame
      <4> QED
        BY <4>1, <4>2
    <3> HIDE DEF s
    <3>3. IsMail(v.mail)
      BY <2>5 DEF IsWarm
    <3>4. \A y : Has(s.mail, y) <=> Has(v.mail, y) \/ y = e
      BY <3>1, <3>2, <3>3, MailSend
    <3>5. \A d : d # x => Calm(v.mail, s.mail, d)
      BY <3>1, <3>2, <3>3, CalmSend
    <3>6. \A d \in Call : CallOk(s, d) /\ HeldOk(s, d)
      <4>1. \A d \in Call : d # x
        BY <2>1, OwnFacts
      <4> QED
        BY <2>6, <3>2, <3>5, <4>1, KeepCall DEF HeldOk
    <3>7. \A i \in Inner : InnerOk(s, i)
      <4>1. \A k \in {"delegate", "terminate", "delegateAck", "terminateAck"} : \A i \in Inner :
              e # Event(k, i, Own)
        BY EventFacts
      <4> HIDE DEF e
      <4> QED
        BY <2>7, <3>1, <3>2, <3>3, <4>1, SendKeepsInner
    <3>8. \A i \in Inner : Wound(s, i)
      BY <2>7, <3>2 DEF Wound
    <3>9. ASSUME NEW i \in Inner, i # x PROVE AskOk(s, i)
      BY <2>8, <3>2, <3>4, <3>9, KeepAsk
    <3>10. AskOk(s, x)
      BY <3>4 DEF AskOk, AskMoves
    <3>11. Consistent(s)
      BY <3>2, <3>6, <3>7, <3>8, <3>9, <3>10 DEF Consistent
    <3> QED
      BY <2>1, <2>2, <2>9, <3>11 DEF s, u
  <2>10. CASE u.edge[x] \notin {"running", "cancelling"}
    <3>1. AskOk(v, x)
      BY <2>5, <2>10 DEF AskOk
    <3>2. Consistent(v)
      BY <2>5, <2>6, <2>7, <2>8, <3>1 DEF Consistent
    <3> QED
      BY <2>2, <2>10, <3>2 DEF u
  <2> QED
    BY <2>9, <2>10
<1>11. CASE Live(u, c) /\ <<c, x>> \notin u.relays /\ u.status[c] = "awaitingAnswer"
  <2>1. OnEscalateAck(u, c, x) = Drop(Send(u, "delegateAck", c, Own), c)
    BY <1>11 DEF OnEscalateAck
  <2>2. ~Draining(u, c)
    BY <1>7, <1>11 DEF Draining, Children, Wound
  <2>3. \A i \in A : ParentOf[i] = c
    BY <1>3
  <2>4. Consistent(Drop(Send(u, "delegateAck", c, Own), c))
    BY <1>4, <1>11, <2>2, <2>3, AnswerKeeps
  <2> QED
    BY <2>1, <2>4 DEF u
<1>12. CASE Live(u, c) /\ <<c, x>> \notin u.relays /\ u.status[c] # "awaitingAnswer"
  <2>1. OnEscalateAck(u, c, x) = u
    BY <1>12 DEF OnEscalateAck
  <2>2. ASSUME NEW i \in A PROVE AskOk(u, i)
    <3>1. x = i /\ c = ParentOf[i] /\ i \in Inner /\ AskOk(w, i)
      BY <1>3 DEF Consistent
    <3>2. i # Own
      BY <3>1, OwnFacts
    <3>3. t # Event("escalate", i, Own) /\ t # Event("escalateAck", i, Own)
      BY <3>1, <3>2, EventFacts
    <3> HIDE DEF t
    <3> QED
      BY <1>1, <1>2, <1>12, <3>1, <3>3 DEF AskOk, AskMoves
  <2> QED
    BY <1>8, <2>1, <2>2 DEF u
<1> QED
  BY <1>9, <1>10, <1>11, <1>12 DEF u

LEMMA AskMailKeeps ==
  ASSUME NEW w, Consistent(w), w.mail # << >>, NEW i \in Inner,
         Head(w.mail) = Event("escalate", i, Own)
  PROVE  Consistent(OnEscalate(Rest(w), i))
<1> DEFINE u == Rest(w)
           c == ParentOf[i]
           t == Event("escalate", i, Own)
           s == Send(u, "escalate", c, i)
           R == s.relays \cup {<<c, i>>}
           v == [s EXCEPT !.relays = R]
           e == Event("escalate", c, i)
<1>1. IsWarm(w) /\ IsWarm(u) /\ IsMail(u.mail)
  BY TakeFacts
<1>2. c \in Call /\ e \in Letters /\ e.d = c
  BY SomeLetters, EventFacts
<1>3. ConsistentBut(u, {}, {}, {i})
  <2>1. {d \in Call : Head(w.mail) = Event("delegate", d, Own)} = {}
    BY EventFacts
  <2>2. {j \in Inner : Head(w.mail) = Event("delegate", j, Own)} = {}
    BY EventFacts
  <2>3. \A j \in Inner : t \in AskLetters(j) => j = i
    BY EventFacts, OwnFacts DEF AskLetters
  <2>4. {j \in Inner : Head(w.mail) \in AskLetters(j)} = {i}
    BY <2>3, EventFacts DEF AskLetters
  <2> QED
    BY <2>1, <2>2, <2>4, RestConsistent
<1>4. OnEscalate(u, i) = IF u.edge[i] \in {"running", "cancelling"} /\ Relays(u, c) THEN v ELSE u
  BY DEF OnEscalate
<1> HIDE DEF u
<1>5. CASE u.edge[i] \in {"running", "cancelling"} /\ Relays(u, c)
  <2>1. IsWarm(s) /\ s.mail = Append(u.mail, e)
    BY <1>1, <1>2, SendFacts
  <2>2. /\ s.status = u.status /\ s.held = u.held /\ s.edge = u.edge /\ s.proxy = u.proxy
        /\ s.callee = u.callee /\ s.asked = u.asked /\ s.relays = u.relays
    BY <1>1, <1>2, SendSame
  <2> HIDE DEF s, e
  <2>3. R \subseteq Call \X Inner
    BY <1>2, <2>1 DEF IsWarm
  <2>4. <<c, i>> \in R /\ u.relays \subseteq R
    BY <2>2
  <2> HIDE DEF R
  <2>5. /\ IsWarm(v) /\ v.relays = R /\ v.status = s.status /\ v.held = s.held
        /\ v.edge = s.edge /\ v.proxy = s.proxy /\ v.callee = s.callee /\ v.asked = s.asked
        /\ v.mail = s.mail
    <3>1. IsWarm(s)
      BY <2>1
    <3> QED
      BY <2>3, <3>1, RelaysFacts
  <2> HIDE DEF v
  <2>6. \A y : Has(v.mail, y) <=> Has(u.mail, y) \/ y = e
    BY <1>1, <1>2, <2>1, <2>5, MailSend
  <2>7. \A k \in {"delegate", "terminate", "delegateAck", "terminateAck"} : \A d :
          e # Event(k, d, Own)
    BY EventFacts DEF e
  <2>8. v.mail = Append(u.mail, e)
    BY <2>1, <2>5
  <2>9. \A d \in Call : CallOk(v, d) /\ HeldOk(v, d)
    <3> SUFFICES ASSUME NEW d \in Call PROVE CallOk(v, d) /\ HeldOk(v, d)
      OBVIOUS
    <3>1. CallOk(u, d) /\ HeldOk(u, d)
      BY <1>3 DEF ConsistentBut
    <3>2. CallOk(v, d)
      BY <1>1, <1>2, <2>2, <2>5, <2>7, <2>8, <3>1, SendKeepsCall
    <3> QED
      BY <2>2, <2>5, <3>1, <3>2 DEF HeldOk
  <2>10. \A j \in Inner : InnerOk(v, j) /\ Wound(v, j)
    <3> SUFFICES ASSUME NEW j \in Inner PROVE InnerOk(v, j) /\ Wound(v, j)
      OBVIOUS
    <3>1. InnerOk(u, j) /\ Wound(u, j)
      BY <1>3 DEF ConsistentBut
    <3>2. InnerOk(v, j)
      BY <1>1, <1>2, <2>2, <2>5, <2>7, <2>8, <3>1, SendKeepsInner
    <3> QED
      BY <2>2, <2>5, <3>1, <3>2 DEF Wound
  <2>11. ASSUME NEW j \in Inner, j # i PROVE AskOk(v, j)
    <3>1. AskOk(u, j)
      BY <1>3, <2>11 DEF ConsistentBut
    <3> QED
      BY <2>2, <2>4, <2>5, <2>6, <3>1, KeepAsk
  <2>12. AskOk(v, i)
    BY <2>4, <2>5, <2>6 DEF AskOk, AskMoves, e
  <2>13. Consistent(v)
    BY <2>5, <2>9, <2>10, <2>11, <2>12 DEF Consistent
  <2> QED
    BY <1>4, <1>5, <2>13 DEF u
<1>6. CASE ~(u.edge[i] \in {"running", "cancelling"} /\ Relays(u, c))
  <2>1. Wound(u, i)
    BY <1>3 DEF ConsistentBut
  <2>2. u.status[c] \in Statuses
    BY <1>1, <1>2 DEF IsWarm
  <2>3. u.edge[i] # "running"
    BY <1>6, <2>1, <2>2 DEF Relays, Wound, Statuses
  <2>4. AskOk(u, i)
    BY <2>3 DEF AskOk
  <2>5. Consistent(u)
    BY <1>3, <2>4 DEF ConsistentBut, Consistent
  <2> QED
    BY <1>4, <1>6, <2>5 DEF u
<1> QED
  BY <1>5, <1>6
-----------------------------------------------------------------------------
(* The answer of a child.                                                  *)

\* The row of a child whose instance is done is retired, whatever else.
LEMMA RetireKeeps ==
  ASSUME NEW u, Consistent(u), NEW i \in Inner, u.callee[i] = "done",
         NEW v, IsWarm(v), v.edge = [u.edge EXCEPT ![i] = "retired"],
         v.status = u.status, v.held = u.held, v.relays = u.relays, v.proxy = u.proxy,
         v.callee = u.callee, v.asked = u.asked, v.mail = u.mail
  PROVE  Consistent(v)
<1>1. IsWarm(u) /\ u.edge \in [Inner -> Edges]
  BY DEF Consistent, IsWarm
<1>2. v.edge[i] = "retired" /\ \A j \in Inner : j # i => v.edge[j] = u.edge[j]
  BY <1>1
<1>3. \A d \in Call : CallOk(v, d) /\ HeldOk(v, d)
  BY KeepCall, CalmSelf DEF Consistent, HeldOk
<1>4. InnerOk(u, i) /\ Wound(u, i)
  BY DEF Consistent
<1>5. InnerOk(v, i)
  <2>1. Acked(v.mail, i) <=> Acked(u.mail, i)
    OBVIOUS
  <2> QED
    BY <1>2, <1>4, <2>1 DEF InnerOk
<1>6. Wound(v, i)
  BY <1>2, <1>4 DEF InnerOk, Wound
<1>7. AskOk(v, i)
  BY DEF AskOk
<1>8. ASSUME NEW j \in Inner, j # i PROVE InnerOk(v, j) /\ Wound(v, j) /\ AskOk(v, j)
  <2>1. InnerOk(u, j) /\ Wound(u, j) /\ AskOk(u, j) /\ v.edge[j] = u.edge[j]
    BY <1>2, <1>8 DEF Consistent
  <2>2. InnerOk(v, j)
    BY <2>1, KeepInner, CalmSelf
  <2>3. AskOk(v, j)
    BY <2>1, KeepAsk
  <2> QED
    BY <2>1, <2>2, <2>3 DEF Wound
<1> QED
  BY <1>3, <1>5, <1>6, <1>7, <1>8 DEF Consistent

Retired(u, i, B, q) == [u EXCEPT !.edge[i] = "retired", !.bridge = B, !.staged = q]

LEMMA EdgeFacts ==
  ASSUME NEW u, IsWarm(u), NEW i \in Inner, NEW B, NEW q
  PROVE  LET v == Retired(u, i, B, q)
         IN /\ IsWarm(v) /\ v.edge = [u.edge EXCEPT ![i] = "retired"]
            /\ v.status = u.status /\ v.held = u.held /\ v.relays = u.relays /\ v.proxy = u.proxy
            /\ v.callee = u.callee /\ v.asked = u.asked /\ v.mail = u.mail
            /\ v.settled = u.settled /\ v.raised = u.raised /\ DOMAIN v = DOMAIN u
            /\ v.bridge = B /\ v.staged = q
<1> DEFINE v == Retired(u, i, B, q)
<1>1. /\ DOMAIN v = DOMAIN u /\ v = [f \in DOMAIN v |-> v[f]]
      /\ v.edge = [u.edge EXCEPT ![i] = "retired"] /\ v.bridge = B /\ v.staged = q
      /\ v.status = u.status /\ v.held = u.held /\ v.relays = u.relays
  BY DEF Retired, IsWarm, Fields
<1>2. /\ v.callee = u.callee /\ v.asked = u.asked /\ v.mail = u.mail /\ v.proxy = u.proxy
      /\ v.settled = u.settled /\ v.raised = u.raised
  BY DEF Retired, IsWarm, Fields
<1> HIDE DEF v
<1>3. v.edge \in [Inner -> Edges]
  BY <1>1 DEF IsWarm, Edges
<1>4. IsWarm(v)
  BY <1>1, <1>2, <1>3 DEF IsWarm
<1> QED
  BY <1>1, <1>2, <1>4 DEF v

LEMMA ChildAckKeeps ==
  ASSUME NEW w, Consistent(w), w.mail # << >>, NEW i \in Inner, NEW o,
         Head(w.mail) \in {Event("delegateAck", i, Own), Event("terminateAck", i, Own)}
  PROVE  Consistent(OnChildAck(Rest(w), i, o))
<1> DEFINE u == Rest(w)
           c == ParentOf[i]
           bridge == {b \in u.bridge : b[1] = i}
           B == u.bridge \ bridge
           q == u.staged \o SetToSeq({[call |-> c, token |-> b[2], outcome |-> o, inner |-> i] : b \in bridge})
           v == Retired(u, i, B, q)
           r == [u EXCEPT !.edge[i] = "retired"]
<1>1. /\ IsWarm(w) /\ IsWarm(u)
      /\ \A e : Has(w.mail, e) <=> e = Head(w.mail) \/ Has(u.mail, e)
  BY TakeFacts
<1>2. c \in Call
  BY SomeLetters
<1>3. Consistent(u)
  <2>1. Head(w.mail).k \in {"delegateAck", "terminateAck"}
    BY EventFacts
  <2> QED
    BY <2>1, RestFree
<1>4. u.callee[i] = "done"
  <2>1. InnerOk(w, i)
    BY DEF Consistent
  <2>2. Acked(w.mail, i)
    BY <1>1 DEF Acked
  <2>3. u.callee = w.callee
    BY <1>1, RestSame
  <2> QED
    BY <2>1, <2>2, <2>3 DEF InnerOk
<1>5. OnChildAck(u, i, o) = IF u.edge[i] \in {"running", "cancelling"} /\ Live(u, c)
                            THEN MaybeSettle(v, c) ELSE r
  BY DEF OnChildAck, Retired
<1> HIDE DEF u, B, q
<1>6. Consistent(v)
  <2>1. /\ IsWarm(v) /\ v.edge = [u.edge EXCEPT ![i] = "retired"]
        /\ v.status = u.status /\ v.held = u.held /\ v.relays = u.relays /\ v.proxy = u.proxy
        /\ v.callee = u.callee /\ v.asked = u.asked /\ v.mail = u.mail
    <3>1. IsWarm(u)
      BY <1>1
    <3> QED
      BY <3>1, EdgeFacts
  <2> HIDE DEF v
  <2> QED
    BY <1>3, <1>4, <2>1, RetireKeeps
<1>7. Consistent(r)
  <2> DEFINE z == Retired(u, i, u.bridge, u.staged)
  <2>1. r = z
    BY <1>1 DEF IsWarm, Fields, Retired
  <2>2. /\ IsWarm(z) /\ z.edge = [u.edge EXCEPT ![i] = "retired"]
        /\ z.status = u.status /\ z.held = u.held /\ z.relays = u.relays /\ z.proxy = u.proxy
        /\ z.callee = u.callee /\ z.asked = u.asked /\ z.mail = u.mail
    <3>1. IsWarm(u)
      BY <1>1
    <3> QED
      BY <3>1, EdgeFacts
  <2> HIDE DEF z, r
  <2>3. Consistent(z)
    BY <1>3, <1>4, <2>2, RetireKeeps
  <2> QED
    BY <2>1, <2>3
<1>8. Consistent(MaybeSettle(v, c))
  BY <1>2, <1>6, ConsistentNearly, SettleKeeps
<1> HIDE DEF v, r
<1> QED
  BY <1>5, <1>7, <1>8 DEF u
-----------------------------------------------------------------------------
(* What core does with a letter.                                           *)

AskNames == {<<c, Own>> : c \in Call} \cup {<<ParentOf[i], i>> : i \in Inner}

Peered(u, callee, proxy, asked) ==
  [u EXCEPT !.callee = callee, !.proxy = proxy, !.asked = asked]

LEMMA PeeredFacts ==
  ASSUME NEW u, IsWarm(u), NEW callee \in [Inner -> Callees], NEW proxy \in [Call -> Proxies],
         NEW asked, asked \subseteq AskNames
  PROVE  LET v == Peered(u, callee, proxy, asked)
         IN /\ IsWarm(v) /\ v.callee = callee /\ v.proxy = proxy /\ v.asked = asked
            /\ v.status = u.status /\ v.held = u.held /\ v.relays = u.relays /\ v.edge = u.edge
            /\ v.mail = u.mail /\ v.settled = u.settled /\ v.raised = u.raised
            /\ v.bridge = u.bridge /\ v.staged = u.staged /\ DOMAIN v = DOMAIN u
<1> DEFINE v == Peered(u, callee, proxy, asked)
<1>1. /\ DOMAIN v = DOMAIN u /\ v = [f \in DOMAIN v |-> v[f]]
      /\ v.callee = callee /\ v.proxy = proxy /\ v.asked = asked
      /\ v.status = u.status /\ v.held = u.held /\ v.relays = u.relays /\ v.edge = u.edge
  BY DEF Peered, IsWarm, Fields
<1>2. /\ v.mail = u.mail /\ v.settled = u.settled /\ v.raised = u.raised
      /\ v.bridge = u.bridge /\ v.staged = u.staged
  BY DEF Peered, IsWarm, Fields
<1> HIDE DEF v
<1>3. IsWarm(v)
  BY <1>1, <1>2 DEF IsWarm, AskNames
<1> QED
  BY <1>1, <1>2, <1>3 DEF v

\* What is true of the actors of core, and of the asks they have.
LEMMA PeersOf ==
  ASSUME NEW u, IsWarm(u)
  PROVE  /\ u.callee \in [Inner -> Callees] /\ u.proxy \in [Call -> Proxies]
         /\ u.asked \subseteq AskNames /\ IsMail(u.mail)
BY DEF IsWarm, AskNames

LEMMA InstanceStarts ==
  ASSUME NEW w, Consistent(w), w.mail # << >>, NEW i \in Inner,
         Head(w.mail) = Event("delegate", i, Own)
  PROVE  Consistent([Rest(w) EXCEPT !.callee[i] = "running"])
<1> DEFINE u == Rest(w)
           t == Event("delegate", i, Own)
           callee == [u.callee EXCEPT ![i] = "running"]
           v == Peered(u, callee, u.proxy, u.asked)
           r == [u EXCEPT !.callee[i] = "running"]
<1>1. /\ IsWarm(w) /\ IsWarm(u)
      /\ \A e : Has(w.mail, e) <=> e = t \/ Has(u.mail, e)
      /\ \A e, f : Precedes(w.mail, e, f) <=> (e = t /\ Has(u.mail, f)) \/ Precedes(u.mail, e, f)
  BY TakeFacts
<1>2. u.edge = w.edge /\ u.callee = w.callee
  BY <1>1, RestSame
<1>3. ConsistentBut(u, {}, {i}, {})
  <2>1. {d \in Call : Head(w.mail) = Event("delegate", d, Own)} = {}
    BY EventFacts, OwnFacts
  <2>2. {j \in Inner : Head(w.mail) = Event("delegate", j, Own)} = {i}
    BY EventFacts
  <2>3. {j \in Inner : Head(w.mail) \in AskLetters(j)} = {}
    BY EventFacts DEF AskLetters
  <2> QED
    BY <2>1, <2>2, <2>3, RestConsistent
<1> HIDE DEF u
<1>4. r = v
  BY <1>1 DEF Peered, IsWarm, Fields
<1>5. callee \in [Inner -> Callees]
  BY <1>1, PeersOf DEF Callees
<1>6. callee[i] = "running" /\ \A j \in Inner : j # i => callee[j] = u.callee[j]
  BY <1>1, PeersOf
<1> HIDE DEF callee
<1>7. /\ IsWarm(v) /\ v.callee = callee /\ v.proxy = u.proxy /\ v.asked = u.asked
      /\ v.status = u.status /\ v.held = u.held /\ v.relays = u.relays /\ v.edge = u.edge
      /\ v.mail = u.mail
  BY <1>1, <1>5, PeeredFacts, PeersOf
<1> HIDE DEF v
<1>8. \A d \in Call : CallOk(v, d) /\ HeldOk(v, d)
  BY <1>3, <1>7, KeepCall, CalmSelf DEF ConsistentBut, HeldOk
<1>9. \A j \in Inner : Wound(v, j)
  BY <1>3, <1>7 DEF ConsistentBut, Wound
<1>10. InnerOk(v, i)
  <2>1. InnerOk(w, i) /\ w.callee[i] = "none"
    BY <1>1 DEF Consistent, InnerOk
  <2>2. ~Has(u.mail, t)
    BY <1>1, <2>1 DEF InnerOk, DelegateFirst
  <2>3. DelegateFirst(v.mail, i)
    BY <1>1, <1>7, <2>1 DEF InnerOk, DelegateFirst
  <2>4. ~Acked(v.mail, i) /\ v.edge[i] # "retired" /\ v.edge[i] # "none"
    BY <1>1, <1>2, <1>7, <2>1 DEF InnerOk, Acked
  <2>5. Has(v.mail, Event("terminate", i, Own)) => v.edge[i] \in {"cancelling", "retired"}
    BY <1>1, <1>2, <1>7, <2>1 DEF InnerOk
  <2> QED
    BY <1>6, <1>7, <2>2, <2>3, <2>4, <2>5 DEF InnerOk
<1>11. ASSUME NEW j \in Inner PROVE (j # i => InnerOk(v, j)) /\ AskOk(v, j)
  <2>1. (j # i => InnerOk(u, j)) /\ AskOk(u, j)
    BY <1>3 DEF ConsistentBut
  <2>2. j # i => InnerOk(v, j)
    BY <1>6, <1>7, <2>1, KeepInner, CalmSelf
  <2>3. AskOk(v, j)
    BY <1>6, <1>7, <2>1, KeepAsk
  <2> QED
    BY <2>2, <2>3
<1>12. Consistent(v)
  BY <1>7, <1>8, <1>9, <1>10, <1>11 DEF Consistent
<1> QED
  BY <1>4, <1>12 DEF u

\* An instance that is there goes on to another state, done if it was.
LEMMA InstanceMoves ==
  ASSUME NEW u, NEW A, ConsistentBut(u, {}, {}, A), NEW i \in Inner, A \subseteq {i},
         NEW s \in Callees, s # "none", u.edge[i] # "none",
         ~Has(u.mail, Event("delegate", i, Own)), u.callee[i] = "done" => s = "done",
         NEW v, v = [u EXCEPT !.callee[i] = s], s = "asking" => AskMoves(v, i)
  PROVE  Consistent(v)
<1> DEFINE callee == [u.callee EXCEPT ![i] = s]
           z == Peered(u, callee, u.proxy, u.asked)
<1>1. IsWarm(u)
  BY DEF ConsistentBut
<1>2. v = z
  BY <1>1 DEF Peered, IsWarm, Fields
<1>3. callee \in [Inner -> Callees]
  BY <1>1, PeersOf
<1>4. callee[i] = s /\ \A j \in Inner : j # i => callee[j] = u.callee[j]
  BY <1>1, PeersOf
<1> HIDE DEF callee
<1>5. /\ IsWarm(v) /\ v.callee = callee /\ v.proxy = u.proxy /\ v.asked = u.asked
      /\ v.status = u.status /\ v.held = u.held /\ v.relays = u.relays /\ v.edge = u.edge
      /\ v.mail = u.mail
  <2>1. /\ IsWarm(z) /\ z.callee = callee /\ z.proxy = u.proxy /\ z.asked = u.asked
        /\ z.status = u.status /\ z.held = u.held /\ z.relays = u.relays /\ z.edge = u.edge
        /\ z.mail = u.mail
    BY <1>1, <1>3, PeeredFacts, PeersOf
  <2> HIDE DEF z
  <2> QED
    BY <1>2, <2>1
<1> HIDE DEF z
<1>6. \A d \in Call : CallOk(v, d) /\ HeldOk(v, d)
  BY <1>5, KeepCall, CalmSelf DEF ConsistentBut, HeldOk
<1>7. \A j \in Inner : Wound(v, j)
  BY <1>5 DEF ConsistentBut, Wound
<1>8. InnerOk(v, i) /\ AskOk(v, i)
  <2>1. InnerOk(u, i)
    BY DEF ConsistentBut
  <2> QED
    BY <1>4, <1>5, <2>1 DEF InnerOk, AskOk
<1>9. ASSUME NEW j \in Inner, j # i PROVE InnerOk(v, j) /\ AskOk(v, j)
  <2>1. InnerOk(u, j) /\ AskOk(u, j)
    BY <1>9 DEF ConsistentBut
  <2>2. InnerOk(v, j)
    <3>1. v.edge[j] = u.edge[j] /\ v.callee[j] = u.callee[j] /\ Calm(u.mail, v.mail, j)
      BY <1>4, <1>5, <1>9, CalmSelf
    <3> QED
      BY <2>1, <3>1, KeepInner
  <2>3. AskOk(v, j)
    BY <1>4, <1>5, <1>9, <2>1 DEF AskOk, AskMoves
  <2> QED
    BY <2>2, <2>3
<1> QED
  BY <1>5, <1>6, <1>7, <1>8, <1>9 DEF Consistent

\* The threads of core go on, and the asks they have change.
LEMMA ThreadsMove ==
  ASSUME NEW u, NEW A, ConsistentBut(u, {}, {}, A),
         NEW proxy \in [Call -> Proxies], NEW asked, asked \subseteq AskNames,
         \A d \in Call : \/ proxy[d] = u.proxy[d]
                         \/ proxy[d] = "cancelling" /\ u.proxy[d] = "calling"
                         \/ proxy[d] = "done" /\ u.status[d] = "gone",
         NEW v, v = Peered(u, u.callee, proxy, asked), \A i \in Inner : AskOk(v, i)
  PROVE  Consistent(v)
<1> DEFINE z == Peered(u, u.callee, proxy, asked)
<1>1. IsWarm(u)
  BY DEF ConsistentBut
<1>2. /\ IsWarm(v) /\ v.callee = u.callee /\ v.proxy = proxy
      /\ v.status = u.status /\ v.held = u.held /\ v.edge = u.edge /\ v.mail = u.mail
  <2>1. /\ IsWarm(z) /\ z.callee = u.callee /\ z.proxy = proxy
        /\ z.status = u.status /\ z.held = u.held /\ z.edge = u.edge /\ z.mail = u.mail
    BY <1>1, PeeredFacts, PeersOf
  <2> HIDE DEF z
  <2>2. v = z
    BY DEF z
  <2> QED
    BY <2>1, <2>2
<1>3. ASSUME NEW d \in Call PROVE CallOk(v, d) /\ HeldOk(v, d)
  <2>1. CallOk(u, d) /\ HeldOk(u, d)
    BY DEF ConsistentBut
  <2>2. Acked(v.mail, d) <=> Acked(u.mail, d)
    BY <1>2
  <2>3. CASE proxy[d] = u.proxy[d]
    BY <1>2, <2>1, <2>2, <2>3 DEF CallOk, HeldOk
  <2>4. CASE proxy[d] = "cancelling" /\ u.proxy[d] = "calling"
    BY <1>2, <2>1, <2>2, <2>4 DEF CallOk, HeldOk
  <2>5. CASE proxy[d] = "done" /\ u.status[d] = "gone"
    BY <1>2, <2>1, <2>2, <2>5 DEF CallOk, HeldOk
  <2> QED
    BY <2>3, <2>4, <2>5
<1>4. ASSUME NEW i \in Inner PROVE InnerOk(v, i) /\ Wound(v, i)
  BY <1>2, KeepInner, CalmSelf DEF ConsistentBut, Wound
<1> QED
  BY <1>2, <1>3, <1>4 DEF Consistent

LEMMA ThreadReturns ==
  ASSUME NEW w, Consistent(w), w.mail # << >>, NEW c \in Call,
         Head(w.mail) \in {Event("delegateAck", c, Own), Event("terminateAck", c, Own)}
  PROVE  Consistent([Rest(w) EXCEPT !.proxy[c] = "done"])
<1> DEFINE u == Rest(w)
           proxy == [u.proxy EXCEPT ![c] = "done"]
           v == Peered(u, u.callee, proxy, u.asked)
           r == [u EXCEPT !.proxy[c] = "done"]
<1>1. /\ IsWarm(w) /\ IsWarm(u)
      /\ \A e : Has(w.mail, e) <=> e = Head(w.mail) \/ Has(u.mail, e)
  BY TakeFacts
<1>2. Consistent(u)
  <2>1. Head(w.mail).k \in {"delegateAck", "terminateAck"}
    BY EventFacts
  <2> QED
    BY <2>1, RestFree
<1>3. u.status[c] = "gone"
  <2>1. CallOk(w, c)
    BY DEF Consistent
  <2>2. Acked(w.mail, c)
    BY <1>1 DEF Acked
  <2>3. u.status = w.status
    BY <1>1, RestSame
  <2> QED
    BY <2>1, <2>2, <2>3 DEF CallOk
<1> HIDE DEF u
<1>4. r = v
  BY <1>1 DEF Peered, IsWarm, Fields
<1>5. proxy \in [Call -> Proxies] /\ proxy[c] = "done" /\ \A d \in Call : d # c => proxy[d] = u.proxy[d]
  BY <1>1, PeersOf DEF Proxies
<1> HIDE DEF proxy
<1>6. /\ v.callee = u.callee /\ v.proxy = proxy /\ v.asked = u.asked /\ v.mail = u.mail
      /\ v.relays = u.relays /\ v.edge = u.edge
  BY <1>1, <1>5, PeeredFacts, PeersOf
<1>7. ASSUME NEW i \in Inner PROVE AskOk(v, i)
  <2>1. AskOk(u, i) /\ Wound(u, i) /\ ParentOf[i] \in Call
    BY <1>2, SomeLetters DEF Consistent
  <2>2. CASE ParentOf[i] = c
    BY <1>3, <1>6, <2>1, <2>2 DEF AskOk, Wound
  <2>3. CASE ParentOf[i] # c
    BY <1>5, <1>6, <2>1, <2>3 DEF AskOk, AskMoves
  <2> QED
    BY <2>2, <2>3
<1>8. ConsistentBut(u, {}, {}, {}) /\ u.asked \subseteq AskNames
  BY <1>1, <1>2, ButNothing, PeersOf
<1>9. \A d \in Call : proxy[d] = u.proxy[d] \/ (proxy[d] = "done" /\ u.status[d] = "gone")
  BY <1>3, <1>5
<1> DEFINE V == v
<1>10. V = v
  OBVIOUS
<1> HIDE DEF V
<1>11. Consistent(V)
  BY <1>5, <1>7, <1>8, <1>9, <1>10, ThreadsMove
<1> QED
  BY <1>4, <1>10, <1>11 DEF u

LEMMA ThreadAsked ==
  ASSUME NEW w, Consistent(w), w.mail # << >>, NEW c \in Call, NEW x,
         Head(w.mail) = Event("escalate", c, x), Event("escalate", c, x) \in Letters
  PROVE  Consistent([Rest(w) EXCEPT !.asked =
                       IF Rest(w).proxy[c] = "calling" THEN @ \cup {<<c, x>>} ELSE @])
<1> DEFINE u == Rest(w)
           t == Event("escalate", c, x)
           asked == IF u.proxy[c] = "calling" THEN u.asked \cup {<<c, x>>} ELSE u.asked
           v == Peered(u, u.callee, u.proxy, asked)
           r == [u EXCEPT !.asked = IF u.proxy[c] = "calling" THEN @ \cup {<<c, x>>} ELSE @]
           A == {i \in Inner : t \in AskLetters(i)}
<1>1. /\ IsWarm(w) /\ IsWarm(u)
      /\ \A e : Has(w.mail, e) <=> e = t \/ Has(u.mail, e)
  BY TakeFacts
<1>2. /\ u.status = w.status /\ u.edge = w.edge /\ u.proxy = w.proxy
      /\ u.callee = w.callee /\ u.asked = w.asked /\ u.relays = w.relays
  BY <1>1, RestSame
<1>3. ConsistentBut(u, {}, {}, A)
  <2>1. {d \in Call : Head(w.mail) = Event("delegate", d, Own)} = {}
    BY EventFacts
  <2>2. {i \in Inner : Head(w.mail) = Event("delegate", i, Own)} = {}
    BY EventFacts
  <2> QED
    BY <2>1, <2>2, RestConsistent
<1>4. x = Own \/ (x \in Inner /\ c = ParentOf[x])
  <2>1. t.x = x /\ t.d = c
    BY EventFacts
  <2> QED
    BY <2>1, LetterFacts
<1> HIDE DEF u
<1>5. r = v
  BY <1>1 DEF Peered, IsWarm, Fields
<1>6. asked \subseteq AskNames
  BY <1>1, <1>4, PeersOf DEF AskNames
<1>7. u.asked \subseteq asked /\ (u.proxy[c] = "calling" => <<c, x>> \in asked)
  OBVIOUS
<1> HIDE DEF asked
<1>8. /\ v.callee = u.callee /\ v.proxy = u.proxy /\ v.asked = asked /\ v.mail = u.mail
      /\ v.relays = u.relays /\ v.edge = u.edge
  BY <1>1, <1>6, PeeredFacts, PeersOf
<1>9. u.proxy \in [Call -> Proxies]
  BY <1>1, PeersOf
<1> DEFINE V == v
<1>10. V = v
  OBVIOUS
<1> HIDE DEF V
<1>11. ASSUME NEW i \in Inner PROVE AskOk(V, i)
  <2>1. AskOk(w, i) /\ Wound(u, i) /\ CallOk(w, c) /\ CallOk(u, c)
    BY <1>3 DEF Consistent, ConsistentBut
  <2>2. CASE i \in A
    <3>1. x = i /\ c = ParentOf[i]
      BY <2>2, AskLetterOf
    <3>2. t # Event("escalate", i, Own) /\ t # Event("escalateAck", i, Own)
          /\ t # Event("escalateAck", c, i)
      BY <3>1, OwnFacts, EventFacts
    <3>3. \A e : e # t /\ Has(w.mail, e) => Has(V.mail, e)
      BY <1>1, <1>8, <1>10
    <3> HIDE DEF t
    <3>4. CASE u.proxy[c] \in {"calling", "cancelling"}
      BY <1>2, <1>7, <1>8, <1>10, <2>1, <3>1, <3>2, <3>3, <3>4 DEF AskOk, AskMoves
    <3>5. CASE u.proxy[c] \in {"idle", "done"}
      <4>1. u.status[c] \in {"none", "gone"}
        BY <2>1, <3>5 DEF CallOk
      <4> QED
        BY <1>8, <1>10, <2>1, <3>1, <4>1 DEF AskOk, Wound
    <3> QED
      BY <1>9, <3>4, <3>5 DEF Proxies
  <2>3. CASE i \notin A
    <3>1. AskOk(u, i)
      BY <1>3, <2>3 DEF ConsistentBut
    <3> QED
      BY <1>7, <1>8, <1>10, <3>1 DEF AskOk, AskMoves
  <2> QED
    BY <2>2, <2>3
<1>12. Consistent(V)
  BY <1>3, <1>6, <1>9, <1>10, <1>11, ThreadsMove
<1> QED
  BY <1>5, <1>10, <1>12 DEF u

LEMMA InstanceStops ==
  ASSUME NEW w, Consistent(w), w.mail # << >>, NEW i \in Inner,
         Head(w.mail) = Event("terminate", i, Own)
  PROVE  Consistent(Send([Rest(w) EXCEPT !.callee[i] = "done"], "terminateAck", i, Own))
<1> DEFINE u == Rest(w)
           t == Event("terminate", i, Own)
           v == [u EXCEPT !.callee[i] = "done"]
<1>1. /\ IsWarm(w) /\ IsWarm(u)
      /\ \A e : Has(w.mail, e) <=> e = t \/ Has(u.mail, e)
      /\ \A e, f : Precedes(w.mail, e, f) <=> (e = t /\ Has(u.mail, f)) \/ Precedes(u.mail, e, f)
  BY TakeFacts
<1>2. Consistent(u) /\ ConsistentBut(u, {}, {}, {})
  BY RestFree, EventFacts, ButNothing
<1>3. u.edge[i] # "none" /\ ~Has(u.mail, Event("delegate", i, Own))
  <2>1. InnerOk(w, i) /\ u.edge = w.edge
    BY <1>1, RestSame DEF Consistent
  <2> QED
    BY <1>1, <2>1 DEF InnerOk, DelegateFirst
<1> HIDE DEF u
<1>4. "done" \in Callees /\ {} \subseteq {i}
  BY DEF Callees
<1>5. Consistent(v)
  BY <1>2, <1>3, <1>4, InstanceMoves
<1>6. v.callee[i] = "done"
  BY <1>1 DEF IsWarm, Fields
<1>7. Event("terminateAck", i, Own) \in Letters /\ i \notin Call
  BY SomeLetters, OwnFacts DEF EventKind
<1> HIDE DEF v
<1>8. Consistent(Send(v, "terminateAck", i, Own))
  BY <1>5, <1>6, <1>7, SendKeeps
<1> QED
  BY <1>8 DEF v, u

LEMMA InstanceAnswered ==
  ASSUME NEW w, Consistent(w), w.mail # << >>, NEW i \in Inner,
         Head(w.mail) = Event("escalateAck", i, Own)
  PROVE  Consistent(CoreReact(Rest(w), Head(w.mail)))
<1> DEFINE u == Rest(w)
           t == Event("escalateAck", i, Own)
           v == [u EXCEPT !.callee[i] = "answered"]
           r == [u EXCEPT !.callee[i] = IF @ = "asking" THEN "answered" ELSE @]
<1>1. /\ IsWarm(w) /\ IsWarm(u)
      /\ \A e : Has(w.mail, e) <=> e = t \/ Has(u.mail, e)
  BY TakeFacts
<1>2. ConsistentBut(u, {}, {}, {i})
  <2>1. {d \in Call : Head(w.mail) = Event("delegate", d, Own)} = {}
    BY EventFacts
  <2>2. {j \in Inner : Head(w.mail) = Event("delegate", j, Own)} = {}
    BY EventFacts
  <2>3. \A j \in Inner : t \in AskLetters(j) => j = i
    BY EventFacts, OwnFacts DEF AskLetters
  <2>4. {j \in Inner : Head(w.mail) \in AskLetters(j)} = {i}
    BY <2>3, EventFacts DEF AskLetters
  <2> QED
    BY <2>1, <2>2, <2>4, RestConsistent
<1>3. CoreReact(u, Head(w.mail)) = r
  <2>1. Head(w.mail).k = "escalateAck" /\ Head(w.mail).d = i
    BY EventFacts
  <2> QED
    BY <2>1 DEF CoreReact
<1> HIDE DEF u
<1>4. u.callee \in [Inner -> Callees]
  BY <1>1, PeersOf
<1>5. CASE u.callee[i] = "asking"
  <2>1. r = v
    BY <1>5
  <2>2. u.edge[i] # "none" /\ ~Has(u.mail, Event("delegate", i, Own))
    BY <1>2, <1>5 DEF ConsistentBut, InnerOk
  <2>3. "answered" \in Callees /\ "answered" \notin {"none", "asking"} /\ {i} \subseteq {i}
    BY DEF Callees
  <2>4. Consistent(v)
    BY <1>2, <1>5, <2>2, <2>3, InstanceMoves
  <2> QED
    BY <1>3, <2>1, <2>4 DEF u
<1>6. CASE u.callee[i] # "asking"
  <2>1. r = u
    <3>1. [u.callee EXCEPT ![i] = u.callee[i]] = u.callee
      BY <1>4
    <3>2. r = [u EXCEPT !.callee = [u.callee EXCEPT ![i] = u.callee[i]]]
      BY <1>6
    <3>3. r = [u EXCEPT !.callee = u.callee]
      BY <3>1, <3>2
    <3> HIDE DEF r
    <3> QED
      BY <1>1, <3>3 DEF IsWarm, Fields
  <2>2. AskOk(u, i)
    BY <1>6 DEF AskOk
  <2>3. Consistent(u)
    BY <1>2, <2>2 DEF ConsistentBut, Consistent
  <2> QED
    BY <1>3, <2>1, <2>3 DEF u
<1> QED
  BY <1>5, <1>6 DEF u

\* Whoever the letter is for, what it does leaves the state consistent.
LEMMA LettersKeep ==
  ASSUME NEW w, Consistent(w), w.mail # << >>, IsEvent(Head(w.mail))
  PROVE  LET t == Head(w.mail)
         IN IF ToReactor(t) THEN Consistent(ReactorReact(Rest(w), t))
                            ELSE Consistent(CoreReact(Rest(w), t))
<1> DEFINE t == Head(w.mail)
           u == Rest(w)
<1>1. t \in Letters
  BY TakeFacts, MailTake
<1>2. /\ t = Event(t.k, t.d, t.x)
      /\ \/ t.d \in Call \cup Inner /\ t.x = Own
         \/ t.x \in Inner /\ t.d = ParentOf[t.x] /\ t.d \in Call /\ t.k \in {"escalate", "escalateAck"}
      /\ t.k \in {"delegate", "delegateAck", "terminate", "terminateAck", "escalate", "escalateAck"}
  BY <1>1, LetterFacts DEF EventKind
<1>3. \A i \in Inner : i \notin Call
  BY OwnFacts
<1> HIDE DEF t
<1>4. t = Head(w.mail)
  BY DEF t
<1>5. CASE t.d \in Call
  <2>1. ToReactor(t) <=> t.k \in {"delegate", "terminate", "escalateAck"}
    BY <1>5 DEF ToReactor
  <2>2. CASE t.k = "delegate"
    <3>1. ReactorReact(u, t) = OnDelegate(u, t.d)
      BY <2>2 DEF ReactorReact
    <3>2. Head(w.mail) = Event("delegate", t.d, Own)
      BY <1>2, <1>4, <2>2
    <3> QED
      BY <1>4, <1>5, <2>1, <2>2, <3>1, <3>2, DelegateKeeps
  <2>3. CASE t.k = "terminate"
    <3>1. ReactorReact(u, t) = OnTerminate(u, t.d)
      BY <2>3 DEF ReactorReact
    <3>2. Head(w.mail) = Event("terminate", t.d, Own)
      BY <1>2, <1>4, <2>3
    <3> QED
      BY <1>4, <1>5, <2>1, <2>3, <3>1, <3>2, TerminateMailKeeps
  <2>4. CASE t.k = "escalateAck"
    <3>1. ReactorReact(u, t) = OnEscalateAck(u, t.d, t.x)
      BY <2>4 DEF ReactorReact
    <3>2. Head(w.mail) = Event("escalateAck", t.d, t.x) /\ Event("escalateAck", t.d, t.x) \in Letters
      BY <1>1, <1>2, <1>4, <2>4
    <3> QED
      BY <1>4, <1>5, <2>1, <2>4, <3>1, <3>2, AnswerMailKeeps
  <2>5. CASE t.k \in {"delegateAck", "terminateAck"}
    <3>1. CoreReact(u, t) = [u EXCEPT !.proxy[t.d] = "done"]
      BY <2>5 DEF CoreReact
    <3>2. Head(w.mail) \in {Event("delegateAck", t.d, Own), Event("terminateAck", t.d, Own)}
      BY <1>2, <1>4, <2>5
    <3>3. Consistent(CoreReact(u, t))
      BY <1>5, <3>1, <3>2, ThreadReturns
    <3> QED
      BY <1>4, <2>1, <2>5, <3>3
  <2>6. CASE t.k = "escalate"
    <3>1. CoreReact(u, t) = [u EXCEPT !.asked = IF u.proxy[t.d] = "calling"
                                                THEN @ \cup {<<t.d, t.x>>} ELSE @]
      BY <2>6 DEF CoreReact
    <3>2. Head(w.mail) = Event("escalate", t.d, t.x) /\ Event("escalate", t.d, t.x) \in Letters
      BY <1>1, <1>2, <1>4, <2>6
    <3>3. Consistent(CoreReact(u, t))
      BY <1>5, <3>1, <3>2, ThreadAsked
    <3> QED
      BY <1>4, <2>1, <2>6, <3>3
  <2> QED
    BY <1>2, <2>2, <2>3, <2>4, <2>5, <2>6
<1>6. CASE t.d \in Inner
  <2>1. ToReactor(t) <=> t.k \notin {"delegate", "terminate", "escalateAck"}
    BY <1>3, <1>6 DEF ToReactor
  <2>2. t.x = Own
    BY <1>2, <1>3, <1>6
  <2>3. CASE t.k = "delegate"
    <3>1. CoreReact(u, t) = [u EXCEPT !.callee[t.d] = "running"]
      BY <2>3 DEF CoreReact
    <3>2. Head(w.mail) = Event("delegate", t.d, Own)
      BY <1>2, <1>4, <2>3, <2>2
    <3>3. Consistent(CoreReact(u, t))
      BY <1>6, <3>1, <3>2, InstanceStarts
    <3> QED
      BY <1>4, <2>1, <2>3, <3>3
  <2>4. CASE t.k = "terminate"
    <3>1. CoreReact(u, t) = Send([u EXCEPT !.callee[t.d] = "done"], "terminateAck", t.d, Own)
      BY <2>4 DEF CoreReact
    <3>2. Head(w.mail) = Event("terminate", t.d, Own)
      BY <1>2, <1>4, <2>4, <2>2
    <3>3. Consistent(CoreReact(u, t))
      BY <1>6, <3>1, <3>2, InstanceStops
    <3> QED
      BY <1>4, <2>1, <2>4, <3>3
  <2>5. CASE t.k = "escalateAck"
    <3>1. Head(w.mail) = Event("escalateAck", t.d, Own)
      BY <1>2, <1>4, <2>5, <2>2
    <3>2. Consistent(CoreReact(u, t))
      BY <1>4, <1>6, <3>1, InstanceAnswered
    <3> QED
      BY <1>4, <2>1, <2>5, <3>2
  <2>6. CASE t.k \in {"delegateAck", "terminateAck"}
    <3>1. \E o : ReactorReact(u, t) = OnChildAck(u, t.d, o)
      BY <2>6 DEF ReactorReact
    <3>2. Head(w.mail) \in {Event("delegateAck", t.d, Own), Event("terminateAck", t.d, Own)}
      BY <1>2, <1>4, <2>6, <2>2
    <3>3. Consistent(ReactorReact(u, t))
      BY <1>6, <3>1, <3>2, ChildAckKeeps
    <3> QED
      BY <1>4, <2>1, <2>6, <3>3
  <2>7. CASE t.k = "escalate"
    <3>1. ReactorReact(u, t) = OnEscalate(u, t.d)
      BY <2>7 DEF ReactorReact
    <3>2. Head(w.mail) = Event("escalate", t.d, Own)
      BY <1>2, <1>4, <2>7, <2>2
    <3>3. Consistent(ReactorReact(u, t))
      BY <1>6, <3>1, <3>2, AskMailKeeps
    <3> QED
      BY <1>4, <2>1, <2>7, <3>3
  <2> QED
    BY <1>2, <2>3, <2>4, <2>5, <2>6, <2>7
<1> QED
  BY <1>2, <1>5, <1>6
-----------------------------------------------------------------------------
(* What the actors of core do of their own accord.                         *)

LEMMA ThreadCalls ==
  ASSUME NEW w, Consistent(w), NEW c \in Call, w.proxy[c] = "idle"
  PROVE  Consistent(Send([w EXCEPT !.proxy[c] = "calling"], "delegate", c, Own))
<1> DEFINE proxy == [w.proxy EXCEPT ![c] = "calling"]
           u == Peered(w, w.callee, proxy, w.asked)
           r == [w EXCEPT !.proxy[c] = "calling"]
           e == Event("delegate", c, Own)
           v == Send(u, "delegate", c, Own)
<1>1. IsWarm(w) /\ IsMail(w.mail)
  BY DEF Consistent, IsWarm
<1>2. r = u
  BY <1>1 DEF Peered, IsWarm, Fields
<1>3. /\ proxy \in [Call -> Proxies] /\ proxy[c] = "calling"
      /\ \A d \in Call : d # c => proxy[d] = w.proxy[d]
  BY <1>1, PeersOf DEF Proxies
<1> HIDE DEF proxy
<1>4. /\ IsWarm(u) /\ u.callee = w.callee /\ u.proxy = proxy /\ u.asked = w.asked
      /\ u.status = w.status /\ u.held = w.held /\ u.relays = w.relays /\ u.edge = w.edge
      /\ u.mail = w.mail
  BY <1>1, <1>3, PeeredFacts, PeersOf
<1> HIDE DEF u
<1>5. e \in Letters /\ e.d = c
  BY SomeLetters, EventFacts DEF EventKind
<1>6. IsWarm(v) /\ v.mail = Append(w.mail, e)
  BY <1>4, <1>5, SendFacts
<1>7. /\ v.callee = w.callee /\ v.proxy = proxy /\ v.asked = w.asked
      /\ v.status = w.status /\ v.held = w.held /\ v.relays = w.relays /\ v.edge = w.edge
  <2>1. IsWarm(u) /\ Event("delegate", c, Own) \in Letters
    BY <1>4, <1>5
  <2>2. /\ v.callee = u.callee /\ v.proxy = u.proxy /\ v.asked = u.asked
        /\ v.status = u.status /\ v.held = u.held /\ v.relays = u.relays /\ v.edge = u.edge
    BY <2>1, SendSame
  <2> QED
    BY <1>4, <2>2
<1> HIDE DEF v
<1>8. /\ \A y : Has(v.mail, y) <=> Has(w.mail, y) \/ y = e
      /\ \A y, z : Precedes(v.mail, y, z) <=> Precedes(w.mail, y, z) \/ (Has(w.mail, y) /\ z = e)
      /\ \A d : d # c => Calm(w.mail, v.mail, d)
  BY <1>1, <1>5, <1>6, MailSend, CalmSend
<1>9. CallOk(v, c)
  <2>1. CallOk(w, c) /\ w.status[c] = "none"
    BY DEF Consistent, CallOk
  <2>2. ~Has(w.mail, e) /\ ~Has(w.mail, Event("terminate", c, Own)) /\ ~Acked(w.mail, c)
    BY <2>1 DEF CallOk
  <2>3. \A k \in {"terminate", "delegateAck", "terminateAck"} : e # Event(k, c, Own)
    BY EventFacts
  <2> HIDE DEF e
  <2>4. DelegateFirst(v.mail, c)
    BY <1>8, <2>1, <2>2, <2>3 DEF CallOk, DelegateFirst, e
  <2>5. ~Acked(v.mail, c) /\ ~Has(v.mail, Event("terminate", c, Own)) /\ Has(v.mail, e)
    BY <1>8, <2>2, <2>3 DEF Acked
  <2> QED
    BY <1>3, <1>7, <2>1, <2>4, <2>5 DEF CallOk, e
<1> HIDE DEF e
<1>10. ASSUME NEW d \in Call, d # c PROVE CallOk(v, d)
  <2>1. CallOk(w, d) /\ v.status[d] = w.status[d] /\ v.proxy[d] = w.proxy[d]
    BY <1>3, <1>7, <1>10 DEF Consistent
  <2> QED
    BY <1>8, <1>10, <2>1, KeepCall
<1>11. \A d \in Call : HeldOk(v, d)
  BY <1>7 DEF Consistent, HeldOk
<1>12. ASSUME NEW i \in Inner PROVE InnerOk(v, i) /\ Wound(v, i) /\ AskOk(v, i)
  <2>1. InnerOk(w, i) /\ Wound(w, i) /\ AskOk(w, i) /\ i # c /\ ParentOf[i] \in Call
    BY OwnFacts, SomeLetters DEF Consistent
  <2>2. InnerOk(v, i)
    BY <1>7, <1>8, <2>1, KeepInner
  <2>3. AskOk(v, i)
    BY <1>3, <1>7, <1>8, <2>1 DEF AskOk, AskMoves
  <2> QED
    BY <1>7, <2>1, <2>2, <2>3 DEF Wound
<1>13. Consistent(v)
  BY <1>6, <1>9, <1>10, <1>11, <1>12 DEF Consistent
<1> QED
  BY <1>2, <1>13 DEF v

LEMMA ThreadCancels ==
  ASSUME NEW w, Consistent(w), NEW c \in Call, w.proxy[c] = "calling"
  PROVE  Consistent(Send([w EXCEPT !.proxy[c] = "cancelling", !.asked = {a \in @ : a[1] # c}],
                         "terminate", c, Own))
<1> DEFINE proxy == [w.proxy EXCEPT ![c] = "cancelling"]
           asked == {a \in w.asked : a[1] # c}
           u == Peered(w, w.callee, proxy, asked)
           r == [w EXCEPT !.proxy[c] = "cancelling", !.asked = {a \in @ : a[1] # c}]
<1>1. IsWarm(w) /\ IsMail(w.mail)
  BY DEF Consistent, IsWarm
<1>2. r = u
  <2>1. r = [w EXCEPT !.proxy[c] = "cancelling", !.asked = asked]
    OBVIOUS
  <2> HIDE DEF r, asked
  <2> QED
    BY <1>1, <2>1 DEF Peered, IsWarm, Fields
<1>3. /\ proxy \in [Call -> Proxies] /\ proxy[c] = "cancelling"
      /\ \A d \in Call : d # c => proxy[d] = w.proxy[d]
  BY <1>1, PeersOf DEF Proxies
<1>4. asked \subseteq AskNames /\ \A a \in w.asked : a[1] # c => a \in asked
  BY <1>1, PeersOf
<1> HIDE DEF proxy, asked, r
<1>5. /\ IsWarm(u) /\ u.callee = w.callee /\ u.proxy = proxy /\ u.asked = asked
      /\ u.status = w.status /\ u.held = w.held /\ u.relays = w.relays /\ u.edge = w.edge
      /\ u.mail = w.mail
  BY <1>1, <1>3, <1>4, PeeredFacts, PeersOf
<1>6. ConsistentBut(w, {}, {}, {})
  BY ButNothing
<1> DEFINE V == u
<1>7. V = u
  OBVIOUS
<1> HIDE DEF V
<1>8. ASSUME NEW i \in Inner PROVE AskOk(V, i)
  <2>1. AskOk(w, i) /\ ParentOf[i] \in Call
    BY SomeLetters DEF Consistent
  <2>2. CASE ParentOf[i] = c
    BY <1>3, <1>5, <1>7, <2>1, <2>2 DEF AskOk, AskMoves
  <2>3. CASE ParentOf[i] # c
    <3>1. <<ParentOf[i], i>>[1] # c
      BY <2>3
    <3>2. <<ParentOf[i], i>> \in w.asked => <<ParentOf[i], i>> \in asked
      BY <1>4, <3>1
    <3> QED
      BY <1>3, <1>5, <1>7, <2>1, <2>3, <3>2 DEF AskOk, AskMoves
  <2> QED
    BY <2>2, <2>3
<1>9. \A d \in Call : proxy[d] = w.proxy[d] \/ (proxy[d] = "cancelling" /\ w.proxy[d] = "calling")
  BY <1>3
<1>10. Consistent(V)
  BY <1>3, <1>4, <1>6, <1>7, <1>8, <1>9, ThreadsMove
<1>11. Event("terminate", c, Own) \in Letters /\ c \notin Inner
  BY SomeLetters, OwnFacts DEF EventKind
<1>12. V.proxy[c] = "cancelling"
  BY <1>3, <1>5, <1>7
<1>13. Consistent(Send(V, "terminate", c, Own))
  BY <1>10, <1>11, <1>12, SendKeeps
<1> QED
  BY <1>2, <1>7, <1>13 DEF r

LEMMA ThreadAnswers ==
  ASSUME NEW w, Consistent(w), NEW c \in Call, NEW x, <<c, x>> \in w.asked
  PROVE  Consistent(Send([w EXCEPT !.asked = @ \ {<<c, x>>}], "escalateAck", c, x))
<1> DEFINE asked == w.asked \ {<<c, x>>}
           e == Event("escalateAck", c, x)
           s == Send(w, "escalateAck", c, x)
           v == Peered(s, s.callee, s.proxy, asked)
           r == Send([w EXCEPT !.asked = @ \ {<<c, x>>}], "escalateAck", c, x)
<1>1. IsWarm(w) /\ IsMail(w.mail) /\ w.asked \subseteq AskNames
  BY PeersOf DEF Consistent
<1>2. x = Own \/ (x \in Inner /\ c = ParentOf[x])
  BY <1>1 DEF AskNames
<1>3. e \in Letters
  BY <1>2, SomeLetters DEF EventKind
<1>4. Consistent(s)
  BY <1>3, SendKeeps
<1>5. /\ IsWarm(s) /\ s.mail = Append(w.mail, e)
  BY <1>1, <1>3, SendFacts
<1>6. s.asked = w.asked /\ s.proxy = w.proxy /\ s.callee = w.callee /\ s.relays = w.relays
  BY <1>1, <1>3, SendSame
<1>7. r = v
  <2>1. s = [w EXCEPT !.mail = Append(@, e)] /\ r = [w EXCEPT !.asked = asked, !.mail = Append(@, e)]
    BY DEF Send
  <2>2. v = [s EXCEPT !.callee = w.callee, !.proxy = w.proxy, !.asked = asked]
    BY <1>6 DEF Peered
  <2> HIDE DEF s, v, r, asked, e
  <2> QED
    BY <1>1, <2>1, <2>2 DEF IsWarm, Fields
<1>8. asked \subseteq AskNames /\ \A a \in w.asked : a # <<c, x>> => a \in asked
  BY <1>1
<1> HIDE DEF asked, s, r
<1>9. v.callee = s.callee /\ v.proxy = s.proxy /\ v.asked = asked /\ v.mail = s.mail
      /\ v.relays = s.relays /\ v.edge = s.edge
  BY <1>5, <1>8, PeeredFacts, PeersOf
<1> DEFINE V == v
<1>10. V = v
  OBVIOUS
<1> HIDE DEF V
<1>11. Has(s.mail, e)
  BY <1>1, <1>3, <1>5, MailSend
<1>12. ASSUME NEW i \in Inner PROVE AskOk(V, i)
  <2>1. AskOk(s, i)
    BY <1>4 DEF Consistent
  <2>2. CASE <<ParentOf[i], i>> = <<c, x>>
    BY <1>6, <1>9, <1>10, <1>11, <2>1, <2>2 DEF AskOk, AskMoves
  <2>3. CASE <<ParentOf[i], i>> # <<c, x>>
    <3>1. <<ParentOf[i], i>> \in s.asked => <<ParentOf[i], i>> \in V.asked
      BY <1>6, <1>8, <1>9, <1>10, <2>3
    <3> QED
      BY <1>9, <1>10, <2>1, <3>1 DEF AskOk, AskMoves
  <2> QED
    BY <2>2, <2>3
<1>13. ConsistentBut(s, {}, {}, {}) /\ s.proxy \in [Call -> Proxies]
  BY <1>4, <1>5, ButNothing, PeersOf
<1>14. Consistent(V)
  BY <1>8, <1>10, <1>12, <1>13, ThreadsMove
<1> QED
  BY <1>7, <1>10, <1>14 DEF r

\* An instance that is there and has nobody to wait for returns.
LEMMA InstanceReturns ==
  ASSUME NEW w, Consistent(w), NEW i \in Inner, w.callee[i] \in {"running", "answered"}
  PROVE  Consistent(Send([w EXCEPT !.callee[i] = "done"], "delegateAck", i, Own))
<1> DEFINE v == [w EXCEPT !.callee[i] = "done"]
<1>1. InnerOk(w, i) /\ IsWarm(w)
  BY DEF Consistent
<1>2. w.edge[i] # "none" /\ ~Has(w.mail, Event("delegate", i, Own))
  BY <1>1 DEF InnerOk
<1>3. ConsistentBut(w, {}, {}, {}) /\ "done" \in Callees
  BY ButNothing DEF Callees
<1> DEFINE V == v
<1>4. V = [w EXCEPT !.callee[i] = "done"]
  OBVIOUS
<1>5. V.callee[i] = "done"
  BY <1>1, <1>4 DEF IsWarm, Fields
<1> HIDE DEF V
<1>6. Consistent(V)
  BY <1>2, <1>3, <1>4, InstanceMoves
<1>7. Event("delegateAck", i, Own) \in Letters /\ i \notin Call
  BY SomeLetters, OwnFacts DEF EventKind
<1>8. Consistent(Send(V, "delegateAck", i, Own))
  BY <1>5, <1>6, <1>7, SendKeeps
<1> QED
  BY <1>4, <1>8

\* An instance asks: its ask is on the way up.
LEMMA InstanceAsks ==
  ASSUME NEW w, Consistent(w), NEW i \in Inner, w.callee[i] = "running"
  PROVE  Consistent(Send([w EXCEPT !.callee[i] = "asking"], "escalate", i, Own))
<1> DEFINE e == Event("escalate", i, Own)
           s == Send(w, "escalate", i, Own)
           v == [s EXCEPT !.callee[i] = "asking"]
           r == Send([w EXCEPT !.callee[i] = "asking"], "escalate", i, Own)
<1>1. InnerOk(w, i) /\ IsWarm(w) /\ IsMail(w.mail)
  BY PeersOf DEF Consistent
<1>2. w.edge[i] # "none" /\ ~Has(w.mail, Event("delegate", i, Own))
  BY <1>1 DEF InnerOk
<1>3. e \in Letters
  BY SomeLetters DEF EventKind
<1>4. Consistent(s) /\ IsWarm(s)
  BY <1>1, <1>3, SendKeeps, SendFacts
<1>5. s.mail = Append(w.mail, e) /\ s.edge = w.edge /\ s.callee = w.callee
  BY <1>1, <1>3, SendFacts, SendSame
<1>6. r = v
  BY <1>1 DEF Send, IsWarm, Fields
<1> DEFINE V == v
<1>7. V = [s EXCEPT !.callee[i] = "asking"]
  OBVIOUS
<1> HIDE DEF V, s
<1>8. V.mail = s.mail
  BY <1>4, <1>7 DEF IsWarm, Fields
<1>9. Has(s.mail, e)
  BY <1>1, <1>3, <1>5, MailSend
<1>10. AskMoves(V, i)
  BY <1>8, <1>9 DEF AskMoves
<1>11. ~Has(s.mail, Event("delegate", i, Own)) /\ s.edge[i] # "none" /\ s.callee[i] # "done"
  <2>1. Event("delegate", i, Own) # e
    BY EventFacts
  <2> QED
    BY <1>1, <1>2, <1>3, <1>5, <2>1, MailSend
<1>12. ConsistentBut(s, {}, {}, {}) /\ "asking" \in Callees
  BY <1>4, ButNothing DEF Callees
<1>13. Consistent(V)
  BY <1>7, <1>10, <1>11, <1>12, InstanceMoves
<1> QED
  BY <1>6, <1>7, <1>13 DEF s

-----------------------------------------------------------------------------
(* A child is opened.                                                      *)

LEMMA OpenFacts ==
  ASSUME NEW u, IsWarm(u), NEW i \in Inner, NEW token
  PROVE  LET v == OpenInner(u, i, token)
         IN /\ IsWarm(v) /\ DOMAIN v = DOMAIN u
            /\ v.edge = [u.edge EXCEPT ![i] = "running"]
            /\ v.bridge = u.bridge \cup {<<i, token>>}
            /\ v.mail = Append(u.mail, Event("delegate", i, Own))
            /\ v.status = u.status /\ v.settled = u.settled /\ v.held = u.held
            /\ v.relays = u.relays /\ v.raised = u.raised /\ v.proxy = u.proxy
            /\ v.callee = u.callee /\ v.asked = u.asked /\ v.staged = u.staged
<1> DEFINE e == Event("delegate", i, Own)
           m == Append(u.mail, e)
           edge == [u.edge EXCEPT ![i] = "running"]
           bridge == u.bridge \cup {<<i, token>>}
           v == OpenInner(u, i, token)
<1>1. e \in Letters
  BY SomeLetters DEF EventKind
<1>2. IsMail(m)
  BY <1>1, MailSend DEF IsWarm
<1>3. edge \in [Inner -> Edges]
  BY DEF IsWarm, Edges
<1>4. v = [u EXCEPT !.mail = m, !.edge = edge, !.bridge = bridge]
  BY DEF OpenInner, Send, IsWarm, Fields
<1> HIDE DEF v, m, edge, bridge, e
<1>5. /\ v = [f \in DOMAIN v |-> v[f]] /\ DOMAIN v = DOMAIN u
      /\ v.edge = edge /\ v.bridge = bridge /\ v.mail = m
  BY <1>4 DEF IsWarm, Fields
<1>6. /\ v.status = u.status /\ v.settled = u.settled /\ v.held = u.held
      /\ v.relays = u.relays /\ v.raised = u.raised
  BY <1>4 DEF IsWarm, Fields
<1>7. /\ v.proxy = u.proxy /\ v.callee = u.callee /\ v.asked = u.asked /\ v.staged = u.staged
  BY <1>4 DEF IsWarm, Fields
<1>8. IsWarm(v)
  BY <1>2, <1>3, <1>5, <1>6, <1>7 DEF IsWarm
<1> QED
  BY <1>5, <1>6, <1>7, <1>8 DEF v, m, edge, bridge, e

LEMMA OpenKeeps ==
  ASSUME NEW u, Consistent(u), NEW i \in Inner, NEW token,
         u.edge[i] = "none", AcceptsWork(u, ParentOf[i])
  PROVE  Consistent(OpenInner(u, i, token))
<1> DEFINE e == Event("delegate", i, Own)
           v == OpenInner(u, i, token)
<1>1. IsWarm(u) /\ IsMail(u.mail)
  BY PeersOf DEF Consistent
<1>2. e \in Letters /\ e.d = i
  BY SomeLetters, EventFacts DEF EventKind
<1>3. /\ IsWarm(v) /\ v.edge = [u.edge EXCEPT ![i] = "running"] /\ v.mail = Append(u.mail, e)
      /\ v.status = u.status /\ v.held = u.held /\ v.relays = u.relays /\ v.proxy = u.proxy
      /\ v.callee = u.callee /\ v.asked = u.asked
  BY <1>1, OpenFacts
<1> HIDE DEF v
<1>4. v.edge[i] = "running" /\ \A j \in Inner : j # i => v.edge[j] = u.edge[j]
  BY <1>1, <1>3 DEF IsWarm
<1>5. /\ \A y : Has(v.mail, y) <=> Has(u.mail, y) \/ y = e
      /\ \A y, z : Precedes(v.mail, y, z) <=> Precedes(u.mail, y, z) \/ (Has(u.mail, y) /\ z = e)
      /\ \A d : d # i => Calm(u.mail, v.mail, d)
  BY <1>1, <1>2, <1>3, MailSend, CalmSend
<1>6. InnerOk(v, i)
  <2>1. InnerOk(u, i) /\ u.callee[i] = "none"
    BY DEF Consistent, InnerOk
  <2>2. ~Has(u.mail, e) /\ ~Has(u.mail, Event("terminate", i, Own)) /\ ~Acked(u.mail, i)
    BY <2>1 DEF InnerOk
  <2>3. \A k \in {"terminate", "delegateAck", "terminateAck"} : e # Event(k, i, Own)
    BY EventFacts
  <2> HIDE DEF e
  <2>4. DelegateFirst(v.mail, i)
    BY <1>5, <2>1, <2>2, <2>3 DEF InnerOk, DelegateFirst, e
  <2>5. ~Acked(v.mail, i) /\ ~Has(v.mail, Event("terminate", i, Own)) /\ Has(v.mail, e)
    BY <1>5, <2>2, <2>3 DEF Acked
  <2> QED
    BY <1>3, <1>4, <2>1, <2>4, <2>5 DEF InnerOk, e
<1> HIDE DEF e
<1>7. ASSUME NEW j \in Inner, j # i PROVE InnerOk(v, j)
  <2>1. InnerOk(u, j) /\ v.edge[j] = u.edge[j] /\ v.callee[j] = u.callee[j]
    BY <1>3, <1>4, <1>7 DEF Consistent
  <2> QED
    BY <1>5, <1>7, <2>1, KeepInner
<1>8. ASSUME NEW d \in Call PROVE CallOk(v, d) /\ HeldOk(v, d)
  <2>1. CallOk(u, d) /\ HeldOk(u, d) /\ d # i
    BY OwnFacts DEF Consistent
  <2>2. CallOk(v, d)
    BY <1>3, <1>5, <2>1, KeepCall
  <2> QED
    BY <1>3, <2>1, <2>2 DEF HeldOk
<1>9. ASSUME NEW j \in Inner PROVE Wound(v, j)
  <2>1. Wound(u, j)
    BY DEF Consistent
  <2> QED
    BY <1>3, <1>4, <2>1 DEF Wound, AcceptsWork
<1>10. ASSUME NEW j \in Inner PROVE AskOk(v, j)
  <2>1. AskOk(u, j) /\ (u.edge[i] = "none" => u.callee[i] = "none")
    BY DEF Consistent, InnerOk
  <2> QED
    BY <1>3, <1>4, <1>5, <2>1 DEF AskOk, AskMoves
<1>11. Consistent(v)
  BY <1>3, <1>6, <1>7, <1>8, <1>9, <1>10 DEF Consistent
<1> QED
  BY <1>11 DEF v

-----------------------------------------------------------------------------
(* What is committed, and what a load rebuilds.                            *)

\* The same letters in the same order, and less of what memory holds.
LEMMA SameLettersKeep ==
  ASSUME NEW u, Consistent(u), NEW v, IsWarm(v),
         v.status = u.status, v.edge = u.edge, v.relays = u.relays, v.proxy = u.proxy,
         v.asked = u.asked, v.callee = u.callee,
         \A c \in Call : v.held[c] \in {"nothing", u.held[c]},
         \A e : IsEvent(e) => (Has(v.mail, e) <=> Has(u.mail, e)),
         \A e, f : IsEvent(e) /\ IsEvent(f) => (Precedes(v.mail, e, f) <=> Precedes(u.mail, e, f))
  PROVE  Consistent(v)
<1>1. \A k \in EventKind : \A d, x : Has(v.mail, Event(k, d, x)) <=> Has(u.mail, Event(k, d, x))
  BY EventFacts
<1>2. \A k, l \in EventKind : \A d, f :
        Precedes(v.mail, Event(k, d, Own), Event(l, f, Own)) <=>
        Precedes(u.mail, Event(k, d, Own), Event(l, f, Own))
  BY EventFacts
<1>3. \A d : (Acked(v.mail, d) <=> Acked(u.mail, d)) /\ (DelegateFirst(v.mail, d) <=> DelegateFirst(u.mail, d))
  BY <1>1, <1>2 DEF Acked, DelegateFirst, EventKind
<1>4. ASSUME NEW c \in Call PROVE CallOk(v, c) /\ HeldOk(v, c)
  <2>1. CallOk(u, c) /\ HeldOk(u, c)
    BY DEF Consistent
  <2> QED
    BY <1>1, <1>3, <2>1 DEF CallOk, HeldOk, EventKind
<1>5. ASSUME NEW i \in Inner PROVE InnerOk(v, i) /\ Wound(v, i) /\ AskOk(v, i)
  <2>1. InnerOk(u, i) /\ Wound(u, i) /\ AskOk(u, i)
    BY DEF Consistent
  <2>2. InnerOk(v, i)
    BY <1>1, <1>3, <2>1 DEF InnerOk, EventKind
  <2>3. Wound(v, i)
    BY <2>1, ParentAssumption DEF Wound
  <2>4. AskOk(v, i)
    BY <1>1, <2>1 DEF AskOk, AskMoves, EventKind
  <2> QED
    BY <2>2, <2>3, <2>4
<1> QED
  BY <1>4, <1>5 DEF Consistent

LEMMA DurableFacts ==
  ASSUME NEW w, IsWarm(w)
  PROVE  LET v == Durable(w)
         IN /\ IsWarm(v) /\ DOMAIN v = DOMAIN w
            /\ v.held = [c \in Call |-> "nothing"] /\ v.settled = [c \in Call |-> FALSE]
            /\ v.staged = << >> /\ v.mail = EventsOf(w.mail)
            /\ v.status = w.status /\ v.relays = w.relays /\ v.edge = w.edge
            /\ v.bridge = w.bridge /\ v.raised = w.raised /\ v.proxy = w.proxy
            /\ v.asked = w.asked /\ v.callee = w.callee
<1> DEFINE held == [c \in Call |-> "nothing"]
           settled == [c \in Call |-> FALSE]
           m == EventsOf(w.mail)
           v == [w EXCEPT !.settled = settled, !.held = held, !.staged = << >>, !.mail = m]
<1>1. IsMail(m)
  BY EventsFacts DEF IsWarm
<1>2. held \in [Call -> Outcomes \cup {"nothing"}] /\ settled \in [Call -> BOOLEAN]
  OBVIOUS
<1>3. Durable(w) = v
  BY DEF Durable, IsWarm, Fields
<1> HIDE DEF held, settled, m
<1>4. /\ v = [f \in DOMAIN v |-> v[f]] /\ DOMAIN v = DOMAIN w
      /\ v.held = held /\ v.settled = settled /\ v.staged = << >> /\ v.mail = m
  BY DEF IsWarm, Fields
<1>5. v.status = w.status /\ v.relays = w.relays /\ v.edge = w.edge /\ v.bridge = w.bridge
  BY DEF IsWarm, Fields
<1>6. v.raised = w.raised /\ v.proxy = w.proxy /\ v.asked = w.asked /\ v.callee = w.callee
  BY DEF IsWarm, Fields
<1> HIDE DEF v
<1>7. IsWarm(v)
  BY <1>1, <1>2, <1>4, <1>5, <1>6 DEF IsWarm
<1> QED
  BY <1>3, <1>4, <1>5, <1>6, <1>7 DEF held, settled, m

\* A commit at any point between two turns writes a consistent state.
LEMMA DurableKeeps ==
  ASSUME NEW w, Consistent(w) PROVE Consistent(Durable(w))
<1> DEFINE v == Durable(w)
<1>1. IsWarm(w) /\ IsMail(w.mail)
  BY PeersOf DEF Consistent
<1>2. /\ IsWarm(v) /\ v.held = [c \in Call |-> "nothing"] /\ v.mail = EventsOf(w.mail)
      /\ v.status = w.status /\ v.relays = w.relays /\ v.edge = w.edge
      /\ v.proxy = w.proxy /\ v.asked = w.asked /\ v.callee = w.callee
  BY <1>1, DurableFacts
<1> HIDE DEF v
<1>3. /\ \A e : IsEvent(e) => (Has(v.mail, e) <=> Has(w.mail, e))
      /\ \A e, f : IsEvent(e) /\ IsEvent(f) => (Precedes(v.mail, e, f) <=> Precedes(w.mail, e, f))
  BY <1>1, <1>2, EventsFacts
<1>4. \A c \in Call : v.held[c] \in {"nothing", w.held[c]}
  BY <1>2
<1> DEFINE V == v
<1>5. Consistent(V)
  <2>1. /\ IsWarm(V) /\ V.status = w.status /\ V.edge = w.edge /\ V.relays = w.relays
        /\ V.proxy = w.proxy /\ V.asked = w.asked /\ V.callee = w.callee
    BY <1>2
  <2>2. /\ \A c \in Call : V.held[c] \in {"nothing", w.held[c]}
        /\ \A e : IsEvent(e) => (Has(V.mail, e) <=> Has(w.mail, e))
        /\ \A e, f : IsEvent(e) /\ IsEvent(f) => (Precedes(V.mail, e, f) <=> Precedes(w.mail, e, f))
    BY <1>3, <1>4
  <2> HIDE DEF V
  <2> QED
    BY <2>1, <2>2, SameLettersKeep
<1> QED
  BY <1>5 DEF v

LEMMA MailFacts ==
  ASSUME NEW u, IsWarm(u), NEW m, IsMail(m)
  PROVE  LET v == [u EXCEPT !.mail = m]
         IN /\ IsWarm(v) /\ DOMAIN v = DOMAIN u /\ v.mail = m
            /\ v.status = u.status /\ v.settled = u.settled /\ v.held = u.held
            /\ v.relays = u.relays /\ v.edge = u.edge /\ v.bridge = u.bridge
            /\ v.staged = u.staged /\ v.raised = u.raised /\ v.proxy = u.proxy
            /\ v.asked = u.asked /\ v.callee = u.callee
<1> DEFINE v == [u EXCEPT !.mail = m]
<1>1. v = [f \in DOMAIN v |-> v[f]] /\ DOMAIN v = DOMAIN u /\ v.mail = m /\ v.status = u.status
  BY DEF IsWarm, Fields
<1>2. /\ v.settled = u.settled /\ v.held = u.held /\ v.relays = u.relays /\ v.edge = u.edge
      /\ v.bridge = u.bridge
  BY DEF IsWarm, Fields
<1>3. /\ v.staged = u.staged /\ v.raised = u.raised /\ v.proxy = u.proxy
      /\ v.asked = u.asked /\ v.callee = u.callee
  BY DEF IsWarm, Fields
<1> HIDE DEF v
<1>4. IsWarm(v)
  BY <1>1, <1>2, <1>3 DEF IsWarm
<1> QED
  BY <1>1, <1>2, <1>3, <1>4 DEF v

\* What is no letter may come before them, or after.
LEMMA WorkKeeps ==
  ASSUME NEW u, Consistent(u), NEW m, IsMail(m), NEW a, NEW b, IsMail(a), IsMail(b),
         \A t \in ToSet(a) \cup ToSet(b) : ~IsEvent(t), m = a \o u.mail \o b
  PROVE  Consistent([u EXCEPT !.mail = m])
<1> DEFINE n == a \o u.mail
           V == [u EXCEPT !.mail = m]
<1>1. IsWarm(u) /\ IsMail(u.mail)
  BY PeersOf DEF Consistent
<1>2. /\ IsMail(n)
      /\ \A e : Has(n, e) <=> Has(a, e) \/ Has(u.mail, e)
      /\ \A e, f : Precedes(n, e, f) <=>
           Precedes(a, e, f) \/ Precedes(u.mail, e, f) \/ (Has(a, e) /\ Has(u.mail, f))
  BY <1>1, MailConcat
<1> HIDE DEF n
<1>3. m = n \o b
  BY DEF n
<1>4. /\ \A e : Has(m, e) <=> Has(n, e) \/ Has(b, e)
      /\ \A e, f : Precedes(m, e, f) <=> Precedes(n, e, f) \/ Precedes(b, e, f) \/ (Has(n, e) /\ Has(b, f))
  BY <1>2, <1>3, MailConcat
<1>5. \A e : IsEvent(e) => ~Has(a, e) /\ ~Has(b, e)
  BY HasIsIn
<1>6. \A e, f : IsEvent(e) => ~Precedes(a, e, f) /\ ~Precedes(b, e, f)
  BY <1>5, OrderHas
<1>7. /\ \A e : IsEvent(e) => (Has(m, e) <=> Has(u.mail, e))
      /\ \A e, f : IsEvent(e) /\ IsEvent(f) => (Precedes(m, e, f) <=> Precedes(u.mail, e, f))
  BY <1>2, <1>4, <1>5, <1>6
<1>8. /\ IsWarm(V) /\ V.mail = m /\ V.status = u.status /\ V.edge = u.edge /\ V.relays = u.relays
      /\ V.proxy = u.proxy /\ V.asked = u.asked /\ V.callee = u.callee /\ V.held = u.held
  <2>1. IsWarm(u) /\ IsMail(m)
    BY <1>1
  <2> QED
    BY ONLY <2>1, MailFacts DEF V
<1> HIDE DEF V
<1>9. \A c \in Call : V.held[c] \in {"nothing", u.held[c]}
  BY <1>8
<1>10. Consistent(V)
  BY <1>7, <1>8, <1>9, SameLettersKeep
<1> QED
  BY <1>10 DEF V

LEMMA InitialConsistent == Consistent(InitialWarm)
<1> DEFINE w == InitialWarm
<1>1. w.mail = << >> /\ IsMail(w.mail) /\ (\A e : ~Has(w.mail, e)) /\ \A e, f : ~Precedes(w.mail, e, f)
  BY MailNone DEF InitialWarm
<1>2. IsWarm(w)
  BY <1>1, ParentAssumption DEF IsWarm, InitialWarm, Fields, Statuses, Outcomes, Edges, Proxies, Callees
<1>3. ASSUME NEW c \in Call PROVE CallOk(w, c) /\ HeldOk(w, c)
  <2>1. w.status[c] = "none" /\ w.proxy[c] = "idle" /\ w.held[c] = "nothing"
    BY DEF InitialWarm
  <2> QED
    BY <1>1, <2>1 DEF CallOk, HeldOk, Acked, DelegateFirst
<1>4. ASSUME NEW i \in Inner PROVE InnerOk(w, i) /\ Wound(w, i) /\ AskOk(w, i)
  <2>1. /\ w.edge[i] = "none" /\ w.callee[i] = "none"
        /\ w.status[ParentOf[i]] = "none" /\ w.held[ParentOf[i]] = "nothing"
    BY ParentAssumption DEF InitialWarm
  <2> QED
    BY <1>1, <2>1 DEF InnerOk, Wound, AskOk, Acked, DelegateFirst
<1> QED
  BY <1>2, <1>3, <1>4 DEF Consistent

\* A reactor's own fields take nothing from those of the lifecycle.
LEMMA WarmWithFacts ==
  ASSUME NEW own, DOMAIN own \cap Fields = {}
  PROVE  LET w == WarmWith(own)
         IN /\ Consistent(w) /\ DOMAIN w = Fields \cup DOMAIN own
            /\ \A f \in DOMAIN own : w[f] = own[f]
            /\ \A f \in Fields : w[f] = InitialWarm[f]
<1> DEFINE w == WarmWith(own)
           z == InitialWarm
<1>1. DOMAIN z = Fields
  BY DEF InitialWarm, Fields
<1> HIDE DEF z
<1>2. /\ w = [f \in DOMAIN w |-> w[f]] /\ DOMAIN w = Fields \cup DOMAIN own
      /\ \A f \in DOMAIN own : w[f] = own[f]
      /\ \A f \in Fields : w[f] = z[f]
  BY <1>1 DEF WarmWith, z
<1>3. Consistent(z)
  BY InitialConsistent DEF z
<1> HIDE DEF w
<1>4. /\ w.status = z.status /\ w.settled = z.settled /\ w.held = z.held /\ w.relays = z.relays
      /\ w.edge = z.edge /\ w.raised = z.raised /\ w.proxy = z.proxy /\ w.callee = z.callee
      /\ w.asked = z.asked /\ w.mail = z.mail
  BY <1>2 DEF Fields
<1>5. IsWarm(w)
  BY <1>2, <1>3, <1>4 DEF Consistent, IsWarm
<1>6. Consistent(w)
  BY <1>3, <1>4, <1>5, SameLettersKeep
<1> QED
  BY <1>2, <1>6 DEF w, z
-----------------------------------------------------------------------------
(* Answers of the transport.                                               *)

Completions == {Completion(c, o) : c \in Call, o \in Outcomes}

LEMMA CompletionFacts ==
  /\ \A c, o : ~IsEvent(Completion(c, o)) /\ Completion(c, o).k = "complete"
  /\ \A c, o : Completion(c, o).d = c /\ Completion(c, o).o = o
  /\ \A c, o, d, p : Completion(c, o) = Completion(d, p) <=> c = d /\ o = p
BY DEF Completion, IsEvent, EventKind

LEMMA CompletionsFinite == IsFiniteSet(Completions)
<1> DEFINE f == [p \in Call \X Outcomes |-> Completion(p[1], p[2])]
<1>1. f \in Surjection(Call \X Outcomes, Completions)
  <2>1. f \in [Call \X Outcomes -> Completions]
    BY DEF Completions
  <2>2. \A e \in Completions : \E p \in Call \X Outcomes : f[p] = e
    <3> SUFFICES ASSUME NEW c \in Call, NEW o \in Outcomes
                 PROVE  \E p \in Call \X Outcomes : f[p] = Completion(c, o)
      BY DEF Completions
    <3>1. <<c, o>> \in Call \X Outcomes /\ f[<<c, o>>] = Completion(c, o)
      OBVIOUS
    <3> QED
      BY <3>1
  <2> HIDE DEF f
  <2> QED
    BY <2>1, <2>2 DEF Surjection, Range
<1>2. IsFiniteSet(Outcomes)
  <2>1. IsFiniteSet({"result"}) /\ IsFiniteSet({"failure"}) /\ IsFiniteSet({"cancelled"})
    BY FS_Singleton
  <2>2. Outcomes = ({"result"} \cup {"failure"}) \cup {"cancelled"}
    BY DEF Outcomes
  <2> QED
    BY <2>1, <2>2, FS_Union
<1>3. IsFiniteSet(Call \X Outcomes)
  BY <1>2, CallAssumption, FS_Product
<1> HIDE DEF f
<1> QED
  BY <1>1, <1>3, FS_Surjection

\* What is scheduled in one go, in whatever order.
LEMMA ScheduledFacts ==
  ASSUME NEW S \in SUBSET Completions
  PROVE  /\ IsMail(SetToSeq(S)) /\ ToSet(SetToSeq(S)) = S
         /\ \A e : Has(SetToSeq(S), e) <=> e \in S
         /\ \A t \in S : ~IsEvent(t)
<1> DEFINE s == SetToSeq(S)
<1>1. s \in Seq(S) /\ ToSet(s) = S
  BY CompletionsFinite, FS_Subset, SetToSeqFacts
<1> HIDE DEF s
<1>2. \A t \in S : ~IsEvent(t)
  BY CompletionFacts DEF Completions
<1>3. IsMail(s)
  BY <1>1, <1>2 DEF IsMail
<1> QED
  BY <1>1, <1>2, <1>3, HasIsIn DEF s

-----------------------------------------------------------------------------
(* What an operation never does: it touches no work of the transport,      *)
(* reopens no delegation, and finishes a call only for what it already     *)
(* holds.                                                                  *)

\* What is not a letter is in n as it is in m.
SameWork(m, n) ==
  \A e : ~IsEvent(e) =>
    /\ Has(n, e) <=> Has(m, e)
    /\ \A f : ~IsEvent(f) => (Precedes(n, e, f) <=> Precedes(m, e, f))

\* What waits for the transport is the outcome of a child whose row is retired.
Staged(w) ==
  /\ w.staged \in Seq(ToSet(w.staged))
  /\ \A e \in ToSet(w.staged) : e.inner \in Inner /\ w.edge[e.inner] = "retired"

\* The call has its outcome, or waits for the one a handler gives it.
Spent(w, c) ==
  w.held[c] # "nothing" \/ w.settled[c] \/ w.status[c] \in {"gone", "awaitingAnswer"}

SettledOk(w, c) == w.settled[c] => w.status[c] = "cancelling"

SteadyBut(w, v, C) ==
  /\ DOMAIN v = DOMAIN w /\ SameWork(w.mail, v.mail) /\ v.bridge \subseteq w.bridge
  /\ Staged(w) => Staged(v)
  /\ \A i \in Inner : /\ w.edge[i] = "none" => v.edge[i] = "none"
                      /\ w.edge[i] = "retired" => v.edge[i] = "retired"
  /\ \A c \in Call : w.status[c] # "none" => v.status[c] # "none"
  /\ \A c \in Call : c \notin C => /\ Spent(v, c) => Spent(w, c)
                                   /\ SettledOk(w, c) => SettledOk(v, c)

LEMMA SteadyTwice ==
  ASSUME NEW u, NEW v, NEW w, NEW C, SteadyBut(u, v, C), SteadyBut(v, w, C)
  PROVE  SteadyBut(u, w, C)
<1>1. SameWork(u.mail, w.mail)
  BY DEF SteadyBut, SameWork
<1> QED
  BY <1>1 DEF SteadyBut

\* At the one call left out, the claim is made on its own.
LEMMA SteadyAll ==
  ASSUME NEW u, NEW v, NEW c, SteadyBut(u, v, {c}),
         Spent(v, c) => Spent(u, c), SettledOk(u, c) => SettledOk(v, c)
  PROVE  SteadyBut(u, v, {})
<1>1. ASSUME NEW d \in Call
      PROVE  (Spent(v, d) => Spent(u, d)) /\ (SettledOk(u, d) => SettledOk(v, d))
  <2>1. CASE d = c
    BY <2>1
  <2>2. CASE d # c
    BY <2>2 DEF SteadyBut
  <2> QED
    BY <2>1, <2>2
<1> QED
  BY <1>1 DEF SteadyBut

LEMMA SteadyFewer ==
  ASSUME NEW u, NEW v, SteadyBut(u, v, {}), NEW C PROVE SteadyBut(u, v, C)
BY DEF SteadyBut

LEMMA SameWorkSend ==
  ASSUME NEW m, IsMail(m), NEW t \in Letters PROVE SameWork(m, Append(m, t))
<1>1. IsEvent(t)
  BY LetterFacts
<1> QED
  BY <1>1, MailSend DEF SameWork

LEMMA SameWorkTake ==
  ASSUME NEW m, IsMail(m), m # << >>, IsEvent(Head(m)) PROVE SameWork(m, Tail(m))
BY MailTake DEF SameWork

LEMMA SameWorkConcat ==
  ASSUME NEW m, IsMail(m), NEW u, IsMail(u), \A t \in ToSet(u) : IsEvent(t)
  PROVE  SameWork(m, m \o u)
<1>1. \A e : Has(u, e) => IsEvent(e)
  BY HasIsIn
<1>2. \A e, f : Precedes(u, e, f) => IsEvent(e)
  BY <1>1, OrderHas
<1> QED
  BY <1>1, <1>2, MailConcat DEF SameWork

\* The lifecycle is untouched.
LEMMA SteadySame ==
  ASSUME NEW u, NEW v, DOMAIN v = DOMAIN u, SameWork(u.mail, v.mail),
         v.bridge = u.bridge, v.staged = u.staged, v.edge = u.edge,
         v.status = u.status, v.held = u.held, v.settled = u.settled
  PROVE  SteadyBut(u, v, {})
<1>1. Staged(u) => Staged(v)
  BY DEF Staged
<1> QED
  BY <1>1 DEF SteadyBut, Spent, SettledOk

LEMMA SteadyRest ==
  ASSUME NEW w, IsWarm(w), w.mail # << >>, IsEvent(Head(w.mail))
  PROVE  SteadyBut(w, Rest(w), {})
<1> DEFINE v == Rest(w)
<1>1. IsMail(w.mail)
  BY PeersOf
<1>2. /\ DOMAIN v = DOMAIN w /\ v.mail = Tail(w.mail) /\ v.bridge = w.bridge /\ v.staged = w.staged
      /\ v.edge = w.edge /\ v.status = w.status /\ v.held = w.held /\ v.settled = w.settled
  BY RestFacts, RestSame
<1> HIDE DEF v
<1>3. SameWork(w.mail, v.mail)
  BY <1>1, <1>2, SameWorkTake
<1>4. SteadyBut(w, v, {})
  BY <1>2, <1>3, SteadySame
<1> QED
  BY <1>4 DEF v

LEMMA SteadySend ==
  ASSUME NEW w, IsWarm(w), NEW k, NEW d, NEW x, Event(k, d, x) \in Letters
  PROVE  SteadyBut(w, Send(w, k, d, x), {})
<1> DEFINE v == Send(w, k, d, x)
<1>1. IsMail(w.mail)
  BY PeersOf
<1>2. /\ DOMAIN v = DOMAIN w /\ v.mail = Append(w.mail, Event(k, d, x))
      /\ v.bridge = w.bridge /\ v.staged = w.staged
      /\ v.edge = w.edge /\ v.status = w.status /\ v.held = w.held /\ v.settled = w.settled
  BY SendFacts, SendSame
<1> HIDE DEF v
<1>3. SameWork(w.mail, v.mail)
  BY <1>1, <1>2, SameWorkSend
<1>4. SteadyBut(w, v, {})
  BY <1>2, <1>3, SteadySame
<1> QED
  BY <1>4 DEF v

LEMMA SameWorkSelf == ASSUME NEW m PROVE SameWork(m, m)
BY DEF SameWork

LEMMA SteadyDrop ==
  ASSUME NEW w, IsWarm(w), NEW c \in Call
  PROVE  SteadyBut(w, Drop(w, c), {c}) /\ SettledOk(Drop(w, c), c)
<1> DEFINE v == Drop(w, c)
<1>1. /\ DOMAIN v = DOMAIN w /\ v.status = [w.status EXCEPT ![c] = "gone"]
      /\ v.settled = [w.settled EXCEPT ![c] = FALSE]
      /\ v.held = [w.held EXCEPT ![c] = "nothing"]
      /\ v.edge = w.edge /\ v.staged = w.staged
  BY DEF Drop, IsWarm, Fields
<1>2. v.mail = w.mail /\ v.bridge \subseteq w.bridge
  BY DEF Drop, IsWarm, Fields
<1> HIDE DEF v
<1>3. /\ DOMAIN v = DOMAIN w /\ v.status = [w.status EXCEPT ![c] = "gone"]
      /\ v.settled = [w.settled EXCEPT ![c] = FALSE]
      /\ v.held = [w.held EXCEPT ![c] = "nothing"]
      /\ v.edge = w.edge /\ v.staged = w.staged /\ v.mail = w.mail
  BY <1>1, <1>2
<1>4. /\ v.status[c] = "gone" /\ ~v.settled[c]
      /\ \A d \in Call : d # c => /\ v.status[d] = w.status[d] /\ v.held[d] = w.held[d]
                                  /\ v.settled[d] = w.settled[d]
  BY <1>3 DEF IsWarm
<1>5. SameWork(w.mail, v.mail) /\ (Staged(w) => Staged(v)) /\ v.bridge \subseteq w.bridge
  BY <1>3, <1>2, SameWorkSelf DEF Staged
<1>6. SteadyBut(w, v, {c}) /\ SettledOk(v, c)
  BY <1>3, <1>4, <1>5 DEF SteadyBut, Spent, SettledOk
<1> QED
  BY <1>6 DEF v

\* A call that answers is gone.
LEMMA SteadyAnswer ==
  ASSUME NEW w, IsWarm(w), NEW c \in Call, NEW k \in {"delegateAck", "terminateAck"}
  PROVE  LET v == Drop(Send(w, k, c, Own), c)
         IN SteadyBut(w, v, {c}) /\ SettledOk(v, c)
<1> DEFINE s == Send(w, k, c, Own)
<1>1. Event(k, c, Own) \in Letters
  BY SomeLetters DEF EventKind
<1>2. IsWarm(s) /\ SteadyBut(w, s, {})
  BY <1>1, SendFacts, SteadySend
<1> HIDE DEF s
<1>3. SteadyBut(s, Drop(s, c), {c}) /\ SettledOk(Drop(s, c), c) /\ SteadyBut(w, s, {c})
  BY <1>2, SteadyDrop, SteadyFewer
<1>4. SteadyBut(w, Drop(s, c), {c})
  BY <1>3, SteadyTwice
<1> QED
  BY <1>3, <1>4 DEF s

\* The fields of the lifecycle of one call change, its status to one that is there.
LEMMA SteadyCall ==
  ASSUME NEW w, IsWarm(w), NEW c \in Call, NEW v, DOMAIN v = DOMAIN w,
         SameWork(w.mail, v.mail), v.bridge = w.bridge, v.staged = w.staged, v.edge = w.edge,
         v.status[c] = "none" => w.status[c] = "none",
         \A d \in Call : d # c => /\ v.status[d] = w.status[d] /\ v.held[d] = w.held[d]
                                 /\ v.settled[d] = w.settled[d]
  PROVE  SteadyBut(w, v, {c})
<1>1. Staged(w) => Staged(v)
  BY DEF Staged
<1> QED
  BY <1>1 DEF SteadyBut, Spent, SettledOk

LEMMA SteadyRaise ==
  ASSUME NEW w, IsWarm(w), NEW c \in Call
  PROVE  LET v == RaiseFailure(w, c)
         IN SteadyBut(w, v, {c}) /\ v.status[c] = "awaitingAnswer" /\ v.settled = w.settled
<1> DEFINE v == RaiseFailure(w, c)
           e == Event("escalate", c, Own)
<1>1. /\ DOMAIN v = DOMAIN w /\ v.status = [w.status EXCEPT ![c] = "awaitingAnswer"]
      /\ v.mail = Append(w.mail, e) /\ v.settled = w.settled /\ v.held = w.held
      /\ v.edge = w.edge /\ v.bridge = w.bridge /\ v.staged = w.staged
  <2>1. IsWarm(w)
    OBVIOUS
  <2>2. v.status = [w.status EXCEPT ![c] = "awaitingAnswer"]
    BY <2>1, RaiseFacts
  <2>3. v.mail = Append(w.mail, e)
    BY <2>1 DEF RaiseFailure, Send, IsWarm, Fields
  <2>4. /\ v.settled = w.settled /\ v.held = w.held
        /\ v.edge = w.edge /\ v.bridge = w.bridge /\ v.staged = w.staged
    BY <2>1, RaiseFacts
  <2>5. DOMAIN v = DOMAIN w
    BY <2>1, RaiseFacts
  <2> QED
    BY <2>2, <2>4, <2>5, <2>3
<1>2. e \in Letters /\ IsMail(w.mail)
  BY SomeLetters, PeersOf DEF EventKind
<1> HIDE DEF v, e
<1>3. SameWork(w.mail, v.mail)
  BY <1>1, <1>2, SameWorkSend
<1>4. v.status[c] = "awaitingAnswer" /\ \A d \in Call : d # c => v.status[d] = w.status[d]
  BY <1>1 DEF IsWarm
<1>5. SteadyBut(w, v, {c})
  BY <1>1, <1>3, <1>4, SteadyCall
<1> QED
  BY <1>1, <1>4, <1>5 DEF v

LEMMA SteadyHold ==
  ASSUME NEW w, IsWarm(w), NEW c \in Call, NEW o \in Outcomes \cup {"nothing"}
  PROVE  LET v == [w EXCEPT !.held[c] = o]
         IN /\ SteadyBut(w, v, {c}) /\ v.status = w.status /\ v.held[c] = o
            /\ v.settled = w.settled /\ IsWarm(v)
<1> DEFINE v == [w EXCEPT !.held[c] = o]
<1>1. /\ IsWarm(v) /\ DOMAIN v = DOMAIN w /\ v.held = [w.held EXCEPT ![c] = o]
      /\ v.status = w.status /\ v.settled = w.settled /\ v.edge = w.edge
      /\ v.staged = w.staged /\ v.mail = w.mail /\ v.bridge = w.bridge
  BY HoldFacts
<1> HIDE DEF v
<1>2. v.held[c] = o /\ (\A d \in Call : d # c => v.held[d] = w.held[d]) /\ SameWork(w.mail, v.mail)
  BY <1>1, SameWorkSelf DEF IsWarm
<1>3. SteadyBut(w, v, {c})
  BY <1>1, <1>2, SteadyCall
<1> QED
  BY <1>1, <1>2, <1>3 DEF v

\* The barrier finishes a call only for what it holds.
LEMMA SteadySettle ==
  ASSUME NEW w, IsWarm(w), NEW c \in Call, SettledOk(w, c)
  PROVE  LET v == MaybeSettle(w, c)
         IN SteadyBut(w, v, {c}) /\ (Spent(v, c) => Spent(w, c)) /\ SettledOk(v, c)
<1> DEFINE v == MaybeSettle(w, c)
<1>1. SteadyBut(w, w, {c})
  BY SteadySame, SteadyFewer, SameWorkSelf
<1>2. CASE ~Live(w, c) \/ Draining(w, c)
  <2>1. v = w
    BY <1>2 DEF MaybeSettle
  <2> QED
    BY <1>1, <2>1
<1>3. CASE Live(w, c) /\ ~Draining(w, c) /\ w.status[c] = "cancelling"
  <2>1. v = IF w.settled[c] THEN Drop(Send(w, "terminateAck", c, Own), c) ELSE w
    BY <1>3 DEF MaybeSettle
  <2>2. LET d == Drop(Send(w, "terminateAck", c, Own), c)
        IN SteadyBut(w, d, {c}) /\ SettledOk(d, c)
    BY SteadyAnswer
  <2> QED
    BY <1>1, <2>1, <2>2 DEF Spent
<1>4. CASE Live(w, c) /\ ~Draining(w, c) /\ w.status[c] # "cancelling"
  <2>1. v = Settled(w, c)
    BY <1>4 DEF MaybeSettle
  <2> DEFINE h == [w EXCEPT !.held[c] = "nothing"]
  <2>2. /\ IsWarm(h) /\ SteadyBut(w, h, {c}) /\ h.status = w.status /\ h.settled = w.settled
        /\ h.held[c] = "nothing"
    BY SteadyHold
  <2>3. w.held[c] \in {"nothing", "result", "cancelled", "failure"}
    BY DEF IsWarm, Outcomes
  <2>4. CASE w.held[c] = "nothing"
    <3>1. v = w
      BY <2>1, <2>4 DEF Settled
    <3> QED
      BY <1>1, <3>1
  <2>5. CASE w.held[c] \in {"result", "cancelled"}
    <3>1. \E k \in {"delegateAck", "terminateAck"} : v = Drop(Send(h, k, c, Own), c)
      BY <2>1, <2>5 DEF Settled
    <3> HIDE DEF h
    <3>2. PICK k \in {"delegateAck", "terminateAck"} : v = Drop(Send(h, k, c, Own), c)
      BY <3>1
    <3> DEFINE d == Drop(Send(h, k, c, Own), c)
    <3>3. SteadyBut(h, d, {c}) /\ SettledOk(d, c)
      BY <2>2, SteadyAnswer
    <3> HIDE DEF d
    <3>4. SteadyBut(w, d, {c})
      BY <2>2, <3>3, SteadyTwice
    <3> QED
      BY <2>5, <3>2, <3>3, <3>4 DEF Spent, d
  <2>6. CASE w.held[c] = "failure"
    <3>1. v = RaiseFailure(h, c)
      BY <2>1, <2>6 DEF Settled
    <3> HIDE DEF h
    <3> DEFINE r == RaiseFailure(h, c)
    <3>2. SteadyBut(h, r, {c}) /\ r.status[c] = "awaitingAnswer" /\ r.settled = h.settled
      BY <2>2, SteadyRaise
    <3> HIDE DEF r
    <3>3. SteadyBut(w, r, {c})
      BY <2>2, <3>2, SteadyTwice
    <3>4. SettledOk(r, c)
      BY <1>4, <2>2, <3>2 DEF SettledOk
    <3> QED
      BY <2>6, <3>1, <3>3, <3>4 DEF Spent, r
  <2> QED
    BY <2>3, <2>4, <2>5, <2>6
<1> QED
  BY <1>2, <1>3, <1>4

LEMMA SteadyStop ==
  ASSUME NEW w, IsWarm(w), NEW c \in Call
  PROVE  LET v == TerminateChildren(w, c)
         IN /\ SteadyBut(w, v, {}) /\ IsWarm(v)
            /\ v.status = w.status /\ v.held = w.held /\ v.settled = w.settled
<1> DEFINE v == TerminateChildren(w, c)
<1>1. /\ IsWarm(v) /\ DOMAIN v = DOMAIN w /\ v.mail = w.mail \o Stops(w, c)
      /\ v.status = w.status /\ v.settled = w.settled /\ v.held = w.held
      /\ v.staged = w.staged /\ v.bridge = w.bridge
  BY TerminateFacts
<1>2. \A i \in Inner : v.edge[i] = w.edge[i] \/ (w.edge[i] = "running" /\ v.edge[i] = "cancelling")
  BY TerminateFacts
<1>3. IsMail(Stops(w, c)) /\ \A t \in ToSet(Stops(w, c)) : IsEvent(t)
  <2>1. /\ IsMail(Stops(w, c))
        /\ \A t \in ToSet(Stops(w, c)) : \E i \in Inner : t = Event("terminate", i, Own)
    BY TerminateFacts
  <2> QED
    BY <2>1, EventFacts DEF EventKind
<1> HIDE DEF v
<1>4. SameWork(w.mail, v.mail)
  BY <1>1, <1>3, PeersOf, SameWorkConcat
<1>5. Staged(w) => Staged(v)
  BY <1>1, <1>2 DEF Staged
<1>6. SteadyBut(w, v, {})
  BY <1>1, <1>2, <1>4, <1>5 DEF SteadyBut, Spent, SettledOk
<1> QED
  BY <1>1, <1>6 DEF v

LEMMA SteadyComplete ==
  ASSUME NEW w, IsWarm(w), NEW c \in Call, NEW o \in Outcomes, SettledOk(w, c)
  PROVE  LET v == Complete(w, c, o) IN SteadyBut(w, v, {c}) /\ SettledOk(v, c)
<1> DEFINE v == Complete(w, c, o)
<1>1. CASE ~Live(w, c)
  <2>1. v = w
    BY <1>1 DEF Complete, Live
  <2>2. SteadyBut(w, w, {c})
    BY SteadySame, SteadyFewer, SameWorkSelf
  <2> QED
    BY <2>1, <2>2
<1>2. CASE Live(w, c) /\ w.status[c] = "cancelling"
  <2> DEFINE z == [w EXCEPT !.settled[c] = TRUE]
  <2>1. v = MaybeSettle(z, c)
    BY <1>2 DEF Complete
  <2>2. /\ DOMAIN z = DOMAIN w /\ z = [f \in DOMAIN z |-> z[f]]
        /\ z.settled = [w.settled EXCEPT ![c] = TRUE]
        /\ z.status = w.status /\ z.held = w.held /\ z.relays = w.relays /\ z.edge = w.edge
        /\ z.raised = w.raised
    BY DEF IsWarm, Fields
  <2>3. /\ z.proxy = w.proxy /\ z.callee = w.callee /\ z.asked = w.asked /\ z.mail = w.mail
        /\ z.bridge = w.bridge /\ z.staged = w.staged
    BY DEF IsWarm, Fields
  <2> HIDE DEF z
  <2>4. z.settled \in [Call -> BOOLEAN] /\ \A d \in Call : d # c => z.settled[d] = w.settled[d]
    BY <2>2 DEF IsWarm
  <2>5. IsWarm(z) /\ SettledOk(z, c) /\ SameWork(w.mail, z.mail)
    BY <1>2, <2>2, <2>3, <2>4, SameWorkSelf DEF IsWarm, SettledOk
  <2>6. SteadyBut(w, z, {c})
    BY <2>2, <2>3, <2>4, <2>5, SteadyCall
  <2>7. SteadyBut(z, MaybeSettle(z, c), {c}) /\ SettledOk(MaybeSettle(z, c), c)
    BY <2>5, SteadySettle
  <2>8. SteadyBut(w, MaybeSettle(z, c), {c})
    BY <2>6, <2>7, SteadyTwice
  <2> QED
    BY <2>1, <2>7, <2>8
<1>3. CASE Live(w, c) /\ w.status[c] # "cancelling"
  <2> DEFINE h == [w EXCEPT !.held[c] = o]
             s == TerminateChildren(h, c)
  <2>1. v = MaybeSettle(s, c)
    BY <1>3 DEF Complete
  <2>2. IsWarm(h) /\ SteadyBut(w, h, {c}) /\ h.status = w.status /\ h.settled = w.settled
    BY SteadyHold
  <2> HIDE DEF h
  <2>3. SteadyBut(h, s, {}) /\ IsWarm(s) /\ s.status = h.status /\ s.settled = h.settled
    BY <2>2, SteadyStop
  <2> HIDE DEF s
  <2>4. SteadyBut(w, s, {c}) /\ SettledOk(s, c)
    BY <2>2, <2>3, SteadyFewer, SteadyTwice DEF SettledOk
  <2>5. SteadyBut(s, MaybeSettle(s, c), {c}) /\ SettledOk(MaybeSettle(s, c), c)
    BY <2>3, <2>4, SteadySettle
  <2>6. SteadyBut(w, MaybeSettle(s, c), {c})
    BY <2>4, <2>5, SteadyTwice
  <2> QED
    BY <2>1, <2>5, <2>6
<1> QED
  BY <1>1, <1>2, <1>3

\* A cancellation: what a held outcome, or a failure that waited, made of the call.
LEMMA SteadyTerminate ==
  ASSUME NEW w, IsWarm(w), NEW c \in Call, SettledOk(w, c)
  PROVE  SteadyBut(w, OnTerminate(w, c), {})
<1> DEFINE v == OnTerminate(w, c)
<1>1. CASE ~Live(w, c)
  <2>1. v = Send(w, "terminateAck", c, Own)
    BY <1>1 DEF OnTerminate, Live
  <2>2. Event("terminateAck", c, Own) \in Letters
    BY SomeLetters DEF EventKind
  <2> QED
    BY <2>1, <2>2, SteadySend
<1>2. CASE Live(w, c) /\ w.status[c] = "cancelling"
  <2>1. v = w
    BY <1>2 DEF OnTerminate
  <2> QED
    BY <2>1, SteadySame, SameWorkSelf
<1>3. CASE Live(w, c) /\ w.status[c] # "cancelling"
  <2> DEFINE z == Cancelled(w, c)
             s == TerminateChildren(z, c)
  <2>1. v = MaybeSettle(s, c)
    BY <1>3 DEF OnTerminate, Cancelled
  <2>2. /\ IsWarm(z) /\ DOMAIN z = DOMAIN w
        /\ z.status = [w.status EXCEPT ![c] = "cancelling"]
        /\ z.held = [w.held EXCEPT ![c] = "nothing"]
        /\ z.edge = w.edge /\ z.staged = w.staged /\ z.mail = w.mail /\ z.bridge = w.bridge
    BY CancelFacts
  <2>3. z.settled = [w.settled EXCEPT ![c] = (w.status[c] = "awaitingAnswer")]
    BY DEF Cancelled, IsWarm, Fields
  <2> HIDE DEF z
  <2>4. /\ z.status[c] = "cancelling" /\ z.held[c] = "nothing"
        /\ z.settled[c] <=> w.status[c] = "awaitingAnswer"
        /\ \A d \in Call : d # c => /\ z.status[d] = w.status[d] /\ z.held[d] = w.held[d]
                                    /\ z.settled[d] = w.settled[d]
    BY ZenonT(30), <2>2, <2>3 DEF IsWarm
  <2>5. SteadyBut(w, z, {c}) /\ (Spent(z, c) => Spent(w, c)) /\ SettledOk(z, c)
    BY <2>2, <2>4, SameWorkSelf, SteadyCall DEF Spent, SettledOk
  <2>6. SteadyBut(z, s, {}) /\ IsWarm(s) /\ SettledOk(s, c)
    BY ZenonT(30), <2>2, <2>5, SteadyStop DEF SettledOk
  <2> HIDE DEF s
  <2>7. /\ SteadyBut(s, MaybeSettle(s, c), {c}) /\ SettledOk(MaybeSettle(s, c), c)
        /\ Spent(MaybeSettle(s, c), c) => Spent(s, c)
    BY <2>6, SteadySettle
  <2>8. SteadyBut(w, MaybeSettle(s, c), {c})
    BY <2>5, <2>6, <2>7, SteadyFewer, SteadyTwice
  <2>9. Spent(s, c) => Spent(z, c)
    BY <2>6 DEF SteadyBut
  <2> QED
    BY <2>1, <2>5, <2>7, <2>8, <2>9, SteadyAll
<1> QED
  BY <1>1, <1>2, <1>3

\* A row is retired: what is staged for it may go to the transport.
LEMMA SteadyRetire ==
  ASSUME NEW u, IsWarm(u), NEW i \in Inner, u.edge[i] # "none",
         NEW B, B \subseteq u.bridge,
         NEW q, Staged(u) => /\ q \in Seq(ToSet(q))
                             /\ \A e : Has(q, e) => Has(u.staged, e) \/ e.inner = i
  PROVE  LET v == Retired(u, i, B, q)
         IN /\ SteadyBut(u, v, {}) /\ IsWarm(v)
            /\ v.status = u.status /\ v.held = u.held /\ v.settled = u.settled
<1> DEFINE v == Retired(u, i, B, q)
<1>1. /\ IsWarm(v) /\ v.edge = [u.edge EXCEPT ![i] = "retired"] /\ v.mail = u.mail
      /\ v.status = u.status /\ v.held = u.held /\ v.settled = u.settled
      /\ DOMAIN v = DOMAIN u /\ v.bridge = B /\ v.staged = q
  BY EdgeFacts
<1> HIDE DEF v
<1>2. v.edge[i] = "retired" /\ \A j \in Inner : j # i => v.edge[j] = u.edge[j]
  BY <1>1 DEF IsWarm
<1>3. Staged(u) => Staged(v)
  BY <1>1, <1>2, HasIsIn DEF Staged
<1>4. SteadyBut(u, v, {})
  BY <1>1, <1>2, <1>3, SameWorkSelf DEF SteadyBut, Spent, SettledOk
<1> QED
  BY <1>1, <1>4 DEF v

LEMMA SteadyChildAck ==
  ASSUME NEW u, IsWarm(u), NEW i \in Inner, u.edge[i] # "none", NEW o,
         IsFiniteSet(u.bridge), SettledOk(u, ParentOf[i])
  PROVE  SteadyBut(u, OnChildAck(u, i, o), {})
<1> DEFINE c == ParentOf[i]
           bridge == {b \in u.bridge : b[1] = i}
           B == u.bridge \ bridge
           news == {[call |-> c, token |-> b[2], outcome |-> o, inner |-> i] : b \in bridge}
           q == u.staged \o SetToSeq(news)
           v == Retired(u, i, B, q)
           r == Retired(u, i, u.bridge, u.staged)
<1>1. c \in Call /\ B \subseteq u.bridge
  BY SomeLetters
<1>2. OnChildAck(u, i, o) = IF u.edge[i] \in {"running", "cancelling"} /\ Live(u, c)
                            THEN MaybeSettle(v, c) ELSE r
  <2>1. [u EXCEPT !.edge[i] = "retired"] = r
    BY DEF IsWarm, Fields, Retired
  <2> QED
    BY <2>1 DEF OnChildAck, Retired
<1>3. SetToSeq(news) \in Seq(news) /\ ToSet(SetToSeq(news)) = news
  <2>1. IsFiniteSet(bridge)
    BY FS_Subset
  <2>2. IsFiniteSet(news)
    <3> DEFINE f == [b \in bridge |-> [call |-> c, token |-> b[2], outcome |-> o, inner |-> i]]
    <3>1. f \in Surjection(bridge, news)
      BY DEF Surjection, Range
    <3> HIDE DEF f, bridge, news
    <3> QED
      BY <2>1, <3>1, FS_Surjection
  <2> QED
    BY <2>2, SetToSeqFacts
<1>4. \A e \in news : e.inner = i
  OBVIOUS
<1> HIDE DEF bridge, news, B, v, r
<1>5. Staged(u) => /\ q \in Seq(ToSet(q))
                   /\ \A e : Has(q, e) => Has(u.staged, e) \/ e.inner = i
  <2> DEFINE s == SetToSeq(news)
             T == ToSet(u.staged) \cup news
  <2> HIDE DEF s
  <2>1. s \in Seq(news) /\ ToSet(s) = news
    BY <1>3 DEF s
  <2> SUFFICES ASSUME Staged(u)
               PROVE  /\ q \in Seq(ToSet(q))
                      /\ \A e : Has(q, e) => Has(u.staged, e) \/ e.inner = i
    OBVIOUS
  <2>2. u.staged \in Seq(T) /\ s \in Seq(T)
    BY <2>1, SeqWiden DEF Staged
  <2> HIDE DEF T
  <2>3. q = u.staged \o s
    BY DEF s
  <2> HIDE DEF q
  <2>4. q \in Seq(T) /\ ToSet(q) = ToSet(u.staged) \cup ToSet(s)
    BY <2>2, <2>3, ToSetConcat
  <2> QED
    BY <1>4, <2>1, <2>4, SeqOfOwn, HasIsIn
<1> HIDE DEF q
<1>6. /\ SteadyBut(u, v, {}) /\ IsWarm(v)
      /\ v.status = u.status /\ v.held = u.held /\ v.settled = u.settled
  BY <1>1, <1>5, SteadyRetire DEF v
<1>7. SteadyBut(u, r, {})
  BY SteadyRetire DEF r, Staged
<1>8. SettledOk(v, c)
  BY <1>6 DEF SettledOk
<1>9. /\ SteadyBut(v, MaybeSettle(v, c), {c}) /\ SettledOk(MaybeSettle(v, c), c)
      /\ Spent(MaybeSettle(v, c), c) => Spent(v, c)
  BY <1>1, <1>6, <1>8, SteadySettle
<1>10. SteadyBut(v, MaybeSettle(v, c), {})
  BY <1>9, SteadyAll
<1>11. SteadyBut(u, MaybeSettle(v, c), {})
  BY <1>6, <1>10, SteadyTwice
<1> QED
  BY <1>2, <1>7, <1>11

LEMMA SteadyRelays ==
  ASSUME NEW u, IsWarm(u), NEW R, R \subseteq Call \X Inner
  PROVE  LET v == [u EXCEPT !.relays = R] IN SteadyBut(u, v, {}) /\ IsWarm(v)
<1> DEFINE v == [u EXCEPT !.relays = R]
<1>1. /\ IsWarm(v) /\ DOMAIN v = DOMAIN u /\ v.status = u.status /\ v.held = u.held
      /\ v.edge = u.edge /\ v.mail = u.mail /\ v.settled = u.settled
      /\ v.bridge = u.bridge /\ v.staged = u.staged
  BY RelaysFacts
<1> HIDE DEF v
<1>2. SteadyBut(u, v, {})
  BY <1>1, SameWorkSelf, SteadySame
<1> QED
  BY <1>1, <1>2 DEF v

LEMMA SteadyEscalate ==
  ASSUME NEW u, IsWarm(u), NEW i \in Inner PROVE SteadyBut(u, OnEscalate(u, i), {})
<1> DEFINE c == ParentOf[i]
           s == Send(u, "escalate", c, i)
           R == s.relays \cup {<<c, i>>}
           v == [s EXCEPT !.relays = R]
<1>1. OnEscalate(u, i) = v \/ OnEscalate(u, i) = u
  BY DEF OnEscalate
<1>2. Event("escalate", c, i) \in Letters /\ c \in Call
  BY SomeLetters
<1>3. IsWarm(s) /\ SteadyBut(u, s, {})
  BY <1>2, SendFacts, SteadySend
<1> HIDE DEF s
<1>4. R \subseteq Call \X Inner
  BY <1>2, <1>3 DEF IsWarm
<1> HIDE DEF R
<1>5. SteadyBut(s, v, {})
  BY <1>3, <1>4, SteadyRelays
<1> HIDE DEF v
<1>6. SteadyBut(u, v, {})
  BY <1>3, <1>5, SteadyTwice
<1>7. SteadyBut(u, u, {})
  BY SteadySame, SameWorkSelf
<1> QED
  BY <1>1, <1>6, <1>7

LEMMA SteadyEscalateAck ==
  ASSUME NEW u, IsWarm(u), NEW c \in Call, NEW x, SettledOk(u, c)
  PROVE  SteadyBut(u, OnEscalateAck(u, c, x), {})
<1> DEFINE R == u.relays \ {<<c, x>>}
           v == [u EXCEPT !.relays = R]
           r == OnEscalateAck(u, c, x)
<1>1. SteadyBut(u, u, {})
  BY SteadySame, SameWorkSelf
<1>2. CASE Live(u, c) /\ <<c, x>> \in u.relays
  <2>1. r = IF x \in Inner /\ u.edge[x] \in {"running", "cancelling"}
            THEN Send(v, "escalateAck", x, Own) ELSE v
    BY <1>2 DEF OnEscalateAck
  <2>2. R \subseteq Call \X Inner
    BY DEF IsWarm
  <2> HIDE DEF R
  <2>3. SteadyBut(u, v, {}) /\ IsWarm(v)
    BY <2>2, SteadyRelays
  <2> HIDE DEF v
  <2>4. x \in Inner => SteadyBut(v, Send(v, "escalateAck", x, Own), {})
    <3>1. x \in Inner => Event("escalateAck", x, Own) \in Letters
      BY SomeLetters DEF EventKind
    <3> QED
      BY <2>3, <3>1, SteadySend
  <2>5. x \in Inner => SteadyBut(u, Send(v, "escalateAck", x, Own), {})
    BY <2>3, <2>4, SteadyTwice
  <2> HIDE DEF r
  <2> QED
    BY <2>1, <2>3, <2>5 DEF r
<1>3. CASE ~(Live(u, c) /\ <<c, x>> \in u.relays)
  <2> DEFINE d == Drop(Send(u, "delegateAck", c, Own), c)
  <2>1. (r = d /\ u.status[c] = "awaitingAnswer") \/ r = u
    BY <1>3 DEF OnEscalateAck, Live
  <2>2. SteadyBut(u, d, {c}) /\ SettledOk(d, c)
    BY SteadyAnswer
  <2> HIDE DEF d
  <2>3. u.status[c] = "awaitingAnswer" => SteadyBut(u, d, {})
    BY <2>2, SteadyAll DEF Spent
  <2> HIDE DEF r
  <2> QED
    BY <1>1, <2>1, <2>3 DEF r
<1> QED
  BY <1>2, <1>3

LEMMA SteadyPeers ==
  ASSUME NEW u, IsWarm(u), NEW callee \in [Inner -> Callees], NEW proxy \in [Call -> Proxies],
         NEW asked, asked \subseteq AskNames
  PROVE  LET v == Peered(u, callee, proxy, asked) IN SteadyBut(u, v, {}) /\ IsWarm(v)
<1> DEFINE v == Peered(u, callee, proxy, asked)
<1>1. /\ IsWarm(v) /\ DOMAIN v = DOMAIN u /\ v.status = u.status /\ v.held = u.held
      /\ v.edge = u.edge /\ v.mail = u.mail /\ v.settled = u.settled
      /\ v.bridge = u.bridge /\ v.staged = u.staged
  BY PeeredFacts
<1> HIDE DEF v
<1>2. SteadyBut(u, v, {})
  BY <1>1, SameWorkSelf, SteadySame
<1> QED
  BY <1>1, <1>2 DEF v

\* A letter of core: the reactor's own fields are untouched.
LEMMA SteadyLetter ==
  ASSUME NEW u, IsWarm(u), NEW e \in Letters, NEW v, DOMAIN v = DOMAIN u,
         v.mail = Append(u.mail, e), v.bridge = u.bridge, v.staged = u.staged,
         v.edge = u.edge, v.status = u.status, v.held = u.held, v.settled = u.settled
  PROVE  SteadyBut(u, v, {})
<1>1. SameWork(u.mail, v.mail)
  BY PeersOf, SameWorkSend
<1> QED
  BY <1>1, SteadySame

LEMMA SteadyDelegate ==
  ASSUME NEW u, IsWarm(u), NEW c \in Call, u.status[c] = "none"
  PROVE  SteadyBut(u, OnDelegate(u, c), {})
<1> DEFINE v == OnDelegate(u, c)
<1>1. /\ DOMAIN v = DOMAIN u /\ v.status = [u.status EXCEPT ![c] = "running"]
      /\ v.held = u.held /\ v.settled = u.settled /\ v.edge = u.edge
      /\ v.mail = u.mail /\ v.bridge = u.bridge /\ v.staged = u.staged
  BY DEF OnDelegate, IsWarm, Fields
<1> HIDE DEF v
<1>2. v.status[c] = "running" /\ \A d \in Call : d # c => v.status[d] = u.status[d]
  BY <1>1 DEF IsWarm
<1>3. SteadyBut(u, v, {c})
  BY <1>1, <1>2, SameWorkSelf, SteadyCall
<1>4. SteadyBut(u, v, {})
  BY <1>1, <1>2, <1>3, SteadyAll DEF Spent, SettledOk
<1> QED
  BY <1>4 DEF v

LEMMA CoreSteady ==
  ASSUME NEW u, IsWarm(u), NEW t \in Letters, t.d \in Call \cup Inner,
         t.d \in Inner <=> t.k \in {"delegate", "terminate", "escalateAck"}
  PROVE  SteadyBut(u, CoreReact(u, t), {})
<1> DEFINE v == CoreReact(u, t)
<1>1. t.k \in {"delegate", "delegateAck", "terminate", "terminateAck", "escalate", "escalateAck"}
  BY LetterFacts DEF EventKind
<1>2. SameWork(u.mail, u.mail)
  BY SameWorkSelf
<1>3. CASE t.k = "delegate"
  <2>1. /\ DOMAIN v = DOMAIN u /\ v.status = u.status /\ v.held = u.held /\ v.settled = u.settled
        /\ v.edge = u.edge /\ v.mail = u.mail /\ v.bridge = u.bridge /\ v.staged = u.staged
    BY <1>3 DEF CoreReact, IsWarm, Fields
  <2> HIDE DEF v
  <2>2. SteadyBut(u, v, {})
    BY <1>2, <2>1, SteadySame
  <2> QED
    BY <2>2 DEF v
<1>4. CASE t.k = "terminate"
  <2> DEFINE e == Event("terminateAck", t.d, Own)
  <2>1. e \in Letters
    BY <1>4, SomeLetters DEF EventKind
  <2> HIDE DEF e
  <2>2. v = [u EXCEPT !.callee[t.d] = "done", !.mail = Append(@, e)]
    BY <1>4 DEF CoreReact, Send, IsWarm, Fields, e
  <2> HIDE DEF v
  <2>3. /\ DOMAIN v = DOMAIN u /\ v.status = u.status /\ v.held = u.held /\ v.settled = u.settled
        /\ v.edge = u.edge /\ v.mail = Append(u.mail, e) /\ v.bridge = u.bridge /\ v.staged = u.staged
    BY <2>2 DEF IsWarm, Fields
  <2>4. SteadyBut(u, v, {})
    BY <2>1, <2>3, SteadyLetter
  <2> QED
    BY <2>4 DEF v
<1>5. CASE t.k = "escalateAck"
  <2>1. v = [u EXCEPT !.callee[t.d] = IF @ = "asking" THEN "answered" ELSE @]
    BY <1>5 DEF CoreReact
  <2> HIDE DEF v
  <2>2. /\ DOMAIN v = DOMAIN u /\ v.status = u.status /\ v.held = u.held /\ v.settled = u.settled
        /\ v.edge = u.edge /\ v.mail = u.mail /\ v.bridge = u.bridge /\ v.staged = u.staged
    BY <2>1 DEF IsWarm, Fields
  <2>3. SteadyBut(u, v, {})
    BY <1>2, <2>2, SteadySame
  <2> QED
    BY <2>3 DEF v
<1>6. CASE t.k \in {"delegateAck", "terminateAck"}
  <2>1. v = [u EXCEPT !.proxy[t.d] = "done"]
    BY <1>6 DEF CoreReact
  <2> HIDE DEF v
  <2>2. /\ DOMAIN v = DOMAIN u /\ v.status = u.status /\ v.held = u.held /\ v.settled = u.settled
        /\ v.edge = u.edge /\ v.mail = u.mail /\ v.bridge = u.bridge /\ v.staged = u.staged
    BY <2>1 DEF IsWarm, Fields
  <2>3. SteadyBut(u, v, {})
    BY <1>2, <2>2, SteadySame
  <2> QED
    BY <2>3 DEF v
<1>7. CASE t.k = "escalate"
  <2>1. v = [u EXCEPT !.asked = IF u.proxy[t.d] = "calling" THEN @ \cup {<<t.d, t.x>>} ELSE @]
    BY <1>7 DEF CoreReact
  <2> HIDE DEF v
  <2>2. /\ DOMAIN v = DOMAIN u /\ v.status = u.status /\ v.held = u.held /\ v.settled = u.settled
        /\ v.edge = u.edge /\ v.mail = u.mail /\ v.bridge = u.bridge /\ v.staged = u.staged
    BY <2>1 DEF IsWarm, Fields
  <2>3. SteadyBut(u, v, {})
    BY <1>2, <2>2, SteadySame
  <2> QED
    BY <2>3 DEF v
<1> QED
  BY <1>1, <1>3, <1>4, <1>5, <1>6, <1>7

\* Whoever the letter is for.
LEMMA LettersSteady ==
  ASSUME NEW w, Consistent(w), w.mail # << >>, IsEvent(Head(w.mail)),
         IsFiniteSet(w.bridge), \A c \in Call : SettledOk(w, c)
  PROVE  LET t == Head(w.mail)
         IN IF ToReactor(t) THEN SteadyBut(w, ReactorReact(Rest(w), t), {})
                            ELSE SteadyBut(w, CoreReact(Rest(w), t), {})
<1> DEFINE t == Head(w.mail)
           u == Rest(w)
<1>1. t \in Letters /\ IsWarm(w) /\ IsWarm(u) /\ SteadyBut(w, u, {})
  BY TakeFacts, MailTake, SteadyRest
<1>2. /\ t = Event(t.k, t.d, t.x)
      /\ \/ t.d \in Call \cup Inner /\ t.x = Own
         \/ t.x \in Inner /\ t.d = ParentOf[t.x] /\ t.d \in Call /\ t.k \in {"escalate", "escalateAck"}
      /\ t.k \in {"delegate", "delegateAck", "terminate", "terminateAck", "escalate", "escalateAck"}
  BY <1>1, LetterFacts DEF EventKind
<1>3. \A i \in Inner : i \notin Call
  BY OwnFacts
<1>4. /\ u.status = w.status /\ u.edge = w.edge /\ u.bridge = w.bridge /\ u.settled = w.settled
      /\ u.callee = w.callee
  BY <1>1, RestSame
<1>5. Has(w.mail, t)
  BY TakeFacts
<1> HIDE DEF t, u
<1>6. \A c \in Call : SettledOk(u, c)
  BY <1>4 DEF SettledOk
<1>7. CASE ToReactor(t) /\ t.d \in Call
  <2>1. ASSUME t.k = "delegate" PROVE SteadyBut(w, ReactorReact(u, t), {})
    <3>1. w.status[t.d] = "none"
      BY <1>2, <1>3, <1>5, <1>7, <2>1 DEF Consistent, CallOk
    <3>2. ReactorReact(u, t) = OnDelegate(u, t.d)
      BY <2>1 DEF ReactorReact
    <3>3. SteadyBut(u, OnDelegate(u, t.d), {})
      BY <1>1, <1>4, <1>7, <3>1, SteadyDelegate
    <3> QED
      BY <1>1, <3>2, <3>3, SteadyTwice
  <2>2. ASSUME t.k = "terminate" PROVE SteadyBut(w, ReactorReact(u, t), {})
    <3>1. ReactorReact(u, t) = OnTerminate(u, t.d)
      BY <2>2 DEF ReactorReact
    <3>2. SteadyBut(u, OnTerminate(u, t.d), {})
      BY <1>1, <1>6, <1>7, SteadyTerminate
    <3> QED
      BY <1>1, <3>1, <3>2, SteadyTwice
  <2>3. ASSUME t.k = "escalateAck" PROVE SteadyBut(w, ReactorReact(u, t), {})
    <3>1. ReactorReact(u, t) = OnEscalateAck(u, t.d, t.x)
      BY <2>3 DEF ReactorReact
    <3>2. SteadyBut(u, OnEscalateAck(u, t.d, t.x), {})
      BY <1>1, <1>6, <1>7, SteadyEscalateAck
    <3> QED
      BY <1>1, <3>1, <3>2, SteadyTwice
  <2>4. SteadyBut(w, ReactorReact(u, t), {})
    BY <1>2, <1>7, <2>1, <2>2, <2>3 DEF ToReactor
  <2> QED
    BY <1>7, <2>4 DEF t, u
<1>8. CASE ToReactor(t) /\ t.d \in Inner
  <2>1. ASSUME t.k \in {"delegateAck", "terminateAck"} PROVE SteadyBut(w, ReactorReact(u, t), {})
    <3>1. \E o : ReactorReact(u, t) = OnChildAck(u, t.d, o)
      BY <2>1 DEF ReactorReact
    <3>2. PICK o : ReactorReact(u, t) = OnChildAck(u, t.d, o)
      BY <3>1
    <3>3. u.edge[t.d] # "none" /\ IsFiniteSet(u.bridge)
      <4>1. Acked(w.mail, t.d)
        BY <1>2, <1>3, <1>5, <1>8, <2>1 DEF Acked
      <4>2. InnerOk(w, t.d)
        BY <1>8 DEF Consistent
      <4> QED
        BY <1>4, <4>1, <4>2 DEF InnerOk
    <3>4. SettledOk(u, ParentOf[t.d])
      BY <1>6, <1>8, SomeLetters
    <3>5. SteadyBut(u, OnChildAck(u, t.d, o), {})
      BY <1>1, <1>8, <3>3, <3>4, SteadyChildAck
    <3> QED
      BY <1>1, <3>2, <3>5, SteadyTwice
  <2>2. ASSUME t.k = "escalate" PROVE SteadyBut(w, ReactorReact(u, t), {})
    <3>1. ReactorReact(u, t) = OnEscalate(u, t.d)
      BY <2>2 DEF ReactorReact
    <3>2. SteadyBut(u, OnEscalate(u, t.d), {})
      BY <1>1, <1>8, SteadyEscalate
    <3> QED
      BY <1>1, <3>1, <3>2, SteadyTwice
  <2>3. SteadyBut(w, ReactorReact(u, t), {})
    BY <1>2, <1>3, <1>8, <2>1, <2>2 DEF ToReactor
  <2> QED
    BY <1>8, <2>3 DEF t, u
<1>9. CASE ~ToReactor(t)
  <2>1. t.d \in Call \cup Inner
    BY <1>2
  <2>2. t.d \in Inner <=> t.k \in {"delegate", "terminate", "escalateAck"}
    BY <1>3, <1>9, <2>1 DEF ToReactor
  <2>3. SteadyBut(u, CoreReact(u, t), {})
    BY <1>1, <2>1, <2>2, CoreSteady
  <2>4. SteadyBut(w, CoreReact(u, t), {})
    BY <1>1, <2>3, SteadyTwice
  <2> QED
    BY <1>9, <2>4 DEF t, u
<1> QED
  BY <1>2, <1>7, <1>8, <1>9 DEF t
-----------------------------------------------------------------------------
(* The acts of core, as steps of the reactor's state.                      *)

LEMMA CallsSteady ==
  ASSUME NEW w, IsWarm(w), NEW c \in Call
  PROVE  SteadyBut(w, Send([w EXCEPT !.proxy[c] = "calling"], "delegate", c, Own), {})
<1> DEFINE e == Event("delegate", c, Own)
           v == Send([w EXCEPT !.proxy[c] = "calling"], "delegate", c, Own)
<1>1. e \in Letters
  BY SomeLetters DEF EventKind
<1>2. v = [w EXCEPT !.proxy[c] = "calling", !.mail = Append(@, e)]
  BY DEF Send, IsWarm, Fields
<1> HIDE DEF v, e
<1>3. /\ DOMAIN v = DOMAIN w /\ v.status = w.status /\ v.held = w.held /\ v.settled = w.settled
      /\ v.edge = w.edge /\ v.mail = Append(w.mail, e) /\ v.bridge = w.bridge /\ v.staged = w.staged
  BY <1>2 DEF IsWarm, Fields
<1>4. SteadyBut(w, v, {})
  BY <1>1, <1>3, SteadyLetter
<1> QED
  BY <1>4 DEF v

LEMMA CancelsSteady ==
  ASSUME NEW w, IsWarm(w), NEW c \in Call
  PROVE  SteadyBut(w, Send([w EXCEPT !.proxy[c] = "cancelling", !.asked = {a \in @ : a[1] # c}],
                           "terminate", c, Own), {})
<1> DEFINE e == Event("terminate", c, Own)
           A == {a \in w.asked : a[1] # c}
           v == Send([w EXCEPT !.proxy[c] = "cancelling", !.asked = {a \in @ : a[1] # c}],
                     "terminate", c, Own)
<1>1. e \in Letters
  BY SomeLetters DEF EventKind
<1> HIDE DEF A
<1>2. v = [w EXCEPT !.proxy[c] = "cancelling", !.asked = A, !.mail = Append(@, e)]
  BY DEF Send, IsWarm, Fields, A
<1> HIDE DEF v, e
<1>3. /\ DOMAIN v = DOMAIN w /\ v.status = w.status /\ v.held = w.held /\ v.settled = w.settled
      /\ v.edge = w.edge /\ v.mail = Append(w.mail, e) /\ v.bridge = w.bridge /\ v.staged = w.staged
  BY <1>2 DEF IsWarm, Fields
<1>4. SteadyBut(w, v, {})
  BY <1>1, <1>3, SteadyLetter
<1> QED
  BY <1>4 DEF v

LEMMA AnswersSteady ==
  ASSUME NEW w, IsWarm(w), NEW c \in Call, NEW x, <<c, x>> \in w.asked
  PROVE  SteadyBut(w, Send([w EXCEPT !.asked = @ \ {<<c, x>>}], "escalateAck", c, x), {})
<1> DEFINE e == Event("escalateAck", c, x)
           v == Send([w EXCEPT !.asked = @ \ {<<c, x>>}], "escalateAck", c, x)
<1>1. e \in Letters
  <2>1. x = Own \/ (x \in Inner /\ c = ParentOf[x])
    BY PeersOf DEF AskNames
  <2> QED
    BY <2>1, SomeLetters DEF EventKind
<1>2. v = [w EXCEPT !.asked = @ \ {<<c, x>>}, !.mail = Append(@, e)]
  BY DEF Send, IsWarm, Fields
<1> HIDE DEF v, e
<1>3. /\ DOMAIN v = DOMAIN w /\ v.status = w.status /\ v.held = w.held /\ v.settled = w.settled
      /\ v.edge = w.edge /\ v.mail = Append(w.mail, e) /\ v.bridge = w.bridge /\ v.staged = w.staged
  BY <1>2 DEF IsWarm, Fields
<1>4. SteadyBut(w, v, {})
  BY <1>1, <1>3, SteadyLetter
<1> QED
  BY <1>4 DEF v

LEMMA CalleeSteady ==
  ASSUME NEW w, IsWarm(w), NEW i \in Inner, NEW s, NEW k \in {"delegateAck", "escalate"}
  PROVE  SteadyBut(w, Send([w EXCEPT !.callee[i] = s], k, i, Own), {})
<1> DEFINE e == Event(k, i, Own)
           v == Send([w EXCEPT !.callee[i] = s], k, i, Own)
<1>1. e \in Letters
  BY SomeLetters DEF EventKind
<1>2. v = [w EXCEPT !.callee[i] = s, !.mail = Append(@, e)]
  BY DEF Send, IsWarm, Fields
<1> HIDE DEF v, e
<1>3. /\ DOMAIN v = DOMAIN w /\ v.status = w.status /\ v.held = w.held /\ v.settled = w.settled
      /\ v.edge = w.edge /\ v.mail = Append(w.mail, e) /\ v.bridge = w.bridge /\ v.staged = w.staged
  BY <1>2 DEF IsWarm, Fields
<1>4. SteadyBut(w, v, {})
  BY <1>1, <1>3, SteadyLetter
<1> QED
  BY <1>4 DEF v
-----------------------------------------------------------------------------
(* What an operation on one call leaves of the others, and of the fields   *)
(* that are a reactor's own.                                               *)

OwnFields(w, v) == DOMAIN v = DOMAIN w /\ \A f \in DOMAIN w \ Fields : v[f] = w[f]
OwnKept(w, v) == OwnFields(w, v) /\ v.staged = w.staged

\* The inner delegation i is told to stop, or its instance confirmed it.
Told(w, i) == Has(w.mail, Event("terminate", i, Own)) \/ Has(w.mail, Event("terminateAck", i, Own))

\* Nothing happens to the call c.
Stays(w, v, c) ==
  /\ v.status[c] = w.status[c] /\ v.held[c] = w.held[c]
  /\ \A i \in Children(c) : v.edge[i] = w.edge[i] /\ (Told(v, i) => Told(w, i))
  /\ \A b \in w.bridge : ParentOf[b[1]] = c => b \in v.bridge
  /\ \A e : e.call = c => (e \in ToSet(v.staged) <=> e \in ToSet(w.staged))

\* Nothing happens to a call other than c.
Touches(w, v, c) == OwnKept(w, v) /\ \A d \in Call : d # c => Stays(w, v, d)

\* The call winds down, or is gone.
Winds(w, v, c) ==
  /\ w.status[c] # "none" /\ v.status[c] \in {"cancelling", "gone"} /\ v.held[c] = "nothing"
  /\ \A i \in Children(c) : v.edge[i] \in {"running", "cancelling"} =>
                              w.edge[i] \in {"running", "cancelling"}

LEMMA OwnTwice ==
  ASSUME NEW u, NEW v, NEW w, OwnKept(u, v), OwnKept(v, w) PROVE OwnKept(u, w)
BY DEF OwnKept, OwnFields

LEMMA StaysTwice ==
  ASSUME NEW u, NEW v, NEW w, NEW c, Stays(u, v, c), Stays(v, w, c) PROVE Stays(u, w, c)
BY DEF Stays

LEMMA TouchesTwice ==
  ASSUME NEW u, NEW v, NEW w, NEW c, Touches(u, v, c), Touches(v, w, c) PROVE Touches(u, w, c)
<1>1. OwnKept(u, w)
  BY OwnTwice DEF Touches
<1>2. \A d \in Call : d # c => Stays(u, w, d)
  BY StaysTwice DEF Touches
<1> QED
  BY <1>1, <1>2 DEF Touches

LEMMA StaysSelf == ASSUME NEW w, NEW c PROVE Stays(w, w, c)
BY DEF Stays

LEMMA TouchesSelf == ASSUME NEW w, NEW c PROVE Touches(w, w, c)
BY StaysSelf DEF Touches, OwnKept, OwnFields

LEMMA ToldRest ==
  ASSUME NEW w, IsWarm(w), w.mail # << >>, NEW i, Told(Rest(w), i) PROVE Told(w, i)
BY RestFacts, MailTake DEF Told, IsWarm

LEMMA ToldSend ==
  ASSUME NEW w, IsWarm(w), NEW e \in Letters, NEW v, v.mail = Append(w.mail, e),
         NEW i, e \notin {Event("terminate", i, Own), Event("terminateAck", i, Own)}, Told(v, i)
  PROVE  Told(w, i)
BY MailSend DEF Told, IsWarm

\* A letter is taken.
LEMMA RestStays ==
  ASSUME NEW w, IsWarm(w), w.mail # << >>
  PROVE  OwnKept(w, Rest(w)) /\ \A c \in Call : Stays(w, Rest(w), c)
<1>1. OwnKept(w, Rest(w))
  BY RestFacts, RestSame DEF OwnKept, OwnFields, Fields
<1>2. \A c \in Call : Stays(w, Rest(w), c)
  BY RestSame, ToldRest DEF Stays
<1> QED
  BY <1>1, <1>2

\* A letter is sent.
LEMMA SendStays ==
  ASSUME NEW w, IsWarm(w), NEW k, NEW d, NEW x, Event(k, d, x) \in Letters
  PROVE  LET v == Send(w, k, d, x)
         IN /\ OwnKept(w, v)
            /\ \A c \in Call :
                 (\A i \in Children(c) : k \in {"terminate", "terminateAck"} => d # i) => Stays(w, v, c)
<1> DEFINE v == Send(w, k, d, x)
<1>1. OwnKept(w, v)
  BY SendFacts, SendSame DEF OwnKept, OwnFields, Fields
<1>2. v.mail = Append(w.mail, Event(k, d, x))
  BY SendFacts
<1>3. /\ v.status = w.status /\ v.held = w.held /\ v.edge = w.edge
      /\ v.bridge = w.bridge /\ v.staged = w.staged
  BY SendSame
<1> HIDE DEF v
<1>4. ASSUME NEW c \in Call, \A i \in Children(c) : k \in {"terminate", "terminateAck"} => d # i
      PROVE  Stays(w, v, c)
  <2>1. \A i \in Children(c) :
          Event(k, d, x) \notin {Event("terminate", i, Own), Event("terminateAck", i, Own)}
    BY <1>4, EventFacts
  <2>2. \A i \in Children(c) : Told(v, i) => Told(w, i)
    BY <1>2, <2>1, ToldSend
  <2> QED
    BY <1>3, <2>2 DEF Stays
<1> QED
  BY <1>1, <1>4 DEF v

\* A letter to or of a call says nothing to an inner delegation.
LEMMA SendCallStays ==
  ASSUME NEW w, IsWarm(w), NEW k \in EventKind, NEW d \in Call, NEW x, Event(k, d, x) \in Letters
  PROVE  OwnKept(w, Send(w, k, d, x)) /\ \A c \in Call : Stays(w, Send(w, k, d, x), c)
<1>1. \A c \in Call : \A i \in Children(c) : d # i
  BY OwnFacts DEF Children
<1> QED
  BY <1>1, SendStays

LEMMA DropTouches ==
  ASSUME NEW w, IsWarm(w), NEW c \in Call
  PROVE  /\ Touches(w, Drop(w, c), c)
         /\ \A i \in Inner : Drop(w, c).edge[i] = w.edge[i] /\ (Told(Drop(w, c), i) <=> Told(w, i))
<1> DEFINE v == Drop(w, c)
<1>1. OwnKept(w, v)
  BY DEF OwnKept, OwnFields, Fields, Drop, IsWarm
<1>2. /\ v.status = [w.status EXCEPT ![c] = "gone"] /\ v.held = [w.held EXCEPT ![c] = "nothing"]
      /\ v.edge = w.edge /\ v.staged = w.staged /\ v.mail = w.mail
  BY DropFacts
<1>3. \A b \in w.bridge : ParentOf[b[1]] # c => b \in v.bridge
  BY DEF Drop, IsWarm, Fields
<1> HIDE DEF v
<1>4. \A i : Told(v, i) <=> Told(w, i)
  BY <1>2 DEF Told
<1>5. \A d \in Call : d # c => Stays(w, v, d)
  BY <1>2, <1>3, <1>4 DEF Stays, IsWarm
<1> QED
  BY <1>1, <1>2, <1>4, <1>5 DEF Touches, v

LEMMA AnswerTouches ==
  ASSUME NEW w, IsWarm(w), NEW c \in Call, NEW k \in {"delegateAck", "terminateAck"}
  PROVE  LET v == Drop(Send(w, k, c, Own), c)
         IN Touches(w, v, c) /\ v.status[c] = "gone" /\ v.held[c] = "nothing" /\ v.edge = w.edge
<1> DEFINE s == Send(w, k, c, Own)
           v == Drop(s, c)
<1>1. k \in EventKind /\ Event(k, c, Own) \in Letters
  BY SomeLetters DEF EventKind
<1>2. OwnKept(w, s) /\ \A d \in Call : Stays(w, s, d)
  BY <1>1, SendCallStays
<1>3. Touches(w, s, c)
  BY <1>2 DEF Touches
<1>4. IsWarm(s) /\ s.edge = w.edge /\ s.status = w.status /\ s.held = w.held
  BY <1>1, SendFacts, SendSame
<1> HIDE DEF s
<1>5. Touches(s, v, c)
  BY <1>4, DropTouches
<1>6. v.status[c] = "gone" /\ v.held[c] = "nothing" /\ v.edge = s.edge
  <2>1. /\ v.status = [s.status EXCEPT ![c] = "gone"] /\ v.held = [s.held EXCEPT ![c] = "nothing"]
        /\ v.edge = s.edge
    BY <1>4, DropFacts
  <2> QED
    BY <1>4, <2>1 DEF IsWarm
<1> HIDE DEF v
<1> QED
  BY <1>3, <1>4, <1>5, <1>6, TouchesTwice DEF s, v

LEMMA RaiseTouches ==
  ASSUME NEW w, IsWarm(w), NEW c \in Call
  PROVE  Touches(w, RaiseFailure(w, c), c)
<1> DEFINE s == Send(w, "escalate", c, Own)
           v == RaiseFailure(w, c)
<1>1. "escalate" \in EventKind /\ Event("escalate", c, Own) \in Letters
  BY SomeLetters DEF EventKind
<1>2. OwnKept(w, s) /\ \A d \in Call : Stays(w, s, d)
  BY <1>1, SendCallStays
<1>3. IsWarm(s) /\ DOMAIN s = DOMAIN w
  BY <1>1, SendFacts
<1> HIDE DEF s
<1>4. v = [s EXCEPT !.status[c] = "awaitingAnswer", !.raised[c] = @ + 1]
  BY DEF RaiseFailure, s
<1> HIDE DEF v
<1>5. OwnKept(s, v)
  BY <1>3, <1>4 DEF OwnKept, OwnFields, Fields, IsWarm
<1>6. /\ v.status = [s.status EXCEPT ![c] = "awaitingAnswer"] /\ v.held = s.held
      /\ v.edge = s.edge /\ v.bridge = s.bridge /\ v.staged = s.staged /\ v.mail = s.mail
  BY <1>3, <1>4 DEF Fields, IsWarm
<1>7. \A d \in Call : d # c => Stays(s, v, d)
  BY <1>3, <1>6 DEF Stays, Told, IsWarm
<1> QED
  BY <1>2, <1>5, <1>7, OwnTwice, StaysTwice DEF Touches, v

LEMMA HoldTouches ==
  ASSUME NEW w, IsWarm(w), NEW c \in Call, NEW o \in Outcomes \cup {"nothing"}
  PROVE  LET v == [w EXCEPT !.held[c] = o]
         IN /\ Touches(w, v, c) /\ IsWarm(v) /\ v.status = w.status
            /\ v.edge = w.edge /\ v.staged = w.staged
<1> DEFINE v == [w EXCEPT !.held[c] = o]
<1>1. OwnKept(w, v)
  BY DEF OwnKept, OwnFields, Fields, IsWarm
<1>2. /\ IsWarm(v) /\ v.status = w.status /\ v.held = [w.held EXCEPT ![c] = o] /\ v.edge = w.edge
      /\ v.staged = w.staged /\ v.mail = w.mail /\ v.bridge = w.bridge
  BY HoldFacts
<1> HIDE DEF v
<1>3. \A d \in Call : d # c => Stays(w, v, d)
  BY <1>2 DEF Stays, Told, IsWarm
<1> QED
  BY <1>1, <1>2, <1>3 DEF Touches, v

LEMMA StopTouches ==
  ASSUME NEW w, IsWarm(w), NEW c \in Call
  PROVE  LET v == TerminateChildren(w, c)
         IN /\ Touches(w, v, c) /\ IsWarm(v) /\ v.status = w.status /\ v.held = w.held
            /\ v.staged = w.staged /\ v.settled = w.settled
            /\ \A i \in Inner : v.edge[i] \in {"running", "cancelling"} =>
                                  w.edge[i] \in {"running", "cancelling"}
<1> DEFINE v == TerminateChildren(w, c)
<1>1. OwnKept(w, v)
  BY DEF OwnKept, OwnFields, Fields, IsWarm, TerminateChildren
<1>2. /\ IsWarm(v) /\ v.status = w.status /\ v.held = w.held /\ v.bridge = w.bridge
      /\ v.staged = w.staged /\ v.settled = w.settled
      /\ v.mail = w.mail \o Stops(w, c) /\ IsMail(Stops(w, c))
      /\ \A i \in Inner : v.edge[i] = IF ParentOf[i] = c /\ w.edge[i] = "running"
                                      THEN "cancelling" ELSE w.edge[i]
  BY TerminateFacts
<1>3. \A t \in ToSet(Stops(w, c)) : \E i \in Inner :
        ParentOf[i] = c /\ t = Event("terminate", i, Own)
  BY TerminateFacts
<1> HIDE DEF v
<1>4. ASSUME NEW i \in Inner, ParentOf[i] # c, Told(v, i) PROVE Told(w, i)
  <2>1. \A e : Has(v.mail, e) <=> Has(w.mail, e) \/ Has(Stops(w, c), e)
    BY <1>2, MailConcat DEF IsWarm
  <2>2. \A k : ~Has(Stops(w, c), Event(k, i, Own))
    BY <1>3, <1>4, HasIsIn, EventFacts
  <2> QED
    BY <1>4, <2>1, <2>2 DEF Told
<1>5. \A d \in Call : d # c => Stays(w, v, d)
  BY <1>2, <1>4 DEF Stays, Children
<1> QED
  BY <1>1, <1>2, <1>5 DEF Touches, v

\* The barrier: it moves a call that holds nothing only when it winds down.
LEMMA SettleTouches ==
  ASSUME NEW w, IsWarm(w), NEW c \in Call
  PROVE  LET v == MaybeSettle(w, c)
         IN Touches(w, v, c) /\ (w.held[c] = "nothing" => v = w \/ Winds(w, v, c))
<1> DEFINE u == [w EXCEPT !.held[c] = "nothing"]
<1>1. Touches(w, u, c) /\ IsWarm(u)
  BY HoldTouches
<1> HIDE DEF u
<1>2. CASE ~Live(w, c) \/ Draining(w, c)
  BY <1>2, TouchesSelf DEF MaybeSettle
<1>3. CASE Live(w, c) /\ ~Draining(w, c) /\ w.status[c] = "cancelling"
  <2>1. MaybeSettle(w, c) = IF w.settled[c] THEN Drop(Send(w, "terminateAck", c, Own), c) ELSE w
    BY <1>3 DEF MaybeSettle
  <2>2. CASE w.settled[c]
    <3> DEFINE v == Drop(Send(w, "terminateAck", c, Own), c)
    <3>1. Touches(w, v, c) /\ v.status[c] = "gone" /\ v.held[c] = "nothing" /\ v.edge = w.edge
      BY AnswerTouches
    <3> HIDE DEF v
    <3>2. Winds(w, v, c)
      BY <1>3, <3>1 DEF Winds
    <3> QED
      BY <2>1, <2>2, <3>1, <3>2 DEF v
  <2> QED
    BY <2>1, <2>2, TouchesSelf
<1>4. CASE Live(w, c) /\ ~Draining(w, c) /\ w.status[c] # "cancelling"
  <2>1. MaybeSettle(w, c) = Settled(w, c)
    BY <1>4 DEF MaybeSettle
  <2>2. w.held[c] \in Outcomes \cup {"nothing"}
    BY DEF IsWarm
  <2>3. CASE w.held[c] = "nothing"
    <3>1. Settled(w, c) = w
      BY <2>3 DEF Settled
    <3> QED
      BY <2>1, <3>1, TouchesSelf
  <2>4. CASE w.held[c] \in {"result", "cancelled"}
    <3>1. PICK k \in {"delegateAck", "terminateAck"} : Settled(w, c) = Drop(Send(u, k, c, Own), c)
      BY <2>4 DEF Settled, u
    <3>2. Touches(u, Drop(Send(u, k, c, Own), c), c)
      BY <1>1, AnswerTouches
    <3> QED
      BY <1>1, <2>1, <2>4, <3>1, <3>2, TouchesTwice
  <2>5. CASE w.held[c] = "failure"
    <3>1. Settled(w, c) = RaiseFailure(u, c)
      BY <2>5 DEF Settled, u
    <3>2. Touches(u, RaiseFailure(u, c), c)
      BY <1>1, RaiseTouches
    <3> QED
      BY <1>1, <2>1, <2>5, <3>1, <3>2, TouchesTwice
  <2> QED
    BY <2>2, <2>3, <2>4, <2>5 DEF Outcomes
<1> QED
  BY <1>2, <1>3, <1>4

\* The outcome of a call that winds down, or is gone, moves that call alone.
LEMMA CompleteTouches ==
  ASSUME NEW w, IsWarm(w), NEW c \in Call, NEW o \in Outcomes
  PROVE  LET v == Complete(w, c, o)
         IN /\ Touches(w, v, c)
            /\ w.status[c] \in {"cancelling", "gone"} /\ w.held[c] = "nothing" =>
                 Stays(w, v, c) \/ Winds(w, v, c)
<1>1. CASE ~Live(w, c)
  BY <1>1, TouchesSelf, StaysSelf DEF Complete, Live
<1>2. CASE Live(w, c) /\ w.status[c] = "cancelling"
  <2> DEFINE u == [w EXCEPT !.settled[c] = TRUE]
  <2>1. OwnKept(w, u)
    BY DEF OwnKept, OwnFields, Fields, IsWarm
  <2>2. /\ IsWarm(u) /\ u.status = w.status /\ u.held = w.held /\ u.edge = w.edge
        /\ u.staged = w.staged /\ u.mail = w.mail /\ u.bridge = w.bridge
    BY DEF IsWarm, Fields
  <2>3. Complete(w, c, o) = MaybeSettle(u, c)
    BY <1>2 DEF Complete
  <2> HIDE DEF u
  <2>4. \A d \in Call : Stays(w, u, d)
    BY <2>2 DEF Stays, Told
  <2>5. Touches(w, u, c)
    BY <2>1, <2>4 DEF Touches
  <2> DEFINE v == MaybeSettle(u, c)
  <2>6. Touches(u, v, c) /\ (u.held[c] = "nothing" => v = u \/ Winds(u, v, c))
    BY <2>2, SettleTouches
  <2> HIDE DEF v
  <2>7. w.held[c] = "nothing" => Stays(w, v, c) \/ Winds(w, v, c)
    BY <2>2, <2>4, <2>6 DEF Winds
  <2> QED
    BY <2>3, <2>5, <2>6, <2>7, TouchesTwice DEF v
<1>3. CASE Live(w, c) /\ w.status[c] # "cancelling"
  <2> DEFINE u == [w EXCEPT !.held[c] = o]
             s == TerminateChildren(u, c)
  <2>1. Touches(w, u, c) /\ IsWarm(u)
    BY HoldTouches
  <2>2. Complete(w, c, o) = MaybeSettle(s, c)
    BY <1>3 DEF Complete
  <2> HIDE DEF u
  <2>3. Touches(u, s, c) /\ IsWarm(s)
    BY <2>1, StopTouches
  <2> HIDE DEF s
  <2>4. Touches(s, MaybeSettle(s, c), c)
    BY <2>3, SettleTouches
  <2>5. Touches(w, MaybeSettle(s, c), c)
    BY <2>1, <2>3, <2>4, TouchesTwice
  <2>6. w.status[c] # "gone"
    BY <1>3 DEF Live
  <2> QED
    BY <1>3, <2>2, <2>5, <2>6
<1> QED
  BY <1>1, <1>2, <1>3

LEMMA TerminateTouches ==
  ASSUME NEW w, IsWarm(w), NEW c \in Call
  PROVE  LET v == OnTerminate(w, c)
         IN Touches(w, v, c) /\ (w.held[c] = "nothing" => Stays(w, v, c) \/ Winds(w, v, c))
<1>1. CASE ~Live(w, c)
  <2>1. "terminateAck" \in EventKind /\ Event("terminateAck", c, Own) \in Letters
    BY SomeLetters DEF EventKind
  <2>2. OnTerminate(w, c) = Send(w, "terminateAck", c, Own)
    BY <1>1 DEF OnTerminate, Live
  <2> QED
    BY <2>1, <2>2, SendCallStays DEF Touches
<1>2. CASE Live(w, c) /\ w.status[c] = "cancelling"
  BY <1>2, TouchesSelf, StaysSelf DEF OnTerminate
<1>3. CASE Live(w, c) /\ w.status[c] # "cancelling"
  <2> DEFINE u == Cancelled(w, c)
             s == TerminateChildren(u, c)
             v == MaybeSettle(s, c)
  <2>1. OwnKept(w, u)
    BY DEF OwnKept, OwnFields, Fields, IsWarm, Cancelled
  <2>2. /\ IsWarm(u) /\ u.status = [w.status EXCEPT ![c] = "cancelling"]
        /\ u.held = [w.held EXCEPT ![c] = "nothing"]
        /\ u.edge = w.edge /\ u.staged = w.staged /\ u.mail = w.mail /\ u.bridge = w.bridge
    BY CancelFacts
  <2>3. OnTerminate(w, c) = v
    BY <1>3 DEF OnTerminate, Cancelled
  <2> HIDE DEF u
  <2>4. \A d \in Call : d # c => Stays(w, u, d)
    BY <2>2 DEF Stays, Told, IsWarm
  <2>5. /\ Touches(u, s, c) /\ IsWarm(s) /\ s.status = u.status /\ s.held = u.held
        /\ \A i \in Inner : s.edge[i] \in {"running", "cancelling"} =>
                              u.edge[i] \in {"running", "cancelling"}
    BY <2>2, StopTouches
  <2> HIDE DEF s
  <2>6. s.held[c] = "nothing" /\ s.status[c] = "cancelling"
    BY <2>2, <2>5 DEF IsWarm
  <2>7. Touches(s, v, c) /\ (v = s \/ Winds(s, v, c))
    BY <2>5, <2>6, SettleTouches
  <2> HIDE DEF v
  <2>8. Winds(w, v, c)
    BY <1>3, <2>2, <2>5, <2>6, <2>7 DEF Winds, Live, Children
  <2>9. Touches(w, v, c)
    BY <2>1, <2>4, <2>5, <2>7, TouchesTwice DEF Touches
  <2> QED
    BY <2>3, <2>8, <2>9
<1> QED
  BY <1>1, <1>2, <1>3

\* An answer leaves every call as it is, but for the one whose failure it handles.
LEMMA EscalateAckTouches ==
  ASSUME NEW w, IsWarm(w), NEW c \in Call, NEW x, Event("escalateAck", c, x) \in Letters
  PROVE  LET v == OnEscalateAck(w, c, x)
         IN Touches(w, v, c) /\ (Stays(w, v, c) \/ Winds(w, v, c))
<1>1. CASE ~Live(w, c)
  BY <1>1, TouchesSelf, StaysSelf DEF OnEscalateAck, Live
<1>2. CASE Live(w, c) /\ <<c, x>> \in w.relays
  <2> DEFINE u == [w EXCEPT !.relays = @ \ {<<c, x>>}]
  <2>1. x \in Inner
    BY <1>2 DEF IsWarm
  <2>2. OwnKept(w, u)
    BY DEF OwnKept, OwnFields, Fields, IsWarm
  <2>3. /\ IsWarm(u) /\ u.status = w.status /\ u.held = w.held /\ u.edge = w.edge
        /\ u.staged = w.staged /\ u.mail = w.mail /\ u.bridge = w.bridge
    <3> DEFINE R == w.relays \ {<<c, x>>}
    <3>1. R \subseteq Call \X Inner
      BY DEF IsWarm
    <3>2. u = [w EXCEPT !.relays = R]
      BY DEF IsWarm, Fields
    <3> HIDE DEF R, u
    <3> QED
      BY <3>1, <3>2, RelaysFacts
  <2>4. OnEscalateAck(w, c, x) = IF w.edge[x] \in {"running", "cancelling"}
                                 THEN Send(u, "escalateAck", x, Own) ELSE u
    BY <1>2, <2>1 DEF OnEscalateAck, IsWarm, Fields
  <2> HIDE DEF u
  <2>5. \A d \in Call : Stays(w, u, d)
    BY <2>3 DEF Stays, Told
  <2>6. LET s == Send(u, "escalateAck", x, Own)
        IN OwnKept(u, s) /\ \A d \in Call : Stays(u, s, d)
    <3>1. Event("escalateAck", x, Own) \in Letters
      BY <2>1, SomeLetters DEF EventKind
    <3> QED
      BY <2>3, <3>1, SendStays
  <2> QED
    BY <2>2, <2>4, <2>5, <2>6, OwnTwice, StaysTwice DEF Touches
<1>3. CASE Live(w, c) /\ <<c, x>> \notin w.relays /\ w.status[c] = "awaitingAnswer"
  <2> DEFINE v == Drop(Send(w, "delegateAck", c, Own), c)
  <2>1. OnEscalateAck(w, c, x) = v
    BY <1>3 DEF OnEscalateAck
  <2>2. Touches(w, v, c) /\ v.status[c] = "gone" /\ v.held[c] = "nothing" /\ v.edge = w.edge
    BY AnswerTouches
  <2> HIDE DEF v
  <2>3. Winds(w, v, c)
    BY <1>3, <2>2 DEF Winds
  <2> QED
    BY <2>1, <2>2, <2>3
<1>4. CASE Live(w, c) /\ <<c, x>> \notin w.relays /\ w.status[c] # "awaitingAnswer"
  BY <1>4, TouchesSelf, StaysSelf DEF OnEscalateAck
<1> QED
  BY <1>1, <1>2, <1>3, <1>4

LEMMA EscalateStays ==
  ASSUME NEW w, IsWarm(w), NEW i \in Inner
  PROVE  LET v == OnEscalate(w, i)
         IN OwnKept(w, v) /\ \A d \in Call : Stays(w, v, d)
<1> DEFINE c == ParentOf[i]
           s == Send(w, "escalate", c, i)
           v == [s EXCEPT !.relays = @ \cup {<<c, i>>}]
<1>1. c \in Call /\ Event("escalate", c, i) \in Letters /\ "escalate" \in EventKind
  BY SomeLetters DEF EventKind
<1>2. OnEscalate(w, i) \in {v, w}
  BY DEF OnEscalate
<1> HIDE DEF c
<1>3. OwnKept(w, s) /\ \A d \in Call : Stays(w, s, d)
  BY <1>1, SendCallStays
<1>4. IsWarm(s)
  BY <1>1, SendFacts
<1> HIDE DEF s
<1>5. OwnKept(s, v)
  BY <1>4 DEF OwnKept, OwnFields, Fields, IsWarm
<1>6. /\ v.status = s.status /\ v.held = s.held /\ v.edge = s.edge
      /\ v.staged = s.staged /\ v.mail = s.mail /\ v.bridge = s.bridge
  BY <1>4 DEF IsWarm, Fields
<1> HIDE DEF v
<1>7. \A d \in Call : Stays(s, v, d)
  BY <1>6 DEF Stays, Told
<1>8. OwnKept(w, v) /\ \A d \in Call : Stays(w, v, d)
  BY <1>3, <1>5, <1>7, OwnTwice, StaysTwice
<1>9. OwnKept(w, w) /\ \A d \in Call : Stays(w, w, d)
  BY StaysSelf DEF OwnKept, OwnFields
<1> QED
  BY <1>2, <1>8, <1>9 DEF v, s, c

\* A delivery came back to a call that runs: its row is retired, and its outcome
\* waits for the transport, if the transport knows it.
ComesBack(w, v, i) ==
  LET c == ParentOf[i]
  IN /\ w.status[c] = "running" /\ v.status[c] = "running" /\ v.held[c] = w.held[c]
     /\ w.edge[i] \in {"running", "cancelling"} /\ v.edge = [w.edge EXCEPT ![i] = "retired"]
     /\ \A j \in Children(c) : Told(v, j) => Told(w, j)
     /\ \A b \in w.bridge : b[1] # i => b \in v.bridge
     /\ (\E b \in w.bridge : b[1] = i) => \E e \in ToSet(v.staged) : e.call = c

\* The outcome of one child may be staged, no other.
StagesOne(w, v, i, o) ==
  \A e \in ToSet(v.staged) : e \in ToSet(w.staged)
    \/ /\ w.edge[i] \in {"running", "cancelling"}
       /\ e.inner = i /\ e.call = ParentOf[i] /\ e.outcome = o

LEMMA ChildAckTouches ==
  ASSUME NEW w, IsWarm(w), NEW i \in Inner, w.edge[i] # "none", Wound(w, i), NEW o,
         IsFiniteSet(w.bridge), Staged(w)
  PROVE  LET v == OnChildAck(w, i, o)
             c == ParentOf[i]
         IN /\ OwnFields(w, v) /\ (\A d \in Call : d # c => Stays(w, v, d))
            /\ StagesOne(w, v, i, o)
            /\ w.held[c] = "nothing" => Stays(w, v, c) \/ Winds(w, v, c) \/ ComesBack(w, v, i)
<1> DEFINE c == ParentOf[i]
           bridge == {b \in w.bridge : b[1] = i}
           B == w.bridge \ bridge
           news == {[call |-> c, token |-> b[2], outcome |-> o, inner |-> i] : b \in bridge}
           q == w.staged \o SetToSeq(news)
           v == Retired(w, i, B, q)
           r == [w EXCEPT !.edge[i] = "retired"]
<1>1. c \in Call /\ i \in Children(c)
  BY SomeLetters DEF Children
<1>2. OnChildAck(w, i, o) = IF w.edge[i] \in {"running", "cancelling"} /\ Live(w, c)
                            THEN MaybeSettle(v, c) ELSE r
  BY DEF OnChildAck, Retired
<1>3. SetToSeq(news) \in Seq(news) /\ ToSet(SetToSeq(news)) = news
  <2>1. IsFiniteSet(bridge)
    BY FS_Subset
  <2>2. IsFiniteSet(news)
    <3> DEFINE f == [b \in bridge |-> [call |-> c, token |-> b[2], outcome |-> o, inner |-> i]]
    <3>1. f \in Surjection(bridge, news)
      BY DEF Surjection, Range
    <3> HIDE DEF f, bridge, news
    <3> QED
      BY <2>1, <3>1, FS_Surjection
  <2> QED
    BY <2>2, SetToSeqFacts
<1>4. \A e \in news : e.inner = i /\ e.call = c /\ e.outcome = o
  OBVIOUS
<1>5. (\E b \in w.bridge : b[1] = i) => \E e \in news : TRUE
  OBVIOUS
<1>6. \A b \in w.bridge : b[1] # i => b \in B
  OBVIOUS
<1> HIDE DEF bridge, news, B
<1>7. ToSet(q) = ToSet(w.staged) \cup news
  <2> DEFINE s == SetToSeq(news)
             T == ToSet(w.staged) \cup news
  <2> HIDE DEF s
  <2>1. s \in Seq(news) /\ ToSet(s) = news
    BY <1>3 DEF s
  <2>2. w.staged \in Seq(T) /\ s \in Seq(T)
    BY <2>1, SeqWiden DEF Staged
  <2> HIDE DEF T
  <2>3. q = w.staged \o s
    BY DEF s
  <2> HIDE DEF q
  <2> QED
    BY <2>1, <2>2, <2>3, ToSetConcat
<1> HIDE DEF q
<1>8. OwnFields(w, v)
  BY DEF OwnFields, Fields, IsWarm, Retired
<1>9. /\ IsWarm(v) /\ v.edge = [w.edge EXCEPT ![i] = "retired"]
      /\ v.status = w.status /\ v.held = w.held /\ v.mail = w.mail
      /\ v.bridge = B /\ v.staged = q
  BY EdgeFacts
<1> HIDE DEF v
<1>10. ASSUME NEW d \in Call, d # c PROVE Stays(w, v, d)
  <2>1. \A j \in Children(d) : v.edge[j] = w.edge[j] /\ (Told(v, j) => Told(w, j))
    BY <1>9, <1>10 DEF Children, Told, IsWarm
  <2>2. \A b \in w.bridge : ParentOf[b[1]] = d => b \in v.bridge
    BY <1>6, <1>9, <1>10
  <2>3. \A e : e.call = d => (e \in ToSet(v.staged) <=> e \in ToSet(w.staged))
    BY <1>4, <1>7, <1>9, <1>10
  <2> QED
    BY <1>9, <2>1, <2>2, <2>3 DEF Stays
<1>11. CASE w.edge[i] \in {"running", "cancelling"} /\ Live(w, c)
  <2> DEFINE s == MaybeSettle(v, c)
  <2>1. Touches(v, s, c) /\ (v.held[c] = "nothing" => s = v \/ Winds(v, s, c))
    BY <1>1, <1>9, SettleTouches
  <2>2. OnChildAck(w, i, o) = s
    BY <1>2, <1>11
  <2> HIDE DEF s
  <2>3. OwnFields(w, s) /\ s.staged = q
    BY <1>8, <1>9, <2>1 DEF Touches, OwnKept, OwnFields
  <2>4. \A d \in Call : d # c => Stays(w, s, d)
    BY <1>10, <2>1, StaysTwice DEF Touches
  <2>5. StagesOne(w, s, i, o)
    BY <1>4, <1>7, <1>11, <2>3 DEF StagesOne
  <2>6. ASSUME w.held[c] = "nothing", s = v, w.status[c] = "running" PROVE ComesBack(w, s, i)
    <3>1. (\E b \in w.bridge : b[1] = i) => \E e \in ToSet(s.staged) : e.call = c
      BY <1>4, <1>5, <1>7, <2>3
    <3>2. \A j \in Children(c) : Told(s, j) => Told(w, j)
      BY <1>9, <2>6 DEF Told
    <3> QED
      BY <1>6, <1>9, <1>11, <2>6, <3>1, <3>2 DEF ComesBack
  <2>7. w.status[c] # "awaitingAnswer" /\ w.status[c] # "none" /\ w.status[c] # "gone"
    BY <1>11 DEF Wound
  <2>8. \A j \in Children(c) : v.edge[j] \in {"running", "cancelling"} =>
                                  w.edge[j] \in {"running", "cancelling"}
    BY <1>9 DEF Children, IsWarm
  <2>9. ASSUME w.held[c] = "nothing", s = v, w.status[c] = "cancelling" PROVE Winds(w, s, c)
    BY <1>9, <2>8, <2>9 DEF Winds
  <2>10. ASSUME w.held[c] = "nothing", Winds(v, s, c) PROVE Winds(w, s, c)
    BY <1>9, <2>8, <2>10 DEF Winds
  <2>11. w.held[c] = "nothing" => Stays(w, s, c) \/ Winds(w, s, c) \/ ComesBack(w, s, i)
    BY <1>9, <1>11, <2>1, <2>6, <2>7, <2>9, <2>10 DEF Live
  <2> QED
    BY <2>2, <2>3, <2>4, <2>5, <2>11
<1>12. CASE ~(w.edge[i] \in {"running", "cancelling"} /\ Live(w, c))
  <2>1. w.edge[i] = "retired"
    BY <1>1, <1>12 DEF Wound, Live, IsWarm, Edges, Statuses
  <2>2. OnChildAck(w, i, o) = r
    BY <1>2, <1>12
  <2>3. OwnFields(w, r)
    BY DEF OwnFields, Fields, IsWarm
  <2>4. /\ r.status = w.status /\ r.held = w.held /\ r.mail = w.mail /\ r.bridge = w.bridge
        /\ r.staged = w.staged /\ r.edge = [w.edge EXCEPT ![i] = "retired"]
    BY DEF Fields, IsWarm
  <2> HIDE DEF r
  <2>5. \A j \in Inner : r.edge[j] = w.edge[j]
    BY <2>1, <2>4 DEF IsWarm
  <2>6. \A d \in Call : Stays(w, r, d)
    BY <2>4, <2>5 DEF Stays, Told, Children
  <2> QED
    BY <1>1, <2>2, <2>3, <2>4, <2>6 DEF StagesOne
<1> QED
  BY <1>11, <1>12

\* Core moves its own actors; of what it sends, only the end of an instance that
\* was told to stop says something to a child.
LEMMA CoreStays ==
  ASSUME NEW u, IsWarm(u), NEW t \in Letters, t.d \in Call \cup Inner,
         t.d \in Inner <=> t.k \in {"delegate", "terminate", "escalateAck"}
  PROVE  LET v == CoreReact(u, t)
         IN /\ OwnKept(u, v) /\ v.status = u.status /\ v.held = u.held /\ v.edge = u.edge
            /\ v.bridge = u.bridge
            /\ \A i \in Inner : Told(v, i) => Told(u, i) \/ t = Event("terminate", i, Own)
<1> DEFINE v == CoreReact(u, t)
<1>1. /\ t.k \in {"delegate", "delegateAck", "terminate", "terminateAck", "escalate", "escalateAck"}
      /\ t = Event(t.k, t.d, t.x)
      /\ t.d \in Inner /\ t.k = "terminate" => t.x = Own
  BY LetterFacts, OwnFacts DEF EventKind
<1>2. CASE t.k = "terminate"
  <2> DEFINE e == Event("terminateAck", t.d, Own)
  <2>1. e \in Letters
    BY <1>2, SomeLetters DEF EventKind
  <2> HIDE DEF e
  <2>2. v = [u EXCEPT !.callee[t.d] = "done", !.mail = Append(@, e)]
    BY <1>2 DEF CoreReact, Send, IsWarm, Fields, e
  <2> HIDE DEF v
  <2>3. /\ v.status = u.status /\ v.held = u.held /\ v.staged = u.staged
        /\ v.edge = u.edge /\ v.mail = Append(u.mail, e) /\ v.bridge = u.bridge
    BY <2>2 DEF IsWarm, Fields
  <2>4. OwnKept(u, v)
    BY <2>2, <2>3 DEF OwnKept, OwnFields, Fields, IsWarm
  <2>5. ASSUME NEW i \in Inner, Told(v, i), t # Event("terminate", i, Own) PROVE Told(u, i)
    <3>1. t.d # i
      BY <1>1, <1>2, <2>5
    <3>2. e \notin {Event("terminate", i, Own), Event("terminateAck", i, Own)}
      BY <3>1, EventFacts DEF e
    <3> QED
      BY <2>1, <2>3, <2>5, <3>2, ToldSend
  <2> QED
    BY <2>3, <2>4, <2>5 DEF v
<1>3. ASSUME NEW callee, NEW proxy, NEW asked, v = Peered(u, callee, proxy, asked)
      PROVE  /\ OwnKept(u, v) /\ v.status = u.status /\ v.held = u.held /\ v.edge = u.edge
             /\ v.bridge = u.bridge /\ \A i \in Inner : Told(v, i) => Told(u, i)
  <2> HIDE DEF v
  <2>1. /\ v.status = u.status /\ v.held = u.held /\ v.staged = u.staged
        /\ v.edge = u.edge /\ v.mail = u.mail /\ v.bridge = u.bridge
    BY <1>3 DEF Peered, IsWarm, Fields
  <2>2. OwnKept(u, v)
    BY <1>3, <2>1 DEF OwnKept, OwnFields, Peered, Fields, IsWarm
  <2> QED
    BY <2>1, <2>2 DEF Told
<1>4. CASE t.k # "terminate"
  <2>1. \E callee, proxy, asked : v = Peered(u, callee, proxy, asked)
    <3>1. CASE t.k = "delegate"
      <4>1. v = Peered(u, [u.callee EXCEPT ![t.d] = "running"], u.proxy, u.asked)
        BY <3>1 DEF CoreReact, Peered, IsWarm, Fields
      <4> QED
        BY <4>1
    <3>2. CASE t.k = "escalateAck"
      <4>1. v = Peered(u, [u.callee EXCEPT ![t.d] = IF @ = "asking" THEN "answered" ELSE @],
                       u.proxy, u.asked)
        BY <3>2 DEF CoreReact, Peered, IsWarm, Fields
      <4> QED
        BY <4>1
    <3>3. CASE t.k \in {"delegateAck", "terminateAck"}
      <4>1. v = Peered(u, u.callee, [u.proxy EXCEPT ![t.d] = "done"], u.asked)
        BY <3>3 DEF CoreReact, Peered, IsWarm, Fields
      <4> QED
        BY <4>1
    <3>4. CASE t.k = "escalate"
      <4>1. v = Peered(u, u.callee, u.proxy, IF u.proxy[t.d] = "calling"
                                             THEN u.asked \cup {<<t.d, t.x>>} ELSE u.asked)
        BY <3>4 DEF CoreReact, Peered, IsWarm, Fields
      <4> QED
        BY <4>1
    <3> HIDE DEF v
    <3> QED
      BY <1>1, <1>4, <3>1, <3>2, <3>3, <3>4
  <2> HIDE DEF v
  <2> QED
    BY <1>3, <2>1 DEF v
<1> QED
  BY <1>2, <1>4

\* Whoever the letter is for: what it makes of a call that holds no outcome.
LEMMA LettersLeave ==
  ASSUME NEW w, Consistent(w), w.mail # << >>, IsEvent(Head(w.mail)),
         IsFiniteSet(w.bridge), Staged(w)
  PROVE  LET t == Head(w.mail)
             v == IF ToReactor(t) THEN ReactorReact(Rest(w), t) ELSE CoreReact(Rest(w), t)
         IN /\ OwnFields(w, v)
            /\ \/ v.staged = w.staged
               \/ /\ t.d \in Inner /\ t.k \in {"delegateAck", "terminateAck"}
                  /\ t = Event(t.k, t.d, Own)
                  /\ StagesOne(w, v, t.d, IF t.k = "delegateAck" THEN "result" ELSE "cancelled")
            /\ \A c \in Call : w.held[c] = "nothing" =>
                 \/ Stays(w, v, c) \/ Winds(w, v, c)
                 \/ t = Event("delegate", c, Own) /\ v = OnDelegate(Rest(w), c)
                 \/ \E i \in Children(c) :
                      /\ t \in {Event("delegateAck", i, Own), Event("terminateAck", i, Own)}
                      /\ ComesBack(w, v, i)
<1> DEFINE t == Head(w.mail)
           u == Rest(w)
<1>1. t \in Letters /\ IsWarm(w) /\ IsWarm(u)
  BY TakeFacts, MailTake
<1>2. /\ t = Event(t.k, t.d, t.x)
      /\ \/ t.d \in Call \cup Inner /\ t.x = Own
         \/ t.x \in Inner /\ t.d = ParentOf[t.x] /\ t.d \in Call /\ t.k \in {"escalate", "escalateAck"}
      /\ t.k \in {"delegate", "delegateAck", "terminate", "terminateAck", "escalate", "escalateAck"}
  BY <1>1, LetterFacts DEF EventKind
<1>3. \A i \in Inner : i \notin Call
  BY OwnFacts
<1>4. /\ u.status = w.status /\ u.edge = w.edge /\ u.bridge = w.bridge /\ u.staged = w.staged
      /\ u.callee = w.callee /\ u.held = w.held
  BY <1>1, RestSame
<1>5. Has(w.mail, t)
  BY TakeFacts
<1>6. OwnKept(w, u) /\ \A c \in Call : Stays(w, u, c)
  BY <1>1, RestStays
<1>7. \A i : Told(u, i) => Told(w, i)
  BY <1>1, ToldRest
<1> HIDE DEF t, u
<1> DEFINE Leaves(v) ==
     /\ OwnFields(w, v)
     /\ \/ v.staged = w.staged
        \/ /\ t.d \in Inner /\ t.k \in {"delegateAck", "terminateAck"}
           /\ t = Event(t.k, t.d, Own)
           /\ StagesOne(w, v, t.d, IF t.k = "delegateAck" THEN "result" ELSE "cancelled")
     /\ \A c \in Call : w.held[c] = "nothing" =>
          \/ Stays(w, v, c) \/ Winds(w, v, c)
          \/ t = Event("delegate", c, Own) /\ v = OnDelegate(u, c)
          \/ \E i \in Children(c) :
               /\ t \in {Event("delegateAck", i, Own), Event("terminateAck", i, Own)}
               /\ ComesBack(w, v, i)
<1>8. \A v, c : c \in Call /\ Winds(u, v, c) => Winds(w, v, c)
  BY <1>4 DEF Winds
<1>9. ASSUME NEW v, NEW c \in Call, Touches(u, v, c),
             w.held[c] = "nothing" => Stays(u, v, c) \/ Winds(u, v, c)
      PROVE  Leaves(v)
  <2>1. OwnFields(w, v) /\ v.staged = w.staged
    BY <1>4, <1>6, <1>9 DEF Touches, OwnKept, OwnFields
  <2>2. \A d \in Call : w.held[d] = "nothing" => Stays(w, v, d) \/ Winds(w, v, d)
    BY <1>6, <1>8, <1>9, StaysTwice DEF Touches
  <2> QED
    BY <2>1, <2>2
<1>10. CASE ToReactor(t) /\ t.d \in Call
  <2>1. ASSUME t.k = "delegate" PROVE Leaves(ReactorReact(u, t))
    <3> DEFINE v == OnDelegate(u, t.d)
    <3>1. ReactorReact(u, t) = v
      BY <2>1 DEF ReactorReact
    <3>2. /\ OwnKept(u, v) /\ v.held = u.held /\ v.edge = u.edge /\ v.bridge = u.bridge
          /\ v.mail = u.mail /\ v.status = [u.status EXCEPT ![t.d] = "running"]
      BY <1>1 DEF OwnKept, OwnFields, OnDelegate, IsWarm, Fields
    <3>3. \A c \in Call : c # t.d => Stays(u, v, c)
      BY <1>1, <3>2 DEF Stays, Told, IsWarm, OwnKept
    <3>4. t = Event("delegate", t.d, Own)
      BY <1>2, <2>1
    <3>5. OwnFields(w, v) /\ v.staged = w.staged
      BY <1>4, <1>6, <3>2 DEF OwnKept, OwnFields
    <3> DEFINE z == v
    <3>6. z = OnDelegate(u, t.d)
      OBVIOUS
    <3>7. \A c \in Call : c # t.d => Stays(w, v, c)
      BY <1>6, <3>3, StaysTwice
    <3>8. ReactorReact(u, t) = z
      BY <3>1
    <3> HIDE DEF v
    <3>9. Leaves(z)
      BY <3>4, <3>5, <3>6, <3>7
    <3> QED
      BY <3>8, <3>9
  <2>2. ASSUME t.k = "terminate" PROVE Leaves(ReactorReact(u, t))
    <3>1. ReactorReact(u, t) = OnTerminate(u, t.d)
      BY <2>2 DEF ReactorReact
    <3> DEFINE v == OnTerminate(u, t.d)
    <3>2. Touches(u, v, t.d) /\ (u.held[t.d] = "nothing" => Stays(u, v, t.d) \/ Winds(u, v, t.d))
      BY <1>1, <1>10, TerminateTouches
    <3> HIDE DEF v, Leaves
    <3>3. Leaves(v)
      BY <1>4, <1>9, <1>10, <3>2
    <3> QED
      BY <3>1, <3>3 DEF v
  <2>3. ASSUME t.k = "escalateAck" PROVE Leaves(ReactorReact(u, t))
    <3>1. ReactorReact(u, t) = OnEscalateAck(u, t.d, t.x)
      BY <2>3 DEF ReactorReact
    <3> DEFINE v == OnEscalateAck(u, t.d, t.x)
    <3>2. Event("escalateAck", t.d, t.x) \in Letters
      BY <1>1, <1>2, <2>3
    <3>3. Touches(u, v, t.d) /\ (Stays(u, v, t.d) \/ Winds(u, v, t.d))
      BY <1>1, <1>10, <3>2, EscalateAckTouches
    <3> HIDE DEF v, Leaves
    <3>4. Leaves(v)
      BY <1>9, <1>10, <3>3
    <3> QED
      BY <3>1, <3>4 DEF v
  <2>4. Leaves(ReactorReact(u, t))
    BY <1>2, <1>10, <2>1, <2>2, <2>3 DEF ToReactor
  <2> QED
    BY <1>10, <2>4 DEF t, u
<1>11. CASE ToReactor(t) /\ t.d \in Inner
  <2>1. ASSUME t.k \in {"delegateAck", "terminateAck"} PROVE Leaves(ReactorReact(u, t))
    <3> DEFINE i == t.d
               o == IF t.k = "delegateAck" THEN "result" ELSE "cancelled"
               v == OnChildAck(u, i, o)
    <3>1. ReactorReact(u, t) = v
      BY <2>1 DEF ReactorReact
    <3>2. t = Event(t.k, i, Own) /\ i \in Inner
      BY <1>2, <1>3, <1>11, <2>1
    <3>3. u.edge[i] # "none" /\ IsFiniteSet(u.bridge) /\ Staged(u) /\ Wound(u, i)
      <4>1. Acked(w.mail, i)
        BY <1>5, <2>1, <3>2 DEF Acked
      <4>2. InnerOk(w, i) /\ Wound(w, i)
        BY <1>11 DEF Consistent
      <4> QED
        BY <1>4, <4>1, <4>2 DEF InnerOk, Wound, Staged
    <3> HIDE DEF o
    <3>4. /\ OwnFields(u, v) /\ (\A d \in Call : d # ParentOf[i] => Stays(u, v, d))
          /\ StagesOne(u, v, i, o)
          /\ u.held[ParentOf[i]] = "nothing" =>
               Stays(u, v, ParentOf[i]) \/ Winds(u, v, ParentOf[i]) \/ ComesBack(u, v, i)
      BY <1>1, <3>2, <3>3, ChildAckTouches
    <3> HIDE DEF v
    <3>5. OwnFields(w, v) /\ StagesOne(w, v, i, o)
      BY <1>4, <1>6, <3>4 DEF OwnFields, OwnKept, StagesOne
    <3>6. ComesBack(u, v, i) => ComesBack(w, v, i)
      BY <1>4, <1>7 DEF ComesBack
    <3>7. ASSUME NEW c \in Call, w.held[c] = "nothing"
          PROVE  \/ Stays(w, v, c) \/ Winds(w, v, c)
                 \/ \E j \in Children(c) :
                      /\ t \in {Event("delegateAck", j, Own), Event("terminateAck", j, Own)}
                      /\ ComesBack(w, v, j)
      <4>1. CASE c # ParentOf[i]
        BY <1>6, <3>4, <4>1, StaysTwice
      <4>2. CASE c = ParentOf[i]
        <5>1. i \in Children(c) /\ t \in {Event("delegateAck", i, Own), Event("terminateAck", i, Own)}
          BY <2>1, <3>2, <4>2 DEF Children
        <5>2. Stays(u, v, c) \/ Winds(u, v, c) \/ ComesBack(u, v, i)
          BY <1>4, <3>4, <3>7, <4>2
        <5> QED
          BY <1>6, <1>8, <3>6, <5>1, <5>2, StaysTwice
      <4> QED
        BY <4>1, <4>2
    <3>8. Leaves(v)
      BY <2>1, <3>2, <3>5, <3>7 DEF o
    <3> HIDE DEF Leaves
    <3> QED
      BY <3>1, <3>8
  <2>2. ASSUME t.k = "escalate" PROVE Leaves(ReactorReact(u, t))
    <3>1. ReactorReact(u, t) = OnEscalate(u, t.d)
      BY <2>2 DEF ReactorReact
    <3> DEFINE v == OnEscalate(u, t.d)
    <3>2. OwnKept(u, v) /\ \A d \in Call : Stays(u, v, d)
      BY <1>1, <1>11, EscalateStays
    <3>3. ParentOf[t.d] \in Call
      BY <1>11, SomeLetters
    <3> HIDE DEF v, Leaves
    <3>4. Leaves(v)
      BY <1>9, <3>2, <3>3 DEF Touches
    <3> QED
      BY <3>1, <3>4 DEF v
  <2>3. Leaves(ReactorReact(u, t))
    BY <1>2, <1>3, <1>11, <2>1, <2>2 DEF ToReactor
  <2> QED
    BY <1>11, <2>3 DEF t, u
<1>12. CASE ~ToReactor(t)
  <2> DEFINE v == CoreReact(u, t)
  <2>1. t.d \in Call \cup Inner
    BY <1>2
  <2>2. t.d \in Inner <=> t.k \in {"delegate", "terminate", "escalateAck"}
    BY <1>3, <1>12, <2>1 DEF ToReactor
  <2>3. /\ OwnKept(u, v) /\ v.status = u.status /\ v.held = u.held /\ v.edge = u.edge
        /\ v.bridge = u.bridge
        /\ \A i \in Inner : Told(v, i) => Told(u, i) \/ t = Event("terminate", i, Own)
    BY <1>1, <2>1, <2>2, CoreStays
  <2> HIDE DEF v
  <2>4. \A i \in Inner : Told(v, i) => Told(w, i)
    BY <1>5, <1>7, <2>3 DEF Told
  <2>5. \A c \in Call : Stays(w, v, c)
    BY <1>4, <2>3, <2>4 DEF Stays, Children, OwnKept
  <2>6. OwnFields(w, v) /\ v.staged = w.staged
    BY <1>4, <1>6, <2>3 DEF OwnKept, OwnFields
  <2>7. Leaves(v)
    BY <2>5, <2>6
  <2> QED
    BY <1>12, <2>7 DEF t, u, v
<1> QED
  BY <1>2, <1>10, <1>11, <1>12 DEF t
=============================================================================
