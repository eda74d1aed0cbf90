--------------------------- MODULE SequenceLemmas ---------------------------
(* Sequences, the set of their elements and the absence of duplicates.     *)
EXTENDS Naturals, SequencesExt, TLAPS

LEMMA ToSetAppend ==
  ASSUME NEW S, NEW s \in Seq(S), NEW x \in S
  PROVE  /\ Append(s, x) \in Seq(S)
         /\ ToSet(Append(s, x)) = ToSet(s) \cup {x}
<1>1. DOMAIN Append(s, x) = 1..(Len(s) + 1)
  OBVIOUS
<1>2. \A i \in 1..Len(s) : Append(s, x)[i] = s[i]
  OBVIOUS
<1>3. Append(s, x)[Len(s) + 1] = x
  OBVIOUS
<1>4. DOMAIN s = 1..Len(s)
  OBVIOUS
<1> QED
  BY <1>1, <1>2, <1>3, <1>4 DEF ToSet

LEMMA ToSetConcat ==
  ASSUME NEW S, NEW s \in Seq(S), NEW u \in Seq(S)
  PROVE  /\ s \o u \in Seq(S)
         /\ ToSet(s \o u) = ToSet(s) \cup ToSet(u)
<1>1. DOMAIN (s \o u) = 1..(Len(s) + Len(u))
  OBVIOUS
<1>2. \A i \in 1..Len(s) : (s \o u)[i] = s[i]
  OBVIOUS
<1>3. \A i \in 1..Len(u) : (s \o u)[Len(s) + i] = u[i]
  OBVIOUS
<1>4. DOMAIN s = 1..Len(s) /\ DOMAIN u = 1..Len(u)
  OBVIOUS
<1>5. \A i \in DOMAIN (s \o u) : i \in 1..Len(s) \/ \E j \in 1..Len(u) : i = Len(s) + j
  <2> SUFFICES ASSUME NEW i \in DOMAIN (s \o u), i \notin 1..Len(s)
               PROVE  \E j \in 1..Len(u) : i = Len(s) + j
    OBVIOUS
  <2>1. i - Len(s) \in 1..Len(u) /\ i = Len(s) + (i - Len(s))
    BY <1>1
  <2> QED
    BY <2>1
<1>6. ToSet(s \o u) \subseteq ToSet(s) \cup ToSet(u)
  BY <1>2, <1>3, <1>4, <1>5 DEF ToSet
<1>7. ToSet(s) \subseteq ToSet(s \o u)
  BY <1>1, <1>2, <1>4 DEF ToSet
<1>8. ToSet(u) \subseteq ToSet(s \o u)
  <2> SUFFICES ASSUME NEW j \in 1..Len(u)
               PROVE  u[j] \in ToSet(s \o u)
    BY <1>4 DEF ToSet
  <2>1. Len(s) + j \in 1..(Len(s) + Len(u))
    OBVIOUS
  <2> QED
    BY <2>1, <1>1, <1>3 DEF ToSet
<1> QED
  BY <1>6, <1>7, <1>8

LEMMA ToSetHeadTail ==
  ASSUME NEW S, NEW s \in Seq(S), s # << >>
  PROVE  /\ Head(s) \in S /\ Tail(s) \in Seq(S)
         /\ Head(s) \in ToSet(s)
         /\ ToSet(s) = {Head(s)} \cup ToSet(Tail(s))
<1>1. Len(s) > 0 /\ DOMAIN s = 1..Len(s) /\ Head(s) = s[1]
  OBVIOUS
<1>2. Tail(s) \in Seq(S) /\ DOMAIN Tail(s) = 1..(Len(s) - 1)
  OBVIOUS
<1>3. \A i \in 1..(Len(s) - 1) : Tail(s)[i] = s[i + 1]
  OBVIOUS
<1>4. \A i \in 1..Len(s) : i = 1 \/ \E j \in 1..(Len(s) - 1) : i = j + 1
  <2> SUFFICES ASSUME NEW i \in 1..Len(s), i # 1
               PROVE  \E j \in 1..(Len(s) - 1) : i = j + 1
    OBVIOUS
  <2>1. i - 1 \in 1..(Len(s) - 1) /\ i = (i - 1) + 1
    OBVIOUS
  <2> QED
    BY <2>1
<1>5. \A j \in 1..(Len(s) - 1) : j + 1 \in 1..Len(s)
  OBVIOUS
<1>6. ToSet(s) \subseteq {Head(s)} \cup ToSet(Tail(s))
  <2> SUFFICES ASSUME NEW i \in 1..Len(s), i # 1
               PROVE  s[i] \in ToSet(Tail(s))
    BY <1>1 DEF ToSet
  <2>1. PICK j \in 1..(Len(s) - 1) : i = j + 1
    BY <1>4
  <2>2. s[i] = Tail(s)[j]
    BY <2>1, <1>3
  <2> QED
    BY <2>2, <1>2 DEF ToSet
<1>7. ToSet(Tail(s)) \subseteq ToSet(s)
  <2> SUFFICES ASSUME NEW j \in 1..(Len(s) - 1)
               PROVE  Tail(s)[j] \in ToSet(s)
    BY <1>2 DEF ToSet
  <2> QED
    BY <1>1, <1>3, <1>5 DEF ToSet
<1>8. Head(s) \in S /\ Head(s) \in ToSet(s)
  BY <1>1 DEF ToSet
<1> QED
  BY <1>2, <1>6, <1>7, <1>8

LEMMA InjectiveAppend ==
  ASSUME NEW S, NEW s \in Seq(S), NEW x \in S, IsInjective(s), x \notin ToSet(s)
  PROVE  IsInjective(Append(s, x))
<1>1. DOMAIN Append(s, x) = 1..(Len(s) + 1) /\ DOMAIN s = 1..Len(s)
  OBVIOUS
<1>2. \A i \in 1..Len(s) : Append(s, x)[i] = s[i]
  OBVIOUS
<1>3. Append(s, x)[Len(s) + 1] = x
  OBVIOUS
<1> QED
  BY <1>1, <1>2, <1>3 DEF IsInjective, ToSet

LEMMA InjectiveConcat ==
  ASSUME NEW S, NEW s \in Seq(S), NEW u \in Seq(S), IsInjective(s), IsInjective(u),
         ToSet(s) \cap ToSet(u) = {}
  PROVE  IsInjective(s \o u)
<1>1. DOMAIN (s \o u) = 1..(Len(s) + Len(u)) /\ DOMAIN s = 1..Len(s) /\ DOMAIN u = 1..Len(u)
  OBVIOUS
<1>2. \A i \in 1..Len(s) : (s \o u)[i] = s[i]
  OBVIOUS
<1>3. \A i \in 1..(Len(s) + Len(u)) : i \notin 1..Len(s) =>
        i - Len(s) \in 1..Len(u) /\ (s \o u)[i] = u[i - Len(s)]
  OBVIOUS
<1> SUFFICES ASSUME NEW i \in DOMAIN (s \o u), NEW j \in DOMAIN (s \o u),
                    (s \o u)[i] = (s \o u)[j]
             PROVE  i = j
  BY DEF IsInjective
<1>4. CASE i \in 1..Len(s) /\ j \in 1..Len(s)
  BY <1>1, <1>2, <1>4 DEF IsInjective
<1>5. CASE i \notin 1..Len(s) /\ j \notin 1..Len(s)
  <2>1. i - Len(s) = j - Len(s)
    BY <1>1, <1>3, <1>5 DEF IsInjective
  <2> QED
    BY <2>1, <1>1
<1>6. CASE i \in 1..Len(s) /\ j \notin 1..Len(s)
  BY <1>1, <1>2, <1>3, <1>6 DEF ToSet
<1>7. CASE i \notin 1..Len(s) /\ j \in 1..Len(s)
  BY <1>1, <1>2, <1>3, <1>7 DEF ToSet
<1> QED
  BY <1>4, <1>5, <1>6, <1>7

LEMMA ToSetEmpty == ToSet(<< >>) = {} /\ IsInjective(<< >>)
BY DEF ToSet, IsInjective
-----------------------------------------------------------------------------
(* What a sequence holds, and in which order.                              *)

Has(L, e) == \E n \in DOMAIN L : L[n] = e
Precedes(L, e, f) == \E m, n \in DOMAIN L : m < n /\ L[m] = e /\ L[n] = f

LEMMA OrderEmpty == \A x, y : ~Has(<< >>, x) /\ ~Precedes(<< >>, x, y)
BY DEF Has, Precedes

LEMMA OrderConcat ==
  ASSUME NEW S, NEW s \in Seq(S), NEW u \in Seq(S), NEW x, NEW y
  PROVE  /\ Has(s \o u, x) <=> Has(s, x) \/ Has(u, x)
         /\ Precedes(s \o u, x, y) <=>
              Precedes(s, x, y) \/ Precedes(u, x, y) \/ (Has(s, x) /\ Has(u, y))
<1> DEFINE L == s \o u
<1>1. /\ DOMAIN L = 1..(Len(s) + Len(u)) /\ DOMAIN s = 1..Len(s) /\ DOMAIN u = 1..Len(u)
      /\ Len(s) \in Nat /\ Len(u) \in Nat
  OBVIOUS
<1>2. \A n \in DOMAIN s : n \in DOMAIN L /\ L[n] = s[n]
  OBVIOUS
<1>3. \A n \in DOMAIN u : n + Len(s) \in DOMAIN L /\ L[n + Len(s)] = u[n]
  OBVIOUS
<1>4. \A n \in DOMAIN L : n \notin DOMAIN s => n - Len(s) \in DOMAIN u /\ L[n] = u[n - Len(s)]
  OBVIOUS
<1> HIDE DEF L
<1>5. Has(L, x) <=> Has(s, x) \/ Has(u, x)
  BY <1>1, <1>2, <1>3, <1>4 DEF Has
<1>6. ASSUME Precedes(L, x, y)
      PROVE  Precedes(s, x, y) \/ Precedes(u, x, y) \/ (Has(s, x) /\ Has(u, y))
  <2>1. PICK m, n \in DOMAIN L : m < n /\ L[m] = x /\ L[n] = y
    BY <1>6 DEF Precedes
  <2>2. CASE n \in DOMAIN s
    BY <1>1, <1>2, <2>1, <2>2 DEF Precedes
  <2>3. CASE n \notin DOMAIN s /\ m \in DOMAIN s
    BY <1>1, <1>2, <1>4, <2>1, <2>3 DEF Has
  <2>4. CASE n \notin DOMAIN s /\ m \notin DOMAIN s
    <3>1. m - Len(s) \in DOMAIN u /\ n - Len(s) \in DOMAIN u /\ m - Len(s) < n - Len(s)
          /\ u[m - Len(s)] = x /\ u[n - Len(s)] = y
      BY <1>1, <1>4, <2>1, <2>4
    <3> QED
      BY <3>1 DEF Precedes
  <2> QED
    BY <2>2, <2>3, <2>4
<1>7. Precedes(s, x, y) => Precedes(L, x, y)
  BY <1>2 DEF Precedes
<1>8. Precedes(u, x, y) => Precedes(L, x, y)
  <2> SUFFICES ASSUME NEW m \in DOMAIN u, NEW n \in DOMAIN u, m < n, u[m] = x, u[n] = y
               PROVE  Precedes(L, x, y)
    BY DEF Precedes
  <2>1. m + Len(s) < n + Len(s)
    BY <1>1
  <2> QED
    BY <1>3, <2>1 DEF Precedes
<1>9. Has(s, x) /\ Has(u, y) => Precedes(L, x, y)
  <2> SUFFICES ASSUME NEW m \in DOMAIN s, NEW n \in DOMAIN u, s[m] = x, u[n] = y
               PROVE  Precedes(L, x, y)
    BY DEF Has
  <2>1. m < n + Len(s)
    BY <1>1
  <2> QED
    BY <1>2, <1>3, <2>1 DEF Precedes
<1> QED
  BY <1>5, <1>6, <1>7, <1>8, <1>9 DEF L

LEMMA OrderOne == ASSUME NEW e, NEW x, NEW y PROVE (Has(<<e>>, x) <=> x = e) /\ ~Precedes(<<e>>, x, y)
<1>1. DOMAIN <<e>> = {1} /\ <<e>>[1] = e
  OBVIOUS
<1> QED
  BY <1>1 DEF Has, Precedes

LEMMA OrderAppend ==
  ASSUME NEW S, NEW s \in Seq(S), NEW e \in S, NEW x, NEW y
  PROVE  /\ Has(Append(s, e), x) <=> Has(s, x) \/ x = e
         /\ Precedes(Append(s, e), x, y) <=> Precedes(s, x, y) \/ (Has(s, x) /\ y = e)
<1> DEFINE L == Append(s, e)
<1>1. /\ DOMAIN L = 1..(Len(s) + 1) /\ DOMAIN s = 1..Len(s) /\ Len(s) \in Nat
      /\ L[Len(s) + 1] = e
  OBVIOUS
<1>2. \A n \in DOMAIN s : n \in DOMAIN L /\ L[n] = s[n]
  OBVIOUS
<1> HIDE DEF L
<1>3. \A n \in DOMAIN L : n \notin DOMAIN s => n = Len(s) + 1
  BY <1>1
<1>4. Has(L, x) <=> Has(s, x) \/ x = e
  BY <1>1, <1>2, <1>3 DEF Has
<1>5. Precedes(L, x, y) => Precedes(s, x, y) \/ (Has(s, x) /\ y = e)
  BY <1>1, <1>2, <1>3 DEF Has, Precedes
<1>6. Precedes(s, x, y) \/ (Has(s, x) /\ y = e) => Precedes(L, x, y)
  BY <1>1, <1>2 DEF Has, Precedes
<1> QED
  BY <1>4, <1>5, <1>6 DEF L

LEMMA OrderTail ==
  ASSUME NEW S, NEW s \in Seq(S), s # << >>, NEW x, NEW y
  PROVE  /\ Has(s, x) <=> x = s[1] \/ Has(Tail(s), x)
         /\ Precedes(s, x, y) <=> (x = s[1] /\ Has(Tail(s), y)) \/ Precedes(Tail(s), x, y)
<1> DEFINE L == Tail(s)
<1>1. /\ DOMAIN L = 1..(Len(s) - 1) /\ DOMAIN s = 1..Len(s) /\ Len(s) \in Nat \ {0}
      /\ \A n \in DOMAIN L : n + 1 \in DOMAIN s /\ L[n] = s[n + 1]
  OBVIOUS
<1> HIDE DEF L
<1>2. \A n \in DOMAIN s : n = 1 \/ (n - 1 \in DOMAIN L /\ L[n - 1] = s[n])
  BY <1>1
<1>3. Has(s, x) <=> x = s[1] \/ Has(L, x)
  BY <1>1, <1>2 DEF Has
<1>4. ASSUME Precedes(s, x, y)
      PROVE  (x = s[1] /\ Has(L, y)) \/ Precedes(L, x, y)
  <2>1. PICK m, n \in DOMAIN s : m < n /\ s[m] = x /\ s[n] = y
    BY <1>4 DEF Precedes
  <2>2. n - 1 \in DOMAIN L /\ L[n - 1] = y
    BY <1>1, <1>2, <2>1
  <2>3. CASE m = 1
    BY <2>1, <2>2, <2>3 DEF Has
  <2>4. CASE m # 1
    <3>1. m - 1 \in DOMAIN L /\ L[m - 1] = x /\ m - 1 < n - 1
      BY <1>1, <1>2, <2>1, <2>4
    <3> QED
      BY <2>2, <3>1 DEF Precedes
  <2> QED
    BY <2>3, <2>4
<1>5. x = s[1] /\ Has(L, y) => Precedes(s, x, y)
  <2> SUFFICES ASSUME x = s[1], NEW n \in DOMAIN L, L[n] = y
               PROVE  Precedes(s, x, y)
    BY DEF Has
  <2>1. 1 \in DOMAIN s /\ n + 1 \in DOMAIN s /\ 1 < n + 1 /\ s[n + 1] = y
    BY <1>1
  <2> QED
    BY <2>1 DEF Precedes
<1>6. Precedes(L, x, y) => Precedes(s, x, y)
  <2> SUFFICES ASSUME NEW m \in DOMAIN L, NEW n \in DOMAIN L, m < n, L[m] = x, L[n] = y
               PROVE  Precedes(s, x, y)
    BY DEF Precedes
  <2>1. m + 1 \in DOMAIN s /\ n + 1 \in DOMAIN s /\ m + 1 < n + 1 /\ s[m + 1] = x /\ s[n + 1] = y
    BY <1>1
  <2> QED
    BY <2>1 DEF Precedes
<1> QED
  BY <1>3, <1>4, <1>5, <1>6 DEF L

LEMMA OrderHas == ASSUME NEW L, NEW x, NEW y, Precedes(L, x, y) PROVE Has(L, x) /\ Has(L, y)
BY DEF Has, Precedes
\* Whoever is f in L has an e before it.
Leads(L, e, f) == \A n \in DOMAIN L : L[n] = f => \E m \in DOMAIN L : m < n /\ L[m] = e

LEMMA LeadsHas == ASSUME NEW L, NEW e, NEW f, Leads(L, e, f), Has(L, f) PROVE Has(L, e)
BY DEF Leads, Has

LEMMA LeadsAppend ==
  ASSUME NEW S, NEW s \in Seq(S), NEW z \in S, NEW x, NEW y, Leads(s, x, y), z = y => Has(s, x)
  PROVE  Leads(Append(s, z), x, y)
<1> DEFINE L == Append(s, z)
<1>1. /\ DOMAIN L = 1..(Len(s) + 1) /\ DOMAIN s = 1..Len(s) /\ Len(s) \in Nat
      /\ L[Len(s) + 1] = z
      /\ \A n \in DOMAIN s : L[n] = s[n]
  OBVIOUS
<1> HIDE DEF L
<1>2. ASSUME NEW n \in DOMAIN L, L[n] = y PROVE \E m \in DOMAIN L : m < n /\ L[m] = x
  <2>1. CASE n \in DOMAIN s
    BY <1>1, <1>2, <2>1 DEF Leads
  <2>2. CASE n = Len(s) + 1
    <3>1. PICK m \in DOMAIN s : s[m] = x
      BY <1>1, <1>2, <2>2 DEF Has
    <3> QED
      BY <1>1, <2>2, <3>1
  <2> QED
    BY <1>1, <2>1, <2>2
<1> QED
  BY <1>2 DEF Leads, L

LEMMA LeadsTail ==
  ASSUME NEW S, NEW s \in Seq(S), s # << >>, NEW x, NEW y, Leads(s, x, y)
  PROVE  s[1] # y /\ (s[1] # x => Leads(Tail(s), x, y))
<1> DEFINE L == Tail(s)
<1>1. /\ DOMAIN L = 1..(Len(s) - 1) /\ DOMAIN s = 1..Len(s) /\ Len(s) \in Nat \ {0}
      /\ \A n \in DOMAIN L : n + 1 \in DOMAIN s /\ L[n] = s[n + 1]
  OBVIOUS
<1> HIDE DEF L
<1>2. s[1] # y
  <2>1. \A m \in DOMAIN s : ~(m < 1)
    BY <1>1
  <2> QED
    BY <1>1, <2>1 DEF Leads
<1>3. ASSUME s[1] # x, NEW n \in DOMAIN L, L[n] = y PROVE \E m \in DOMAIN L : m < n /\ L[m] = x
  <2>1. PICK m \in DOMAIN s : m < n + 1 /\ s[m] = x
    BY <1>1, <1>3 DEF Leads
  <2>2. m # 1 /\ m \in 1..Len(s) /\ n \in 1..(Len(s) - 1)
    BY <1>1, <1>3, <2>1
  <2>3. m - 1 \in DOMAIN L /\ m - 1 < n /\ (m - 1) + 1 = m
    BY <1>1, <2>1, <2>2
  <2>4. L[m - 1] = x
    BY <1>1, <2>1, <2>3
  <2> QED
    BY <2>3, <2>4
<1> QED
  BY <1>2, <1>3 DEF Leads, L

LEMMA LeadsConcat ==
  ASSUME NEW S, NEW s \in Seq(S), NEW u \in Seq(S), NEW x, NEW y,
         Leads(s, x, y), Leads(u, x, y)
  PROVE  Leads(s \o u, x, y)
<1> DEFINE L == s \o u
<1>1. /\ DOMAIN L = 1..(Len(s) + Len(u)) /\ DOMAIN s = 1..Len(s) /\ DOMAIN u = 1..Len(u)
      /\ Len(s) \in Nat /\ Len(u) \in Nat
      /\ \A n \in DOMAIN s : L[n] = s[n]
      /\ \A n \in DOMAIN u : n + Len(s) \in DOMAIN L /\ L[n + Len(s)] = u[n]
  OBVIOUS
<1> HIDE DEF L
<1>2. ASSUME NEW n \in DOMAIN L, L[n] = y PROVE \E m \in DOMAIN L : m < n /\ L[m] = x
  <2>1. CASE n \in DOMAIN s
    BY <1>1, <1>2, <2>1 DEF Leads
  <2>2. CASE n \notin DOMAIN s
    <3>1. n - Len(s) \in DOMAIN u /\ (n - Len(s)) + Len(s) = n
      BY <1>1, <2>2
    <3>2. PICK m \in DOMAIN u : m < n - Len(s) /\ u[m] = x
      BY <1>1, <1>2, <3>1 DEF Leads
    <3>3. m + Len(s) \in DOMAIN L /\ L[m + Len(s)] = x /\ m + Len(s) < n
      BY <1>1, <3>1, <3>2
    <3> QED
      BY <3>3
  <2> QED
    BY <2>1, <2>2
<1> QED
  BY <1>2 DEF Leads, L
=============================================================================
