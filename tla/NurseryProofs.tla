--------------------------- MODULE NurseryProofs ----------------------------
(***************************************************************************)
(* The inductive invariant of a nursery, and its lemmas: what RInv says,   *)
(* what each operation of the reactor does to the record of a nursery, and *)
(* that the turns of the events of the bus keep the invariant.             *)
(***************************************************************************)
EXTENDS Region, CallReactorProofs

-----------------------------------------------------------------------------
(* The lifecycle as CallReactorProofs knows it: what a fiber asks, and what *)
(* becomes of it, is a matter of this reactor.                             *)

Asking == {"escalate", "escalateAck"}

\* What is said under a name is silent.
Hushed(t) ==
  IF t.k \in Asking /\ (t.d \in Inner \/ t.x # Own) THEN Work("silent", t.d) ELSE t

Simple(s) == IF s \in {"asking", "answered", "failed"} THEN "running" ELSE s

Plain(w) ==
  [w EXCEPT !.relays = {}, !.asked = {},
            !.callee = [i \in Inner |-> Simple(w.callee[i])],
            !.mail = [n \in DOMAIN w.mail |-> Hushed(w.mail[n])]]

-----------------------------------------------------------------------------
(* The invariant.                                                          *)

RegionFields == {"mailbox", "names", "unstarted", "open", "running", "watches", "waiter", "told",
                 "arrived", "emitted"}

Failure(i) == [Event("escalate", i, Own) EXCEPT !.o = "failure"]

\* What is said about asks: under a call, or by the instance of a delegation.
Speeches == {Event(k, c, x) : k \in Asking, c \in Call, x \in Asks \cup {Own}}
              \cup {Event(k, i, Own) : k \in Asking, i \in Inner}
              \cup {Failure(i) : i \in Fiber}

Answers == {None, "unknown_fiber", "cancelled"}

IsNursery(w) ==
  /\ w = [f \in DOMAIN w |-> w[f]] /\ DOMAIN w = Fields \cup RegionFields
  /\ w.mail \in Seq(ToSet(w.mail)) /\ \A t \in ToSet(w.mail) : t.k \in Asking => t \in Speeches
  /\ w.callee \in [Inner -> Callees \cup {"failed"}]
  /\ w.relays \subseteq Call \X Asks /\ w.asked \subseteq Call \X (Asks \cup {Own})
  /\ w.mailbox \in Seq(Asks) /\ w.arrived \in Seq(Asks) /\ w.emitted \in Seq(Asks)
  /\ w.watches \in Seq(Watch) /\ w.waiter \in [Fiber -> Cancel \cup {None}]
  /\ w.told \in [Cancel -> Answers] /\ w.running \subseteq Fiber
  /\ w.unstarted \in BOOLEAN /\ w.open \in BOOLEAN

Alive(w, i) == w.edge[i] \in {"running", "cancelling"}

\* A bridge stands for each delegation that is open.
Bridged(w) ==
  /\ \A b \in w.bridge : \E i \in Inner : b = <<i, i>>
  /\ \A i \in Inner : <<i, i>> \in w.bridge <=> Alive(w, i)

\* A fork is used up when its fiber is there; a cancel addresses what a fork named.
Named(w) ==
  /\ w.unstarted => w.edge[Continuation] = "none"
  /\ \A c \in Call : c # Provide /\ w.proxy[c] # "idle" => w.edge[Continuation] # "none"
  /\ \A f \in Fork : w.edge[FiberOf[f]] # "none" => w.status[f] = "gone"
  /\ \A k \in Cancel : w.proxy[k] # "idle" =>
       \E f \in Fork : FiberOf[f] = Target[k] /\ w.proxy[f] = "done"

Truthful(w) ==
  \A k \in Cancel : w.told[k] # None => w.status[k] # "none" /\ w.edge[Target[k]] # "running"

\* Only the provide has children to wait for; what winds down was told to.
Childless(w) ==
  \A c \in Call : /\ c # Provide => w.held[c] = "nothing"
                  /\ w.status[c] = "cancelling" => w.proxy[c] \in {"cancelling", "done"}

\* What came in is waiting or was raised again, in its place.
InPlace(w) ==
  /\ \A x \in ToSet(w.arrived) : \E i \in Fiber : x \in {i, -i} /\ w.edge[i] # "none"
  /\ \A x \in ToSet(w.mailbox) \cup ToSet(w.emitted) : x \in ToSet(w.arrived)
  /\ \A i \in Fiber : -i \in ToSet(w.arrived) => -i \in ToSet(w.mailbox) \cup ToSet(w.emitted)
  /\ \A x, y \in Asks : Precedes(w.emitted \o w.mailbox, x, y) => Precedes(w.arrived, x, y)

\* While the provide runs no watch has failed; what a watch raised dies with it.
Watching(w, v) == w.status[v] \in {"running", "cancelling"}

Raising(w) ==
  /\ w.status[Provide] = "running" => \A v \in Watch : w.status[v] # "awaitingAnswer"
  /\ \A a \in w.relays : a[1] \in Watch => Live(w, a[1])

Raised(w, i, v) ==
  /\ Has(w.emitted, i)
  /\ \/ w.proxy[v] \in {"cancelling", "done"}
     \/ <<v, i>> \in w.relays /\ (<<v, i>> \in w.asked \/ \E t \in Asking : Has(w.mail, Event(t, v, i)))

Heard(w, i) ==
  \/ \E t \in Asking : Has(w.mail, Event(t, i, Own))
  \/ Has(w.mailbox, i)
  \/ \E v \in Watch : Raised(w, i, v)

AsksKept(w) == \A i \in Fiber : w.callee[i] = "asking" /\ w.edge[i] = "running" => Heard(w, i)

Tended(w) == Bridged(w) /\ Named(w) /\ Truthful(w) /\ Childless(w) /\ InPlace(w) /\ Raising(w)

\* True of what is committed and of what memory holds.
Kept(w) == IsNursery(w) /\ Consistent(Plain(w)) /\ Tended(w) /\ AsksKept(w)

\* The routing agrees with the rows.
Routed(w) ==
  /\ w.open => /\ Live(w, Provide)
               /\ \A i \in Fiber : Alive(w, i) <=> i \in w.running /\ w.edge[i] # "retired"
  /\ w.status[Provide] = "running" /\ ~w.open => \A i \in Inner : w.edge[i] = "none"
  /\ \A i \in Fiber : w.waiter[i] # None =>
       Target[w.waiter[i]] = i /\ Live(w, w.waiter[i]) /\ w.edge[i] \in {"cancelling", "retired"}
  /\ \A v \in ToSet(w.watches) : Live(w, v)
  /\ ~w.open => w.running = {}

Due(w) ==
  w.open /\ w.mailbox # << >> /\ (\E v \in ToSet(w.watches) : Relays(w, v)) =>
    Has(w.mail, Work("pump", Provide))

\* What waits for the transport is the outcome of a delegation that ended.
StagedOk(w) ==
  /\ w.staged \in Seq(ToSet(w.staged))
  /\ \A s \in ToSet(w.staged) : s.inner \in Inner /\ w.edge[s.inner] = "retired" /\ s.outcome \in Outcomes

\* What the reactor scheduled for itself.
Originated(w, t) ==
  \/ t = Work("pump", Provide)
  \/ \E c \in Call : /\ t = Work("start", c) /\ w.status[c] # "none"
                     /\ c = Provide /\ w.status[c] = "running" => w.open
  \/ \E c \in Call, o \in Outcomes :
       t = Completion(c, o) /\ (c # Provide => w.status[c] \in {"cancelling", "gone"})
  \/ \E i \in Fiber : t = Work("retire", i) /\ w.edge[i] = "retired"

WorkOk(w) == (\A t \in ToSet(w.mail) : ~IsEvent(t) => Originated(w, t)) /\ StagedOk(w)

\* The batch: a provide that was delegated in it has not begun.
BatchOk(w, batch) ==
  /\ batch \in Seq(ToSet(batch))
  /\ \A t \in ToSet(batch) : t.k \in {"delegate", "terminate"} => t.d \in Call
  /\ \A t \in ToSet(batch) : t.k = "delegate" => t = Event("delegate", t.d, Own)
  /\ Event("delegate", Provide, Own) \in ToSet(batch) =>
       /\ ~w.open /\ \A i \in Inner : w.edge[i] = "none"
       /\ ~Has(w.mail, Work("start", Provide))

Committed(w) ==
  /\ ~w.open /\ w.running = {} /\ w.watches = << >> /\ w.staged = << >>
  /\ (\A i \in Fiber : w.waiter[i] = None) /\ (\A c \in Call : w.held[c] = "nothing")
  /\ \A t \in ToSet(w.mail) : IsEvent(t)

\* What memory adds.
Runs(w) == Routed(w) /\ Due(w) /\ WorkOk(w)

RInv ==
  /\ phase \in {"down", "idle", "batch", "post"} /\ plan \in Plans
  /\ Kept(rows) /\ Committed(rows)
  /\ phase = "down" => warm = [rows EXCEPT !.mail = << >>] /\ after = << >>
  /\ phase # "down" => Kept(warm) /\ Runs(warm) /\ BatchOk(warm, after)

-----------------------------------------------------------------------------
(* Records.                                                                *)

\* A state, whatever is in its fields.
IsRecord(w) == w = [f \in DOMAIN w |-> w[f]] /\ Fields \subseteq DOMAIN w

LEMMA SameRecord ==
  ASSUME NEW u, NEW v, IsRecord(u), IsRecord(v), DOMAIN u = DOMAIN v,
         \A f \in DOMAIN u : u[f] = v[f]
  PROVE  u = v
BY DEF IsRecord

LEMMA NurseryRecord == ASSUME NEW w, IsNursery(w) PROVE IsRecord(w)
BY DEF IsNursery, IsRecord

LEMMA PlainFacts ==
  ASSUME NEW w, IsRecord(w)
  PROVE  LET v == Plain(w)
         IN /\ IsRecord(v) /\ DOMAIN v = DOMAIN w
            /\ v.relays = {} /\ v.asked = {}
            /\ v.callee = [i \in Inner |-> Simple(w.callee[i])]
            /\ v.mail = [n \in DOMAIN w.mail |-> Hushed(w.mail[n])]
            /\ \A f \in DOMAIN w \ {"relays", "asked", "callee", "mail"} : v[f] = w[f]
            /\ v.status = w.status /\ v.settled = w.settled /\ v.held = w.held
            /\ v.edge = w.edge /\ v.bridge = w.bridge /\ v.staged = w.staged
            /\ v.raised = w.raised /\ v.proxy = w.proxy
BY DEF IsRecord, Plain, Fields

\* Whoever has the fields of the plain state is it.
LEMMA PlainIs ==
  ASSUME NEW w, IsRecord(w), NEW v, IsRecord(v), DOMAIN v = DOMAIN w,
         v.relays = {}, v.asked = {},
         v.callee = [i \in Inner |-> Simple(w.callee[i])],
         v.mail = [n \in DOMAIN w.mail |-> Hushed(w.mail[n])],
         \A f \in DOMAIN w \ {"relays", "asked", "callee", "mail"} : v[f] = w[f]
  PROVE  v = Plain(w)
<1> DEFINE u == Plain(w)
<1>1. /\ IsRecord(u) /\ DOMAIN u = DOMAIN w /\ u.relays = v.relays /\ u.asked = v.asked
      /\ u.callee = v.callee /\ u.mail = v.mail
      /\ \A f \in DOMAIN w \ {"relays", "asked", "callee", "mail"} : u[f] = v[f]
  BY PlainFacts
<1> HIDE DEF u
<1>2. \A f \in DOMAIN v : v[f] = u[f]
  BY <1>1
<1>3. v = u
  BY <1>1, <1>2, SameRecord
<1> QED
  BY <1>3 DEF u

\* The rows of the delegations are as they were.
LEMMA PlainEdge ==
  ASSUME NEW w, IsRecord(w), NEW x
  PROVE  Plain([w EXCEPT !.edge = x]) = [Plain(w) EXCEPT !.edge = x]
<1> DEFINE u == [w EXCEPT !.edge = x]
           v == [Plain(w) EXCEPT !.edge = x]
           q == Plain(w)
<1>1. /\ IsRecord(u) /\ DOMAIN u = DOMAIN w
      /\ \A g \in DOMAIN w : u[g] = IF g = "edge" THEN x ELSE w[g]
  BY DEF IsRecord, Fields
<1>2. /\ IsRecord(v) /\ DOMAIN v = DOMAIN w
      /\ \A g \in DOMAIN w : v[g] = IF g = "edge" THEN x ELSE q[g]
  BY PlainFacts DEF IsRecord, Fields
<1>3. /\ {"relays", "asked", "callee", "mail"} \subseteq DOMAIN w
      /\ q.relays = {} /\ q.asked = {} /\ q.callee = [i \in Inner |-> Simple(w.callee[i])]
      /\ q.mail = [n \in DOMAIN w.mail |-> Hushed(w.mail[n])]
      /\ \A g \in DOMAIN w \ {"relays", "asked", "callee", "mail"} : q[g] = w[g]
  BY PlainFacts DEF IsRecord, Fields
<1> HIDE DEF u, v, q
<1>4. /\ v.relays = {} /\ v.asked = {}
      /\ v.callee = [i \in Inner |-> Simple(u.callee[i])]
      /\ v.mail = [n \in DOMAIN u.mail |-> Hushed(u.mail[n])]
  BY <1>1, <1>2, <1>3
<1>5. \A g \in DOMAIN u \ {"relays", "asked", "callee", "mail"} : v[g] = u[g]
  BY <1>1, <1>2, <1>3
<1> QED
  BY <1>1, <1>2, <1>4, <1>5, PlainIs DEF u, v

\* The mail, element by element.
Hush(m) == [n \in DOMAIN m |-> Hushed(m[n])]

LEMMA PlainMail ==
  ASSUME NEW w, IsRecord(w), NEW m
  PROVE  Plain([w EXCEPT !.mail = m]) = [Plain(w) EXCEPT !.mail = Hush(m)]
<1> DEFINE u == [w EXCEPT !.mail = m]
           v == [Plain(w) EXCEPT !.mail = Hush(m)]
           q == Plain(w)
<1>1. /\ IsRecord(u) /\ DOMAIN u = DOMAIN w /\ u.mail = m
      /\ \A g \in DOMAIN w : g # "mail" => u[g] = w[g]
  BY DEF IsRecord, Fields
<1>2. /\ IsRecord(v) /\ DOMAIN v = DOMAIN w /\ v.mail = Hush(m)
      /\ \A g \in DOMAIN w : g # "mail" => v[g] = q[g]
  BY PlainFacts DEF IsRecord, Fields
<1>3. /\ {"relays", "asked", "callee", "mail"} \subseteq DOMAIN w
      /\ q.relays = {} /\ q.asked = {} /\ q.callee = [i \in Inner |-> Simple(w.callee[i])]
      /\ q.mail = [n \in DOMAIN w.mail |-> Hushed(w.mail[n])]
      /\ \A g \in DOMAIN w \ {"relays", "asked", "callee", "mail"} : q[g] = w[g]
  BY PlainFacts DEF IsRecord, Fields
<1> HIDE DEF u, v, q
<1>4. /\ v.relays = {} /\ v.asked = {}
      /\ v.callee = [i \in Inner |-> Simple(u.callee[i])]
      /\ v.mail = [n \in DOMAIN u.mail |-> Hushed(u.mail[n])]
  BY <1>1, <1>2, <1>3 DEF Hush
<1>5. \A g \in DOMAIN u \ {"relays", "asked", "callee", "mail"} : v[g] = u[g]
  BY <1>1, <1>2, <1>3
<1> QED
  BY <1>1, <1>2, <1>4, <1>5, PlainIs DEF u, v

LEMMA HushFacts ==
  ASSUME NEW S, NEW m \in Seq(S), NEW u \in Seq(S)
  PROVE  /\ Hush(m \o u) = Hush(m) \o Hush(u)
         /\ Hush(m) \in Seq({Hushed(t) : t \in S}) /\ Len(Hush(m)) = Len(m)
         /\ m # << >> => Hush(Tail(m)) = Tail(Hush(m)) /\ Head(Hush(m)) = Hushed(Head(m))
         /\ \A t : Hush(Append(m, t)) = Append(Hush(m), Hushed(t))
<1>1. /\ Hush(m) \in Seq({Hushed(t) : t \in S}) /\ Len(Hush(m)) = Len(m) /\ DOMAIN Hush(m) = 1..Len(m)
      /\ \A n \in 1..Len(m) : Hush(m)[n] = Hushed(m[n])
  BY DEF Hush
<1>2. /\ Hush(u) \in Seq({Hushed(t) : t \in S}) /\ Len(Hush(u)) = Len(u) /\ DOMAIN Hush(u) = 1..Len(u)
      /\ \A n \in 1..Len(u) : Hush(u)[n] = Hushed(u[n])
  BY DEF Hush
<1>3. Hush(m \o u) = Hush(m) \o Hush(u)
  BY <1>1, <1>2 DEF Hush
<1>4. m # << >> => Hush(Tail(m)) = Tail(Hush(m)) /\ Head(Hush(m)) = Hushed(Head(m))
  BY <1>1 DEF Hush
<1>5. ASSUME NEW t PROVE Hush(Append(m, t)) = Append(Hush(m), Hushed(t))
  BY <1>1 DEF Hush
<1> QED
  BY <1>1, <1>3, <1>4, <1>5

-----------------------------------------------------------------------------
(* The lifecycle is the same in the plain state.                           *)

\* A state whose plain one is of the lifecycle's type.
Sound(w) == IsRecord(w) /\ w.mail \in Seq(ToSet(w.mail)) /\ IsWarm(Plain(w))

LEMMA PlainRest ==
  ASSUME NEW w, Sound(w), w.mail # << >>
  PROVE  /\ Plain(Rest(w)) = Rest(Plain(w)) /\ Plain(w).mail # << >>
         /\ Head(Plain(w).mail) = Hushed(Head(w.mail))
<1> DEFINE m == w.mail
<1>1. Plain(w).mail = Hush(m) /\ m \in Seq(ToSet(m)) /\ IsRecord(w)
  BY PlainFacts DEF Sound, Hush
<1>2. /\ Hush(Tail(m)) = Tail(Hush(m)) /\ Head(Hush(m)) = Hushed(Head(m))
      /\ Hush(m) \in Seq({Hushed(t) : t \in ToSet(m)}) /\ Len(Hush(m)) = Len(m)
  BY <1>1, HushFacts
<1>3. Rest(w) = [w EXCEPT !.mail = Tail(m)]
  BY <1>1 DEF Rest, IsRecord, Fields
<1>4. Rest(Plain(w)) = [Plain(w) EXCEPT !.mail = Tail(Hush(m))]
  BY <1>1, PlainFacts DEF Rest, IsRecord, Fields
<1>5. Plain([w EXCEPT !.mail = Tail(m)]) = [Plain(w) EXCEPT !.mail = Hush(Tail(m))]
  BY <1>1, PlainMail
<1>6. Plain(Rest(w)) = Rest(Plain(w))
  BY <1>2, <1>3, <1>4, <1>5
<1>7. Hush(m) # << >>
  BY <1>1, <1>2
<1> QED
  BY <1>1, <1>2, <1>6, <1>7

\* What is added to the mail.
LEMMA PlainPost ==
  ASSUME NEW w, Sound(w), NEW q, q \in Seq(ToSet(q))
  PROVE  LET u == [w EXCEPT !.mail = @ \o q]
         IN /\ Plain(u) = [Plain(w) EXCEPT !.mail = @ \o Hush(q)]
            /\ IsRecord(u) /\ u.mail \in Seq(ToSet(u.mail)) /\ u.mail = w.mail \o q
            /\ DOMAIN u = DOMAIN w /\ \A f \in DOMAIN w \ {"mail"} : u[f] = w[f]
<1> DEFINE m == w.mail
           S == ToSet(m) \cup ToSet(q)
           u == [w EXCEPT !.mail = @ \o q]
<1>1. IsRecord(w) /\ m \in Seq(S) /\ q \in Seq(S) /\ Plain(w).mail = Hush(m)
  <2>1. IsRecord(w) /\ m \in Seq(ToSet(m)) /\ ToSet(m) \subseteq S /\ ToSet(q) \subseteq S
    BY DEF Sound
  <2>2. m \in Seq(S) /\ q \in Seq(S)
    BY <2>1, SeqWiden
  <2> QED
    BY <2>1, <2>2, PlainFacts DEF Hush
<1>2. Hush(m \o q) = Hush(m) \o Hush(q)
  BY <1>1, HushFacts
<1>3. /\ u = [w EXCEPT !.mail = m \o q] /\ DOMAIN u = DOMAIN w /\ u.mail = m \o q
      /\ \A f \in DOMAIN w \ {"mail"} : u[f] = w[f]
      /\ IsRecord(u)
  BY <1>1 DEF IsRecord, Fields
<1>4. [Plain(w) EXCEPT !.mail = @ \o Hush(q)] = [Plain(w) EXCEPT !.mail = Hush(m) \o Hush(q)]
  BY <1>1, PlainFacts DEF IsRecord, Fields
<1>5. Plain([w EXCEPT !.mail = m \o q]) = [Plain(w) EXCEPT !.mail = Hush(m \o q)]
  BY <1>1, PlainMail
<1>6. m \o q \in Seq(S)
  BY <1>1
<1>7. Plain(u) = [Plain(w) EXCEPT !.mail = @ \o Hush(q)]
  BY <1>2, <1>3, <1>4, <1>5
<1>8. u.mail \in Seq(ToSet(u.mail))
  <2>1. u.mail \in Seq(S)
    BY <1>3, <1>6
  <2> HIDE DEF S, u
  <2> QED
    BY <2>1, SeqOfOwn
<1> QED
  BY <1>3, <1>7, <1>8

LEMMA PlainSend ==
  ASSUME NEW w, Sound(w), NEW k, NEW d, NEW x
  PROVE  LET u == Send(w, k, d, x)
             e == Event(k, d, x)
         IN /\ Plain(u) = [Plain(w) EXCEPT !.mail = Append(@, Hushed(e))]
            /\ Hushed(e) = e => Plain(u) = Send(Plain(w), k, d, x)
            /\ Hushed(e) = e /\ e \in Letters => Sound(u)
            /\ IsRecord(u) /\ u.mail \in Seq(ToSet(u.mail)) /\ u.mail = Append(w.mail, e)
            /\ DOMAIN u = DOMAIN w /\ \A f \in DOMAIN w \ {"mail"} : u[f] = w[f]
<1> DEFINE m == w.mail
           e == Event(k, d, x)
           S == ToSet(m) \cup {e}
           u == Send(w, k, d, x)
<1>1. IsRecord(w) /\ m \in Seq(S) /\ e \in S /\ Plain(w).mail = Hush(m)
  <2>1. IsRecord(w) /\ m \in Seq(ToSet(m)) /\ ToSet(m) \subseteq S
    BY DEF Sound
  <2>2. m \in Seq(S)
    BY <2>1, SeqWiden
  <2> QED
    BY <2>1, <2>2, PlainFacts DEF Hush
<1> HIDE DEF e
<1>2. Hush(Append(m, e)) = Append(Hush(m), Hushed(e))
  BY <1>1, HushFacts
<1>3. /\ u = [w EXCEPT !.mail = Append(m, e)] /\ DOMAIN u = DOMAIN w /\ u.mail = Append(m, e)
      /\ \A f \in DOMAIN w \ {"mail"} : u[f] = w[f]
      /\ IsRecord(u)
  BY <1>1 DEF IsRecord, Fields, Send, e
<1>4. [Plain(w) EXCEPT !.mail = Append(@, Hushed(e))] = [Plain(w) EXCEPT !.mail = Append(Hush(m), Hushed(e))]
  BY <1>1, PlainFacts DEF IsRecord, Fields
<1>5. Plain([w EXCEPT !.mail = Append(m, e)]) = [Plain(w) EXCEPT !.mail = Hush(Append(m, e))]
  BY <1>1, PlainMail
<1>6. Plain(u) = [Plain(w) EXCEPT !.mail = Append(@, Hushed(e))]
  BY <1>2, <1>3, <1>4, <1>5
<1>7. Append(m, e) \in Seq(S)
  BY <1>1
<1>8. u.mail \in Seq(ToSet(u.mail))
  <2>1. u.mail \in Seq(S)
    BY <1>3, <1>7
  <2> HIDE DEF S, u
  <2> QED
    BY <2>1, SeqOfOwn
<1>9. Hushed(e) = e => Plain(u) = Send(Plain(w), k, d, x)
  BY <1>6 DEF Send, e
<1>10. ASSUME Hushed(e) = e, e \in Letters PROVE Sound(u)
  <2>1. IsWarm(Send(Plain(w), k, d, x))
    BY <1>10, SendFacts DEF Sound, e
  <2> QED
    BY <1>3, <1>8, <1>9, <1>10, <2>1 DEF Sound
<1> QED
  BY <1>3, <1>6, <1>8, <1>9, <1>10 DEF e

LEMMA PlainDrop ==
  ASSUME NEW w, Sound(w), NEW c \in Call
  PROVE  Plain(Drop(w, c)) = Drop(Plain(w), c) /\ Sound(Drop(w, c))
<1> DEFINE u == Drop(w, c)
           p == Plain(w)
           v == Drop(p, c)
<1>1. /\ IsRecord(w) /\ IsRecord(p) /\ DOMAIN p = DOMAIN w /\ p.relays = {} /\ p.asked = {}
      /\ p.callee = [i \in Inner |-> Simple(w.callee[i])]
      /\ p.mail = [n \in DOMAIN w.mail |-> Hushed(w.mail[n])]
      /\ \A f \in DOMAIN w \ {"relays", "asked", "callee", "mail"} : p[f] = w[f]
  BY PlainFacts DEF Sound
<1> HIDE DEF p
<1>2. /\ IsRecord(u) /\ DOMAIN u = DOMAIN w /\ u.callee = w.callee /\ u.mail = w.mail
      /\ u.status = [w.status EXCEPT ![c] = "gone"] /\ u.settled = [w.settled EXCEPT ![c] = FALSE]
      /\ u.held = [w.held EXCEPT ![c] = "nothing"]
      /\ u.bridge = {b \in w.bridge : ParentOf[b[1]] # c}
      /\ \A f \in DOMAIN w \ {"status", "settled", "held", "relays", "bridge"} : u[f] = w[f]
  BY <1>1 DEF IsRecord, Fields, Drop
<1>3. /\ IsRecord(v) /\ DOMAIN v = DOMAIN w /\ v.callee = p.callee /\ v.mail = p.mail
      /\ v.relays = {} /\ v.asked = {}
      /\ v.status = [p.status EXCEPT ![c] = "gone"] /\ v.settled = [p.settled EXCEPT ![c] = FALSE]
      /\ v.held = [p.held EXCEPT ![c] = "nothing"]
      /\ v.bridge = {b \in p.bridge : ParentOf[b[1]] # c}
      /\ \A f \in DOMAIN w \ {"status", "settled", "held", "relays", "bridge"} : v[f] = p[f]
  BY <1>1 DEF IsRecord, Fields, Drop
<1>4. {"status", "settled", "held", "bridge"} \subseteq DOMAIN w
  BY <1>1 DEF IsRecord, Fields
<1> HIDE DEF u, v
<1>5. p.status = w.status /\ p.settled = w.settled /\ p.held = w.held /\ p.bridge = w.bridge
  BY <1>1, <1>4
<1>6. v.status = u.status /\ v.settled = u.settled /\ v.held = u.held /\ v.bridge = u.bridge
  BY <1>2, <1>3, <1>5
<1>7. \A f \in DOMAIN u \ {"relays", "asked", "callee", "mail"} : v[f] = u[f]
  <2> SUFFICES ASSUME NEW f \in DOMAIN u \ {"relays", "asked", "callee", "mail"} PROVE v[f] = u[f]
    OBVIOUS
  <2>1. CASE f \in {"status", "settled", "held", "bridge"}
    BY <1>6, <2>1
  <2>2. CASE f \notin {"status", "settled", "held", "bridge"}
    BY <1>1, <1>2, <1>3, <2>2
  <2> QED
    BY <2>1, <2>2
<1>8. v = Plain(u)
  BY <1>1, <1>2, <1>3, <1>7, PlainIs
<1>9. IsWarm(v)
  BY DropFacts DEF Sound, v, p
<1> QED
  BY <1>2, <1>8, <1>9 DEF Sound, u, v, p

-----------------------------------------------------------------------------
(* What the lifecycle may do to a nursery, whichever operation of it runs. *)

\* The fields the lifecycle of a call changes.
Lifecycle == {"status", "settled", "held", "relays", "edge", "bridge", "staged", "raised", "mail"}

\* What an operation of the lifecycle says: to a caller, or to a child that winds down.
Sayings == {Event(k, c, Own) : k \in {"delegateAck", "terminateAck", "escalate"}, c \in Call}
             \cup {Event("terminate", i, Own) : i \in Inner}

\* A call goes on to its end, a delegation to its end.
Ages(w, u) ==
  /\ \A c \in Call :
       /\ w.status[c] = "none" <=> u.status[c] = "none"
       /\ u.status[c] = "running" => w.status[c] = "running"
       /\ w.status[c] = "gone" => u.status[c] = "gone"
       /\ w.status[c] = "cancelling" => u.status[c] \in {"cancelling", "gone"}
       /\ u.status[c] = "cancelling" => w.status[c] = "cancelling" \/ w.proxy[c] \in {"cancelling", "done"}
  /\ \A i \in Inner :
       \/ u.edge[i] = w.edge[i]
       \/ w.edge[i] = "running" /\ u.edge[i] = "cancelling"
       \/ Alive(w, i) /\ u.edge[i] = "retired"

Steps(w, u) ==
  /\ DOMAIN u = DOMAIN w /\ \A f \in DOMAIN w \ Lifecycle : u[f] = w[f]
  /\ Ages(w, u)
  /\ u.relays \subseteq w.relays
  /\ \A r \in w.relays : r[1] \in Call /\ r \notin u.relays => u.status[r[1]] = "gone"
  /\ \A r \in u.relays : r[1] \in Call /\ u.status[r[1]] = "gone" => w.status[r[1]] = "gone"
  /\ \E q \in Seq(Sayings) : u.mail = w.mail \o q
  /\ StagedOk(w) => StagedOk(u)

LEMMA SoundFacts ==
  ASSUME NEW w, Sound(w)
  PROVE  /\ IsRecord(w) /\ Fields \subseteq DOMAIN w /\ w.mail \in Seq(ToSet(w.mail))
         /\ w.status \in [Call -> Statuses] /\ w.settled \in [Call -> BOOLEAN]
         /\ w.held \in [Call -> Outcomes \cup {"nothing"}]
         /\ w.edge \in [Inner -> Edges] /\ w.raised \in [Call -> Nat]
         /\ w.proxy \in [Call -> Proxies]
BY PlainFacts DEF Sound, IsWarm, IsRecord

LEMMA StepsSelf == ASSUME NEW w, Sound(w) PROVE Steps(w, w)
<1>1. << >> \in Seq(Sayings) /\ w.mail = w.mail \o << >>
  BY SoundFacts
<1> QED
  BY <1>1 DEF Steps, Ages

LEMMA ConcatTwice ==
  ASSUME NEW A, NEW B, NEW m \in Seq(A), NEW q \in Seq(B), NEW r \in Seq(B)
  PROVE  q \o r \in Seq(B) /\ (m \o q) \o r = m \o (q \o r)
<1>1. m \in Seq(A \cup B) /\ q \in Seq(A \cup B) /\ r \in Seq(A \cup B)
  BY SeqWiden
<1>2. (m \o q) \o r = m \o (q \o r)
  BY <1>1
<1> QED
  BY <1>2

LEMMA StepsTwice ==
  ASSUME NEW w, NEW u, NEW v, Sound(w), Steps(w, u), Steps(u, v) PROVE Steps(w, v)
<1>1. DOMAIN v = DOMAIN w /\ \A f \in DOMAIN w \ Lifecycle : v[f] = w[f]
  BY DEF Steps
<1>2. w.status \in [Call -> Statuses] /\ w.mail \in Seq(ToSet(w.mail)) /\ u.proxy = w.proxy
  BY SoundFacts DEF Steps, Lifecycle, Fields
<1>3. Ages(w, v)
  <2>1. Ages(w, u) /\ Ages(u, v)
    BY DEF Steps
  <2>2. ASSUME NEW c \in Call
        PROVE  /\ w.status[c] = "none" <=> v.status[c] = "none"
               /\ v.status[c] = "running" => w.status[c] = "running"
               /\ w.status[c] = "gone" => v.status[c] = "gone"
               /\ w.status[c] = "cancelling" => v.status[c] \in {"cancelling", "gone"}
               /\ v.status[c] = "cancelling" =>
                    w.status[c] = "cancelling" \/ w.proxy[c] \in {"cancelling", "done"}
    BY <1>2, <2>1 DEF Ages
  <2>3. ASSUME NEW i \in Inner
        PROVE  \/ v.edge[i] = w.edge[i]
               \/ w.edge[i] = "running" /\ v.edge[i] = "cancelling"
               \/ Alive(w, i) /\ v.edge[i] = "retired"
    BY <2>1 DEF Ages, Alive
  <2> QED
    BY <2>2, <2>3 DEF Ages
<1>4. v.relays \subseteq w.relays
  BY DEF Steps
<1>5. /\ \A r \in w.relays : r[1] \in Call /\ r \notin v.relays => v.status[r[1]] = "gone"
      /\ \A r \in v.relays : r[1] \in Call /\ v.status[r[1]] = "gone" => w.status[r[1]] = "gone"
  BY DEF Steps, Ages
<1>6. \E q \in Seq(Sayings) : v.mail = w.mail \o q
  <2>1. PICK q \in Seq(Sayings) : u.mail = w.mail \o q
    BY DEF Steps
  <2>2. PICK r \in Seq(Sayings) : v.mail = u.mail \o r
    BY DEF Steps
  <2> DEFINE m == w.mail
             A == ToSet(m)
  <2>3. m \in Seq(A)
    BY <1>2
  <2> HIDE DEF m, A
  <2>4. q \o r \in Seq(Sayings) /\ (m \o q) \o r = m \o (q \o r)
    BY <2>3, ConcatTwice
  <2> QED
    BY <2>1, <2>2, <2>4 DEF m
<1>7. StagedOk(w) => StagedOk(v)
  BY DEF Steps
<1> QED
  BY <1>1, <1>3, <1>4, <1>5, <1>6, <1>7 DEF Steps

-----------------------------------------------------------------------------
(* The parts of an operation.                                              *)

\* What is said to or of a call in its own name is heard, and so is what no ask is.
LEMMA Spoken ==
  /\ \A k, c \in Call : Hushed(Event(k, c, Own)) = Event(k, c, Own)
  /\ \A k, d, x : k \notin Asking => Hushed(Event(k, d, x)) = Event(k, d, x)
  /\ \A t \in Sayings : Hushed(t) = t /\ IsEvent(t) /\ t \in Letters
<1>1. ASSUME NEW k, NEW c \in Call PROVE Hushed(Event(k, c, Own)) = Event(k, c, Own)
  BY CallAssumption DEF Hushed, Event
<1>2. ASSUME NEW k, NEW d, NEW x, k \notin Asking PROVE Hushed(Event(k, d, x)) = Event(k, d, x)
  BY <1>2 DEF Hushed, Event
<1>3. ASSUME NEW t \in Sayings PROVE Hushed(t) = t /\ IsEvent(t) /\ t \in Letters
  <2>1. CASE \E k \in {"delegateAck", "terminateAck", "escalate"}, c \in Call : t = Event(k, c, Own)
    <3>1. PICK k \in {"delegateAck", "terminateAck", "escalate"}, c \in Call : t = Event(k, c, Own)
      BY <2>1
    <3>2. k \in EventKind
      BY DEF EventKind
    <3> QED
      BY <1>1, <3>1, <3>2, SomeLetters, EventFacts
  <2>2. CASE \E i \in Inner : t = Event("terminate", i, Own)
    <3>1. PICK i \in Inner : t = Event("terminate", i, Own)
      BY <2>2
    <3>2. "terminate" \in EventKind /\ "terminate" \notin Asking
      BY DEF EventKind, Asking
    <3> QED
      BY <1>2, <3>1, <3>2, SomeLetters, EventFacts
  <2> QED
    BY <1>3, <2>1, <2>2 DEF Sayings
<1> QED
  BY <1>1, <1>2, <1>3

LEMMA StepsSend ==
  ASSUME NEW w, Sound(w), NEW k, NEW d, NEW x, Event(k, d, x) \in Sayings
  PROVE  LET u == Send(w, k, d, x)
         IN Plain(u) = Send(Plain(w), k, d, x) /\ Sound(u) /\ Steps(w, u)
<1> DEFINE u == Send(w, k, d, x)
           e == Event(k, d, x)
<1>1. Hushed(e) = e /\ e \in Letters
  BY Spoken
<1>2. /\ Plain(u) = Send(Plain(w), k, d, x) /\ Sound(u) /\ u.mail = Append(w.mail, e)
      /\ DOMAIN u = DOMAIN w /\ \A f \in DOMAIN w \ {"mail"} : u[f] = w[f]
  BY <1>1, PlainSend
<1>3. Fields \subseteq DOMAIN w /\ w.mail \in Seq(ToSet(w.mail))
  BY SoundFacts
<1> HIDE DEF u
<1>4. Ages(w, u) /\ (StagedOk(w) => StagedOk(u)) /\ u.relays = w.relays /\ u.status = w.status
  BY <1>2, <1>3 DEF Ages, StagedOk, Fields
<1>5. \E q \in Seq(Sayings) : u.mail = w.mail \o q
  <2>1. <<e>> \in Seq(Sayings)
    OBVIOUS
  <2>2. u.mail = w.mail \o <<e>>
    BY <1>2, <1>3
  <2> QED
    BY <2>1, <2>2
<1>6. \A f \in DOMAIN w \ Lifecycle : u[f] = w[f]
  BY <1>2 DEF Lifecycle
<1>7. Steps(w, u)
  BY <1>2, <1>4, <1>5, <1>6 DEF Steps
<1> QED
  BY <1>2, <1>7 DEF u

LEMMA StepsDrop ==
  ASSUME NEW w, Sound(w), NEW c \in Call, w.status[c] # "none"
  PROVE  LET u == Drop(w, c)
         IN Plain(u) = Drop(Plain(w), c) /\ Sound(u) /\ Steps(w, u)
<1> DEFINE u == Drop(w, c)
<1>1. Plain(u) = Drop(Plain(w), c) /\ Sound(u)
  BY PlainDrop
<1>2. /\ IsRecord(w) /\ Fields \subseteq DOMAIN w /\ w.status \in [Call -> Statuses]
      /\ w.mail \in Seq(ToSet(w.mail))
  BY SoundFacts
<1>3. /\ DOMAIN u = DOMAIN w /\ u.mail = w.mail /\ u.edge = w.edge /\ u.staged = w.staged
      /\ u.status = [w.status EXCEPT ![c] = "gone"]
      /\ u.relays = {r \in w.relays : r[1] # c}
      /\ \A f \in DOMAIN w \ {"status", "settled", "held", "relays", "bridge"} : u[f] = w[f]
  BY <1>2 DEF IsRecord, Fields, Drop
<1> HIDE DEF u
<1>4. /\ u.status[c] = "gone" /\ \A d \in Call : d # c => u.status[d] = w.status[d]
  BY <1>2, <1>3
<1>5. Ages(w, u) /\ (StagedOk(w) => StagedOk(u))
  BY <1>3, <1>4 DEF Ages, StagedOk
<1>6. /\ u.relays \subseteq w.relays /\ \A r \in w.relays : r \notin u.relays => u.status[r[1]] = "gone"
      /\ \A r \in u.relays : r[1] \in Call => u.status[r[1]] = w.status[r[1]]
  BY <1>3, <1>4
<1>7. \E q \in Seq(Sayings) : u.mail = w.mail \o q
  <2>1. << >> \in Seq(Sayings) /\ u.mail = w.mail \o << >>
    BY <1>2, <1>3
  <2> QED
    BY <2>1
<1>8. \A f \in DOMAIN w \ Lifecycle : u[f] = w[f]
  BY <1>3 DEF Lifecycle
<1>9. Steps(w, u)
  BY <1>3, <1>5, <1>6, <1>7, <1>8 DEF Steps
<1> QED
  BY <1>1, <1>9 DEF u

\* A call that has drained answers.
LEMMA StepsAnswer ==
  ASSUME NEW w, Sound(w), NEW c \in Call, w.status[c] # "none", NEW k \in {"delegateAck", "terminateAck"}
  PROVE  LET u == Drop(Send(w, k, c, Own), c)
         IN Plain(u) = Drop(Send(Plain(w), k, c, Own), c) /\ Sound(u) /\ Steps(w, u)
<1> DEFINE s == Send(w, k, c, Own)
           u == Drop(s, c)
<1>1. Event(k, c, Own) \in Sayings
  BY DEF Sayings
<1>2. Plain(s) = Send(Plain(w), k, c, Own) /\ Sound(s) /\ Steps(w, s)
  BY <1>1, StepsSend
<1> HIDE DEF s
<1>3. s.status[c] # "none"
  BY <1>2 DEF Steps, Ages
<1>4. Plain(u) = Drop(Plain(s), c) /\ Sound(u) /\ Steps(s, u)
  BY <1>2, <1>3, StepsDrop
<1>5. Steps(w, u)
  BY <1>2, <1>4, StepsTwice
<1> QED
  BY <1>2, <1>4, <1>5 DEF s

\* What is recorded about the calls themselves.
CallFields == {"status", "settled", "held", "raised"}

LEMMA StepsCall ==
  ASSUME NEW w, Sound(w), NEW u, IsRecord(u), DOMAIN u = DOMAIN w,
         \A f \in DOMAIN w \ CallFields : u[f] = w[f],
         u.status \in [Call -> Statuses], u.settled \in [Call -> BOOLEAN],
         u.held \in [Call -> Outcomes \cup {"nothing"}], u.raised \in [Call -> Nat],
         Ages(w, u), \A c \in Call : u.status[c] = "gone" => w.status[c] = "gone",
         NEW v, IsRecord(v), DOMAIN v = DOMAIN w,
         \A f \in DOMAIN w \ CallFields : v[f] = Plain(w)[f],
         \A f \in CallFields : v[f] = u[f]
  PROVE  v = Plain(u) /\ Sound(u) /\ Steps(w, u)
<1> DEFINE p == Plain(w)
           Said == {"relays", "asked", "callee", "mail"}
<1>1. /\ IsRecord(w) /\ Fields \subseteq DOMAIN w /\ w.mail \in Seq(ToSet(w.mail))
      /\ IsRecord(p) /\ p.relays = {} /\ p.asked = {}
      /\ p.callee = [i \in Inner |-> Simple(w.callee[i])]
      /\ p.mail = [n \in DOMAIN w.mail |-> Hushed(w.mail[n])]
      /\ \A f \in DOMAIN w \ Said : p[f] = w[f]
      /\ IsWarm(p)
  BY SoundFacts, PlainFacts DEF Sound
<1> HIDE DEF p
<1>2. Said \subseteq DOMAIN w \ CallFields /\ u.mail = w.mail /\ u.callee = w.callee
  BY <1>1 DEF Fields, CallFields
<1>3. v.relays = {} /\ v.asked = {} /\ v.callee = p.callee /\ v.mail = p.mail
  BY <1>1, <1>2 DEF p
<1>4. \A f \in DOMAIN u \ Said : v[f] = u[f]
  <2> SUFFICES ASSUME NEW f \in DOMAIN u \ Said PROVE v[f] = u[f]
    OBVIOUS
  <2>1. CASE f \in CallFields
    BY <2>1
  <2>2. CASE f \notin CallFields
    BY <1>1, <2>2 DEF p
  <2> QED
    BY <2>1, <2>2
<1>5. v = Plain(u)
  BY <1>1, <1>2, <1>3, <1>4, PlainIs
<1>6. /\ v.edge = p.edge /\ v.proxy = p.proxy
      /\ v.status = u.status /\ v.settled = u.settled /\ v.held = u.held /\ v.raised = u.raised
  BY <1>1 DEF Fields, CallFields, p
<1>7. IsWarm(v)
  BY <1>1, <1>3, <1>6 DEF IsWarm, IsRecord
<1>8. Sound(u)
  BY <1>1, <1>2, <1>5, <1>7 DEF Sound
<1>9. u.edge = w.edge /\ u.staged = w.staged /\ u.relays = w.relays
  BY <1>1 DEF Fields, CallFields
<1>10. << >> \in Seq(Sayings) /\ u.mail = w.mail \o << >>
  BY <1>1, <1>2
<1>11. Steps(w, u)
  BY <1>9, <1>10 DEF Steps, StagedOk, Lifecycle, CallFields
<1> QED
  BY <1>5, <1>8, <1>11

\* An outcome is recorded, or forgotten.
LEMMA StepsHold ==
  ASSUME NEW w, Sound(w), NEW c \in Call, NEW o \in Outcomes \cup {"nothing"}
  PROVE  LET u == [w EXCEPT !.held[c] = o]
         IN /\ Plain(u) = [Plain(w) EXCEPT !.held[c] = o] /\ Sound(u) /\ Steps(w, u)
            /\ u.held = [w.held EXCEPT ![c] = o] /\ u.status = w.status /\ u.edge = w.edge
<1> DEFINE u == [w EXCEPT !.held[c] = o]
           p == Plain(w)
           v == [p EXCEPT !.held[c] = o]
<1>1. /\ IsRecord(w) /\ Fields \subseteq DOMAIN w /\ w.held \in [Call -> Outcomes \cup {"nothing"}]
      /\ w.status \in [Call -> Statuses] /\ w.settled \in [Call -> BOOLEAN] /\ w.raised \in [Call -> Nat]
      /\ IsRecord(p) /\ DOMAIN p = DOMAIN w
      /\ p.held = w.held /\ p.status = w.status /\ p.settled = w.settled /\ p.raised = w.raised
  BY SoundFacts, PlainFacts
<1> HIDE DEF p
<1>2. /\ IsRecord(u) /\ DOMAIN u = DOMAIN w /\ u.held = [w.held EXCEPT ![c] = o]
      /\ \A f \in DOMAIN w \ {"held"} : u[f] = w[f]
  BY <1>1 DEF IsRecord, Fields
<1>3. /\ IsRecord(v) /\ DOMAIN v = DOMAIN w /\ v.held = [w.held EXCEPT ![c] = o]
      /\ \A f \in DOMAIN w \ {"held"} : v[f] = p[f]
  BY <1>1 DEF IsRecord, Fields
<1> HIDE DEF u, v
<1>4. u.status = w.status /\ u.settled = w.settled /\ u.raised = w.raised /\ u.edge = w.edge
  BY <1>1, <1>2 DEF Fields
<1>5. v.status = u.status /\ v.settled = u.settled /\ v.raised = u.raised /\ v.held = u.held
  BY <1>1, <1>2, <1>3, <1>4 DEF Fields
<1>6. Ages(w, u) /\ (\A d \in Call : u.status[d] = w.status[d]) /\ u.held \in [Call -> Outcomes \cup {"nothing"}]
  BY <1>1, <1>2, <1>4 DEF Ages
<1>7. /\ \A f \in DOMAIN w \ CallFields : u[f] = w[f] /\ v[f] = p[f]
      /\ \A f \in CallFields : v[f] = u[f]
  BY <1>2, <1>3, <1>5 DEF CallFields
<1>8. v = Plain(u) /\ Sound(u) /\ Steps(w, u)
  BY <1>1, <1>2, <1>3, <1>4, <1>6, <1>7, StepsCall DEF p
<1> QED
  BY <1>2, <1>4, <1>8 DEF u, v, p

\* The transport has finished a call that is cancelled.
LEMMA StepsFinish ==
  ASSUME NEW w, Sound(w), NEW c \in Call
  PROVE  LET u == [w EXCEPT !.settled[c] = TRUE]
         IN /\ Plain(u) = [Plain(w) EXCEPT !.settled[c] = TRUE] /\ Sound(u) /\ Steps(w, u)
            /\ u.held = w.held /\ u.status = w.status /\ u.edge = w.edge
<1> DEFINE u == [w EXCEPT !.settled[c] = TRUE]
           p == Plain(w)
           v == [p EXCEPT !.settled[c] = TRUE]
<1>1. /\ IsRecord(w) /\ Fields \subseteq DOMAIN w /\ w.held \in [Call -> Outcomes \cup {"nothing"}]
      /\ w.status \in [Call -> Statuses] /\ w.settled \in [Call -> BOOLEAN] /\ w.raised \in [Call -> Nat]
      /\ IsRecord(p) /\ DOMAIN p = DOMAIN w
      /\ p.held = w.held /\ p.status = w.status /\ p.settled = w.settled /\ p.raised = w.raised
  BY SoundFacts, PlainFacts
<1> HIDE DEF p
<1>2. /\ IsRecord(u) /\ DOMAIN u = DOMAIN w /\ u.settled = [w.settled EXCEPT ![c] = TRUE]
      /\ \A f \in DOMAIN w \ {"settled"} : u[f] = w[f]
  BY <1>1 DEF IsRecord, Fields
<1>3. /\ IsRecord(v) /\ DOMAIN v = DOMAIN w /\ v.settled = [w.settled EXCEPT ![c] = TRUE]
      /\ \A f \in DOMAIN w \ {"settled"} : v[f] = p[f]
  BY <1>1 DEF IsRecord, Fields
<1> HIDE DEF u, v
<1>4. u.status = w.status /\ u.held = w.held /\ u.raised = w.raised /\ u.edge = w.edge
  BY <1>1, <1>2 DEF Fields
<1>5. v.status = u.status /\ v.settled = u.settled /\ v.raised = u.raised /\ v.held = u.held
  BY <1>1, <1>2, <1>3, <1>4 DEF Fields
<1>6. Ages(w, u) /\ (\A d \in Call : u.status[d] = w.status[d]) /\ u.settled \in [Call -> BOOLEAN]
  BY <1>1, <1>2, <1>4 DEF Ages
<1>7. /\ \A f \in DOMAIN w \ CallFields : u[f] = w[f] /\ v[f] = p[f]
      /\ \A f \in CallFields : v[f] = u[f]
  BY <1>2, <1>3, <1>5 DEF CallFields
<1>8. v = Plain(u) /\ Sound(u) /\ Steps(w, u)
  BY <1>1, <1>2, <1>3, <1>4, <1>6, <1>7, StepsCall DEF p
<1> QED
  BY <1>4, <1>8 DEF u, v, p

\* A call whose thread gave it up winds down.
LEMMA StepsCancelled ==
  ASSUME NEW w, Sound(w), NEW c \in Call, w.status[c] \in {"running", "awaitingAnswer"},
         w.proxy[c] \in {"cancelling", "done"}
  PROVE  LET u == Cancelled(w, c)
         IN /\ Plain(u) = Cancelled(Plain(w), c) /\ Sound(u) /\ Steps(w, u)
            /\ u.held = [w.held EXCEPT ![c] = "nothing"]
            /\ u.status = [w.status EXCEPT ![c] = "cancelling"] /\ u.edge = w.edge
<1> DEFINE u == Cancelled(w, c)
           p == Plain(w)
           v == Cancelled(p, c)
           b == (w.status[c] = "awaitingAnswer")
<1>1. /\ IsRecord(w) /\ Fields \subseteq DOMAIN w /\ w.held \in [Call -> Outcomes \cup {"nothing"}]
      /\ w.status \in [Call -> Statuses] /\ w.settled \in [Call -> BOOLEAN] /\ w.raised \in [Call -> Nat]
      /\ IsRecord(p) /\ DOMAIN p = DOMAIN w
      /\ p.held = w.held /\ p.status = w.status /\ p.settled = w.settled /\ p.raised = w.raised
  BY SoundFacts, PlainFacts
<1> HIDE DEF p
<1>2. /\ IsRecord(u) /\ DOMAIN u = DOMAIN w /\ u.settled = [w.settled EXCEPT ![c] = b]
      /\ u.held = [w.held EXCEPT ![c] = "nothing"] /\ u.status = [w.status EXCEPT ![c] = "cancelling"]
      /\ \A f \in DOMAIN w \ {"settled", "held", "status"} : u[f] = w[f]
  BY <1>1 DEF IsRecord, Fields, Cancelled
<1>3. /\ IsRecord(v) /\ DOMAIN v = DOMAIN w /\ v.settled = [w.settled EXCEPT ![c] = b]
      /\ v.held = [w.held EXCEPT ![c] = "nothing"] /\ v.status = [w.status EXCEPT ![c] = "cancelling"]
      /\ \A f \in DOMAIN w \ {"settled", "held", "status"} : v[f] = p[f]
  BY <1>1 DEF IsRecord, Fields, Cancelled
<1> HIDE DEF u, v
<1>4. u.raised = w.raised /\ u.edge = w.edge
  BY <1>1, <1>2 DEF Fields
<1>5. v.status = u.status /\ v.settled = u.settled /\ v.raised = u.raised /\ v.held = u.held
  BY <1>1, <1>2, <1>3, <1>4 DEF Fields
<1>6. /\ u.settled \in [Call -> BOOLEAN] /\ u.held \in [Call -> Outcomes \cup {"nothing"}]
      /\ u.status \in [Call -> Statuses]
  BY <1>1, <1>2 DEF Statuses
<1>7. Ages(w, u) /\ \A d \in Call : u.status[d] = "gone" => w.status[d] = "gone"
  BY <1>1, <1>2, <1>4 DEF Ages
<1>8. /\ \A f \in DOMAIN w \ CallFields : u[f] = w[f] /\ v[f] = p[f]
      /\ \A f \in CallFields : v[f] = u[f]
  BY <1>2, <1>3, <1>5 DEF CallFields
<1>9. v = Plain(u) /\ Sound(u) /\ Steps(w, u)
  <2>1. /\ IsRecord(u) /\ DOMAIN u = DOMAIN w /\ IsRecord(v) /\ DOMAIN v = DOMAIN w
        /\ u.raised \in [Call -> Nat]
    BY <1>1, <1>2, <1>3, <1>4
  <2>2. \A f \in DOMAIN w \ CallFields : v[f] = Plain(w)[f]
    BY <1>8 DEF p
  <2>3. \A f \in DOMAIN w \ CallFields : u[f] = w[f]
    BY <1>8
  <2>4. \A f \in CallFields : v[f] = u[f]
    BY <1>8
  <2> QED
    BY <1>6, <1>7, <2>1, <2>2, <2>3, <2>4, StepsCall
<1> QED
  BY <1>2, <1>4, <1>9 DEF u, v, p

\* A call that has drained raises its failure.
LEMMA StepsRaise ==
  ASSUME NEW w, Sound(w), NEW c \in Call, w.status[c] \in {"running", "awaitingAnswer"}
  PROVE  LET u == RaiseFailure(w, c)
         IN /\ Plain(u) = RaiseFailure(Plain(w), c) /\ Sound(u) /\ Steps(w, u)
            /\ u.held = w.held /\ u.status = [w.status EXCEPT ![c] = "awaitingAnswer"]
            /\ u.edge = w.edge
<1> DEFINE s == Send(w, "escalate", c, Own)
           q == Send(Plain(w), "escalate", c, Own)
           u == RaiseFailure(w, c)
           v == RaiseFailure(Plain(w), c)
<1>1. Event("escalate", c, Own) \in Sayings
  BY DEF Sayings
<1>2. /\ Plain(s) = q /\ Sound(s) /\ Steps(w, s)
      /\ DOMAIN s = DOMAIN w /\ \A f \in DOMAIN w \ {"mail"} : s[f] = w[f]
  BY <1>1, StepsSend, PlainSend
<1> HIDE DEF s
<1>3. /\ IsRecord(s) /\ Fields \subseteq DOMAIN s /\ s.held \in [Call -> Outcomes \cup {"nothing"}]
      /\ s.status \in [Call -> Statuses] /\ s.settled \in [Call -> BOOLEAN] /\ s.raised \in [Call -> Nat]
      /\ IsRecord(q) /\ DOMAIN q = DOMAIN s
      /\ q.held = s.held /\ q.status = s.status /\ q.settled = s.settled /\ q.raised = s.raised
  <2> HIDE DEF q
  <2>1. Sound(s) /\ q = Plain(s)
    BY <1>2
  <2>2. /\ IsRecord(s) /\ Fields \subseteq DOMAIN s /\ s.held \in [Call -> Outcomes \cup {"nothing"}]
        /\ s.status \in [Call -> Statuses] /\ s.settled \in [Call -> BOOLEAN]
        /\ s.raised \in [Call -> Nat]
    BY <2>1, SoundFacts
  <2> QED
    BY <2>1, <2>2, PlainFacts
<1>4. s.status = w.status /\ s.raised = w.raised /\ s.held = w.held /\ s.edge = w.edge
      /\ q.raised = w.raised
  BY <1>2, <1>3 DEF Fields
<1>5. /\ u = [s EXCEPT !.status[c] = "awaitingAnswer", !.raised[c] = @ + 1]
      /\ v = [q EXCEPT !.status[c] = "awaitingAnswer", !.raised[c] = @ + 1]
  BY DEF RaiseFailure, s
<1> HIDE DEF q, u, v
<1>6. /\ IsRecord(u) /\ DOMAIN u = DOMAIN s /\ u.status = [s.status EXCEPT ![c] = "awaitingAnswer"]
      /\ u.raised = [s.raised EXCEPT ![c] = @ + 1]
      /\ \A f \in DOMAIN s \ {"status", "raised"} : u[f] = s[f]
  BY <1>3, <1>5 DEF IsRecord, Fields
<1>7. /\ IsRecord(v) /\ DOMAIN v = DOMAIN s /\ v.status = [s.status EXCEPT ![c] = "awaitingAnswer"]
      /\ v.raised = [s.raised EXCEPT ![c] = @ + 1]
      /\ \A f \in DOMAIN s \ {"status", "raised"} : v[f] = q[f]
  BY <1>3, <1>5 DEF IsRecord, Fields
<1>8. u.settled = s.settled /\ u.edge = s.edge /\ u.held = s.held
  BY <1>3, <1>6 DEF Fields
<1>9. v.status = u.status /\ v.settled = u.settled /\ v.raised = u.raised /\ v.held = u.held
  BY <1>3, <1>6, <1>7, <1>8 DEF Fields
<1>10. u.status \in [Call -> Statuses] /\ u.raised \in [Call -> Nat]
  BY <1>3, <1>6 DEF Statuses
<1>11. Ages(s, u) /\ \A d \in Call : u.status[d] = "gone" => s.status[d] = "gone"
  BY <1>3, <1>4, <1>6, <1>8 DEF Ages
<1>12. /\ \A f \in DOMAIN s \ CallFields : u[f] = s[f] /\ v[f] = q[f]
       /\ \A f \in CallFields : v[f] = u[f]
  BY <1>6, <1>7, <1>9 DEF CallFields
<1>13. v = Plain(u) /\ Sound(u) /\ Steps(s, u)
  BY <1>2, <1>3, <1>6, <1>7, <1>8, <1>10, <1>11, <1>12, StepsCall
<1>14. Steps(w, u)
  BY <1>2, <1>13, StepsTwice
<1> QED
  BY <1>4, <1>6, <1>8, <1>13, <1>14 DEF u, v

\* Its children are told to stop.
LEMMA StepsStop ==
  ASSUME NEW w, Sound(w), NEW c \in Call
  PROVE  LET u == TerminateChildren(w, c)
         IN /\ Plain(u) = TerminateChildren(Plain(w), c) /\ Sound(u) /\ Steps(w, u)
            /\ u.held = w.held /\ u.status = w.status
            /\ \A i \in Inner : u.edge[i] = IF ParentOf[i] = c /\ w.edge[i] = "running"
                                            THEN "cancelling" ELSE w.edge[i]
<1> DEFINE u == TerminateChildren(w, c)
           p == Plain(w)
           v == TerminateChildren(p, c)
           q == Stops(w, c)
           edge == [i \in Inner |-> IF i \in {j \in Children(c) : w.edge[j] = "running"}
                                    THEN "cancelling" ELSE w.edge[i]]
           s == [w EXCEPT !.mail = @ \o q]
<1>1. /\ IsRecord(w) /\ Fields \subseteq DOMAIN w /\ w.mail \in Seq(ToSet(w.mail))
      /\ w.edge \in [Inner -> Edges] /\ p.edge = w.edge
      /\ IsRecord(p) /\ DOMAIN p = DOMAIN w /\ IsWarm(p)
  BY SoundFacts, PlainFacts DEF Sound
<1>2. /\ IsMail(q) /\ q \in Seq(ToSet(q))
      /\ \A t \in ToSet(q) : \E i \in Inner : t = Event("terminate", i, Own)
  <2>1. Stops(p, c) = q
    BY <1>1 DEF Stops
  <2>2. /\ IsMail(Stops(p, c))
        /\ \A t \in ToSet(Stops(p, c)) : \E i \in Inner : t = Event("terminate", i, Own)
    BY <1>1, TerminateFacts
  <2> QED
    BY <2>1, <2>2 DEF IsMail
<1>3. q \in Seq(Sayings) /\ Hush(q) = q
  <2> HIDE DEF q
  <2>1. ToSet(q) \subseteq Sayings
    BY <1>2 DEF Sayings
  <2>2. q \in Seq(Sayings)
    BY <1>2, <2>1, SeqWiden
  <2>3. \A n \in DOMAIN q : Hushed(q[n]) = q[n]
    BY <2>1, Spoken DEF ToSet
  <2> QED
    BY <1>2, <2>2, <2>3 DEF Hush
<1>4. /\ Plain(s) = [p EXCEPT !.mail = @ \o q] /\ IsRecord(s) /\ s.mail = w.mail \o q
      /\ s.mail \in Seq(ToSet(s.mail))
      /\ DOMAIN s = DOMAIN w /\ \A f \in DOMAIN w \ {"mail"} : s[f] = w[f]
  BY <1>2, <1>3, PlainPost
<1>5. u = [s EXCEPT !.edge = edge]
  <2>1. u = [w EXCEPT !.edge = [i \in Inner |-> IF i \in {j \in Children(c) : w.edge[j] = "running"}
                                                THEN "cancelling" ELSE @[i]], !.mail = @ \o q]
    BY DEF TerminateChildren, Stops
  <2> QED
    BY <1>1, <2>1 DEF IsRecord, Fields
<1>6. v = [[p EXCEPT !.mail = @ \o q] EXCEPT !.edge = edge]
  <2>1. v = [p EXCEPT !.edge = [i \in Inner |-> IF i \in {j \in Children(c) : p.edge[j] = "running"}
                                                THEN "cancelling" ELSE @[i]], !.mail = @ \o Stops(p, c)]
    BY DEF TerminateChildren, Stops
  <2>2. Stops(p, c) = q
    BY <1>1 DEF Stops
  <2> HIDE DEF p, q, v
  <2>3. v = [p EXCEPT !.edge = edge, !.mail = @ \o q]
    BY <1>1, <2>1, <2>2 DEF IsRecord, Fields
  <2> HIDE DEF edge
  <2> QED
    BY <1>1, <2>3 DEF IsRecord, Fields
<1> HIDE DEF u, v, s, p, q
<1>7. edge \in [Inner -> Edges]
  BY <1>1 DEF Edges
<1>8. \A i \in Inner : edge[i] = IF ParentOf[i] = c /\ w.edge[i] = "running" THEN "cancelling" ELSE w.edge[i]
  BY DEF Children
<1> HIDE DEF edge
<1>9. Plain([s EXCEPT !.edge = edge]) = [Plain(s) EXCEPT !.edge = edge]
  BY <1>4, PlainEdge
<1>10. Plain(u) = v
  BY <1>4, <1>5, <1>6, <1>9
<1>11. /\ IsRecord(u) /\ DOMAIN u = DOMAIN w /\ u.edge = edge /\ u.mail = w.mail \o q
       /\ u.mail \in Seq(ToSet(u.mail))
       /\ \A f \in DOMAIN w \ {"mail", "edge"} : u[f] = w[f]
  BY <1>1, <1>4, <1>5 DEF IsRecord, Fields
<1>12. u.status = w.status /\ u.held = w.held /\ u.relays = w.relays /\ u.staged = w.staged
  BY <1>1, <1>11 DEF Fields
<1>13. Sound(u)
  <2>1. IsWarm(v)
    BY <1>1, TerminateFacts DEF v
  <2> QED
    BY <1>10, <1>11, <2>1 DEF Sound
<1>14. Ages(w, u) /\ (StagedOk(w) => StagedOk(u))
  BY <1>8, <1>11, <1>12 DEF Ages, StagedOk
<1>15. Steps(w, u)
  BY <1>3, <1>11, <1>12, <1>14 DEF Steps, Lifecycle
<1> QED
  BY <1>8, <1>10, <1>11, <1>12, <1>13, <1>15 DEF u, v, p

-----------------------------------------------------------------------------
(* An operation on one call.                                               *)

\* The call c ages, the bridges follow, and nothing happens to another call.
Works(w, u, c) ==
  /\ Sound(u) /\ Steps(w, u) /\ (Bridged(w) => Bridged(u))
  /\ \A d \in Call : d # c => u.status[d] = w.status[d] /\ u.held[d] = w.held[d]

LEMMA WorksTwice ==
  ASSUME NEW w, NEW u, NEW v, Sound(w), NEW c, Works(w, u, c), Works(u, v, c) PROVE Works(w, v, c)
BY StepsTwice DEF Works

LEMMA WorksSelf == ASSUME NEW w, Sound(w), NEW c PROVE Works(w, w, c)
BY StepsSelf DEF Works

\* With the same rows and bridges of the delegations.
LEMMA BridgedSame ==
  ASSUME NEW w, NEW u, u.bridge = w.bridge, \A i \in Inner : Alive(u, i) <=> Alive(w, i), Bridged(w)
  PROVE  Bridged(u)
BY DEF Bridged

LEMMA DropBridged ==
  ASSUME NEW w, Sound(w), NEW c \in Call, ~Draining(w, c), Bridged(w)
  PROVE  Bridged(Drop(w, c))
<1> DEFINE u == Drop(w, c)
<1>1. u.bridge = {b \in w.bridge : ParentOf[b[1]] # c} /\ u.edge = w.edge
  BY SoundFacts DEF IsRecord, Fields, Drop
<1> HIDE DEF u
<1>2. \A b \in w.bridge : \E i \in Inner : b = <<i, i>> /\ Alive(w, i)
  BY DEF Bridged
<1>3. \A b \in w.bridge : ParentOf[b[1]] # c
  BY <1>2 DEF Draining, Alive, Children
<1>4. u.bridge = w.bridge
  BY <1>1, <1>3
<1>5. Bridged(u)
  BY <1>1, <1>4, BridgedSame DEF Alive
<1> QED
  BY <1>5 DEF u

LEMMA WorksAnswer ==
  ASSUME NEW w, Sound(w), NEW c \in Call, w.status[c] # "none", ~Draining(w, c),
         NEW k \in {"delegateAck", "terminateAck"}
  PROVE  LET u == Drop(Send(w, k, c, Own), c)
         IN Plain(u) = Drop(Send(Plain(w), k, c, Own), c) /\ Works(w, u, c) /\ u.held[c] = "nothing"
<1> DEFINE s == Send(w, k, c, Own)
           u == Drop(s, c)
<1>1. Event(k, c, Own) \in Sayings
  BY DEF Sayings
<1>2. /\ Sound(s) /\ DOMAIN s = DOMAIN w /\ \A f \in DOMAIN w \ {"mail"} : s[f] = w[f]
  BY <1>1, StepsSend, PlainSend
<1>3. Plain(u) = Drop(Send(Plain(w), k, c, Own), c) /\ Sound(u) /\ Steps(w, u)
  BY StepsAnswer
<1> HIDE DEF s
<1>4. /\ Fields \subseteq DOMAIN w /\ IsRecord(s) /\ s.status \in [Call -> Statuses]
      /\ s.held \in [Call -> Outcomes \cup {"nothing"}]
  BY <1>2, SoundFacts
<1>5. s.status = w.status /\ s.held = w.held /\ s.edge = w.edge /\ s.bridge = w.bridge
  BY <1>2, <1>4 DEF Fields
<1>6. u.status = [s.status EXCEPT ![c] = "gone"] /\ u.held = [s.held EXCEPT ![c] = "nothing"]
  BY <1>2, <1>4 DEF IsRecord, Fields, Drop
<1>7. Bridged(w) => Bridged(u)
  <2>1. Bridged(w) => Bridged(s)
    BY <1>5, BridgedSame DEF Alive
  <2>2. ~Draining(s, c)
    BY <1>5 DEF Draining
  <2> QED
    BY <1>2, <2>1, <2>2, DropBridged
<1> HIDE DEF u
<1>8. Works(w, u, c) /\ u.held[c] = "nothing"
  BY <1>3, <1>4, <1>5, <1>6, <1>7 DEF Works
<1> QED
  BY <1>3, <1>8 DEF u, s

LEMMA WorksRaise ==
  ASSUME NEW w, Sound(w), NEW c \in Call, w.status[c] \in {"running", "awaitingAnswer"}
  PROVE  LET u == RaiseFailure(w, c)
         IN Plain(u) = RaiseFailure(Plain(w), c) /\ Works(w, u, c) /\ u.held = w.held
<1> DEFINE u == RaiseFailure(w, c)
<1>1. /\ Plain(u) = RaiseFailure(Plain(w), c) /\ Sound(u) /\ Steps(w, u)
      /\ u.held = w.held /\ u.status = [w.status EXCEPT ![c] = "awaitingAnswer"] /\ u.edge = w.edge
  BY StepsRaise
<1>2. u.bridge = w.bridge
  BY SoundFacts DEF RaiseFailure, Send, IsRecord, Fields
<1>3. w.status \in [Call -> Statuses]
  BY SoundFacts
<1> HIDE DEF u
<1>4. Works(w, u, c)
  BY <1>1, <1>2, <1>3, BridgedSame DEF Works, Alive
<1> QED
  BY <1>1, <1>4 DEF u

LEMMA WorksHold ==
  ASSUME NEW w, Sound(w), NEW c \in Call, NEW o \in Outcomes \cup {"nothing"}
  PROVE  LET u == [w EXCEPT !.held[c] = o]
         IN /\ Plain(u) = [Plain(w) EXCEPT !.held[c] = o] /\ Works(w, u, c)
            /\ u.held[c] = o /\ u.status = w.status /\ u.edge = w.edge
<1> DEFINE u == [w EXCEPT !.held[c] = o]
<1>1. /\ Plain(u) = [Plain(w) EXCEPT !.held[c] = o] /\ Sound(u) /\ Steps(w, u)
      /\ u.held = [w.held EXCEPT ![c] = o] /\ u.status = w.status /\ u.edge = w.edge
  BY StepsHold
<1>2. u.bridge = w.bridge
  BY SoundFacts DEF IsRecord, Fields
<1>3. w.held \in [Call -> Outcomes \cup {"nothing"}]
  BY SoundFacts
<1> HIDE DEF u
<1>4. Works(w, u, c) /\ u.held[c] = o
  BY <1>1, <1>2, <1>3, BridgedSame DEF Works, Alive
<1> QED
  BY <1>1, <1>4 DEF u

LEMMA WorksStop ==
  ASSUME NEW w, Sound(w), NEW c \in Call
  PROVE  LET u == TerminateChildren(w, c)
         IN /\ Plain(u) = TerminateChildren(Plain(w), c) /\ Works(w, u, c)
            /\ u.held = w.held /\ u.status = w.status /\ (Draining(u, c) => Draining(w, c))
<1> DEFINE u == TerminateChildren(w, c)
<1>1. /\ Plain(u) = TerminateChildren(Plain(w), c) /\ Sound(u) /\ Steps(w, u)
      /\ u.held = w.held /\ u.status = w.status
      /\ \A i \in Inner : u.edge[i] = IF ParentOf[i] = c /\ w.edge[i] = "running"
                                      THEN "cancelling" ELSE w.edge[i]
  BY StepsStop
<1>2. u.bridge = w.bridge
  BY SoundFacts DEF TerminateChildren, IsRecord, Fields
<1> HIDE DEF u
<1>3. Works(w, u, c) /\ (Draining(u, c) => Draining(w, c))
  BY <1>1, <1>2, BridgedSame DEF Works, Alive, Draining, Children
<1> QED
  BY <1>1, <1>3 DEF u

\* The outcome that was held applies.
LEMMA WorksSettled ==
  ASSUME NEW w, Sound(w), NEW c \in Call, ~Draining(w, c),
         w.status[c] \in {"running", "awaitingAnswer"}
  PROVE  LET u == Settled(w, c)
         IN Plain(u) = Settled(Plain(w), c) /\ Works(w, u, c) /\ u.held[c] = "nothing"
<1> DEFINE v == [w EXCEPT !.held[c] = "nothing"]
           p == Plain(w)
           q == [p EXCEPT !.held[c] = "nothing"]
           u == Settled(w, c)
<1>1. p.held = w.held /\ w.held \in [Call -> Outcomes \cup {"nothing"}]
  BY SoundFacts, PlainFacts
<1>2. Plain(v) = q /\ Works(w, v, c) /\ v.held[c] = "nothing" /\ v.status = w.status /\ v.edge = w.edge
  BY WorksHold
<1>3. /\ Settled(w, c) =
           CASE w.held[c] = "nothing"   -> w
             [] w.held[c] = "result"    -> Drop(Send(v, "delegateAck", c, Own), c)
             [] w.held[c] = "cancelled" -> Drop(Send(v, "terminateAck", c, Own), c)
             [] w.held[c] = "failure"   -> RaiseFailure(v, c)
      /\ Settled(p, c) =
           CASE p.held[c] = "nothing"   -> p
             [] p.held[c] = "result"    -> Drop(Send(q, "delegateAck", c, Own), c)
             [] p.held[c] = "cancelled" -> Drop(Send(q, "terminateAck", c, Own), c)
             [] p.held[c] = "failure"   -> RaiseFailure(q, c)
  BY DEF Settled
<1> HIDE DEF v, p, q
<1>4. Sound(v) /\ ~Draining(v, c) /\ v.status[c] \in {"running", "awaitingAnswer"}
  BY <1>2 DEF Works, Draining
<1>5. CASE w.held[c] = "nothing"
  BY <1>1, <1>3, <1>5, WorksSelf DEF p
<1>6. ASSUME NEW k \in {"delegateAck", "terminateAck"}
      PROVE  LET t == Drop(Send(v, k, c, Own), c)
             IN Plain(t) = Drop(Send(q, k, c, Own), c) /\ Works(w, t, c) /\ t.held[c] = "nothing"
  <2> DEFINE t == Drop(Send(v, k, c, Own), c)
  <2>1. Plain(t) = Drop(Send(q, k, c, Own), c) /\ Works(v, t, c) /\ t.held[c] = "nothing"
    BY <1>2, <1>4, WorksAnswer
  <2> HIDE DEF t
  <2>2. Works(w, t, c)
    BY <1>2, <2>1, WorksTwice
  <2> QED
    BY <2>1, <2>2 DEF t
<1>7. CASE w.held[c] = "result"
  BY <1>1, <1>3, <1>6, <1>7 DEF p
<1>8. CASE w.held[c] = "cancelled"
  BY <1>1, <1>3, <1>6, <1>8 DEF p
<1>9. CASE w.held[c] = "failure"
  <2> DEFINE t == RaiseFailure(v, c)
  <2>1. Plain(t) = RaiseFailure(q, c) /\ Works(v, t, c) /\ t.held = v.held
    BY <1>2, <1>4, WorksRaise
  <2> HIDE DEF t
  <2>2. Works(w, t, c) /\ t.held[c] = "nothing"
    BY <1>2, <2>1, WorksTwice
  <2>3. Settled(w, c) = t /\ Settled(p, c) = RaiseFailure(q, c)
    BY <1>1, <1>3, <1>9 DEF t
  <2> QED
    BY <2>1, <2>2, <2>3 DEF p
<1> QED
  BY <1>1, <1>5, <1>7, <1>8, <1>9 DEF Outcomes

\* The barrier.
LEMMA WorksSettle ==
  ASSUME NEW w, Sound(w), NEW c \in Call
  PROVE  LET u == MaybeSettle(w, c)
         IN /\ Plain(u) = MaybeSettle(Plain(w), c) /\ Works(w, u, c)
            /\ u.held[c] # "nothing" => w.held[c] # "nothing"
            /\ u.held[c] # "nothing" /\ w.status[c] \in {"running", "awaitingAnswer"} => Draining(w, c)
<1> DEFINE p == Plain(w)
<1>1. /\ p.held = w.held /\ p.status = w.status /\ p.edge = w.edge /\ p.settled = w.settled
      /\ w.status \in [Call -> Statuses]
  BY SoundFacts, PlainFacts
<1>2. (Live(p, c) <=> Live(w, c)) /\ (Draining(p, c) <=> Draining(w, c))
  BY <1>1 DEF Live, Draining
<1>3. CASE ~Live(w, c) \/ Draining(w, c)
  <2>1. MaybeSettle(w, c) = w /\ MaybeSettle(p, c) = p
    BY <1>2, <1>3 DEF MaybeSettle
  <2>2. w.status[c] \in {"running", "awaitingAnswer"} => Draining(w, c)
    BY <1>3 DEF Live
  <2> QED
    BY <2>1, <2>2, WorksSelf
<1>4. CASE Live(w, c) /\ ~Draining(w, c) /\ w.status[c] = "cancelling"
  <2>1. /\ MaybeSettle(w, c) = IF w.settled[c] THEN Drop(Send(w, "terminateAck", c, Own), c) ELSE w
        /\ MaybeSettle(p, c) = IF w.settled[c] THEN Drop(Send(p, "terminateAck", c, Own), c) ELSE p
    BY <1>1, <1>2, <1>4 DEF MaybeSettle
  <2> DEFINE t == Drop(Send(w, "terminateAck", c, Own), c)
  <2>2. Plain(t) = Drop(Send(p, "terminateAck", c, Own), c) /\ Works(w, t, c) /\ t.held[c] = "nothing"
    BY <1>4, WorksAnswer
  <2> HIDE DEF t, p
  <2>3. CASE w.settled[c]
    BY <1>4, <2>1, <2>2, <2>3 DEF t, p
  <2>4. CASE ~w.settled[c]
    BY <1>4, <2>1, <2>4, WorksSelf DEF p
  <2> QED
    BY <2>3, <2>4
<1>5. CASE Live(w, c) /\ ~Draining(w, c) /\ w.status[c] # "cancelling"
  <2>1. MaybeSettle(w, c) = Settled(w, c) /\ MaybeSettle(p, c) = Settled(p, c)
    BY <1>1, <1>2, <1>5 DEF MaybeSettle
  <2>2. w.status[c] \in {"running", "awaitingAnswer"}
    BY <1>5 DEF Live
  <2> QED
    BY <1>5, <2>1, <2>2, WorksSettled
<1> QED
  BY <1>3, <1>4, <1>5

\* The transport delivers an outcome.
LEMMA WorksComplete ==
  ASSUME NEW w, Sound(w), NEW c \in Call, NEW o \in Outcomes
  PROVE  LET u == Complete(w, c, o)
         IN /\ Plain(u) = Complete(Plain(w), c, o) /\ Works(w, u, c)
            /\ u.held[c] # "nothing" => w.held[c] # "nothing" \/ Draining(w, c)
<1> DEFINE p == Plain(w)
<1>1. p.status = w.status /\ w.status \in [Call -> Statuses]
  BY SoundFacts, PlainFacts
<1>2. Live(p, c) <=> Live(w, c)
  BY <1>1 DEF Live
<1>3. CASE ~Live(w, c)
  <2>1. Complete(w, c, o) = w /\ Complete(p, c, o) = p
    BY <1>1, <1>2, <1>3 DEF Complete, Live
  <2> QED
    BY <2>1, WorksSelf
<1>4. CASE Live(w, c) /\ w.status[c] = "cancelling"
  <2> DEFINE v == [w EXCEPT !.settled[c] = TRUE]
             q == [p EXCEPT !.settled[c] = TRUE]
  <2>1. Complete(w, c, o) = MaybeSettle(v, c) /\ Complete(p, c, o) = MaybeSettle(q, c)
    BY <1>1, <1>2, <1>4 DEF Complete
  <2>2. /\ Plain(v) = q /\ Sound(v) /\ Steps(w, v)
        /\ v.held = w.held /\ v.status = w.status /\ v.edge = w.edge
    BY StepsFinish
  <2>3. v.bridge = w.bridge
    BY SoundFacts DEF IsRecord, Fields
  <2> HIDE DEF v, q, p
  <2>4. Works(w, v, c)
    BY <2>2, <2>3, BridgedSame DEF Works, Alive
  <2> DEFINE u == MaybeSettle(v, c)
  <2>5. /\ Plain(u) = MaybeSettle(q, c) /\ Works(v, u, c)
        /\ u.held[c] # "nothing" => v.held[c] # "nothing"
    BY <2>2, WorksSettle
  <2> HIDE DEF u
  <2>6. Works(w, u, c)
    BY <2>4, <2>5, WorksTwice
  <2> QED
    BY <2>1, <2>2, <2>5, <2>6 DEF u, p
<1>5. CASE Live(w, c) /\ w.status[c] # "cancelling"
  <2> DEFINE v == [w EXCEPT !.held[c] = o]
             q == [p EXCEPT !.held[c] = o]
             s == TerminateChildren(v, c)
             u == MaybeSettle(s, c)
  <2>1. Complete(w, c, o) = u /\ Complete(p, c, o) = MaybeSettle(TerminateChildren(q, c), c)
    BY <1>1, <1>2, <1>5 DEF Complete
  <2>2. /\ Plain(v) = q /\ Works(w, v, c) /\ v.held[c] = o /\ v.status = w.status /\ v.edge = w.edge
    BY WorksHold
  <2> HIDE DEF v, q, p
  <2>3. /\ Plain(s) = TerminateChildren(q, c) /\ Works(v, s, c)
        /\ s.held = v.held /\ s.status = v.status /\ (Draining(s, c) => Draining(v, c))
    BY <2>2, WorksStop DEF Works
  <2> HIDE DEF s
  <2>4. /\ Plain(u) = MaybeSettle(Plain(s), c) /\ Works(s, u, c)
        /\ u.held[c] # "nothing" /\ s.status[c] \in {"running", "awaitingAnswer"} => Draining(s, c)
    BY <2>3, WorksSettle DEF Works
  <2> HIDE DEF u
  <2>5. Works(w, u, c)
    BY <2>2, <2>3, <2>4, WorksTwice DEF Works
  <2>6. s.status[c] \in {"running", "awaitingAnswer"}
    BY <1>5, <2>2, <2>3 DEF Live
  <2>7. u.held[c] # "nothing" => Draining(w, c)
    BY <2>2, <2>3, <2>4, <2>6 DEF Draining
  <2> QED
    BY <2>1, <2>3, <2>4, <2>5, <2>7 DEF p
<1> QED
  BY <1>3, <1>4, <1>5

\* A call is cancelled: its thread gave it up.
LEMMA WorksTerminate ==
  ASSUME NEW w, Sound(w), NEW c \in Call, w.proxy[c] \in {"cancelling", "done"}
  PROVE  LET u == OnTerminate(w, c)
         IN /\ Plain(u) = OnTerminate(Plain(w), c) /\ Works(w, u, c)
            /\ u.held[c] # "nothing" => w.held[c] # "nothing"
            /\ w.status[c] \in {"running", "cancelling"} => u.status[c] \in {"cancelling", "gone"}
<1> DEFINE p == Plain(w)
<1>1. /\ p.status = w.status /\ w.status \in [Call -> Statuses]
      /\ w.held \in [Call -> Outcomes \cup {"nothing"}] /\ Fields \subseteq DOMAIN w
  BY SoundFacts, PlainFacts
<1>2. Live(p, c) <=> Live(w, c)
  BY <1>1 DEF Live
<1>3. CASE ~Live(w, c)
  <2> DEFINE u == Send(w, "terminateAck", c, Own)
  <2>1. OnTerminate(w, c) = u /\ OnTerminate(p, c) = Send(p, "terminateAck", c, Own)
    BY <1>1, <1>2, <1>3 DEF OnTerminate, Live
  <2>2. Event("terminateAck", c, Own) \in Sayings
    BY DEF Sayings
  <2>3. /\ Plain(u) = Send(p, "terminateAck", c, Own) /\ Sound(u) /\ Steps(w, u)
        /\ \A f \in DOMAIN w \ {"mail"} : u[f] = w[f]
    BY <2>2, StepsSend, PlainSend
  <2> HIDE DEF u, p
  <2>4. u.status = w.status /\ u.held = w.held /\ u.edge = w.edge /\ u.bridge = w.bridge
    BY <1>1, <2>3 DEF Fields
  <2>5. Works(w, u, c)
    BY <2>3, <2>4, BridgedSame DEF Works, Alive
  <2> QED
    BY <1>3, <2>1, <2>3, <2>4, <2>5 DEF p, Live
<1>4. CASE Live(w, c) /\ w.status[c] = "cancelling"
  <2>1. OnTerminate(w, c) = w /\ OnTerminate(p, c) = p
    BY <1>1, <1>2, <1>4 DEF OnTerminate
  <2> QED
    BY <1>4, <2>1, WorksSelf
<1>5. CASE Live(w, c) /\ w.status[c] # "cancelling"
  <2> DEFINE v == Cancelled(w, c)
             q == Cancelled(p, c)
             s == TerminateChildren(v, c)
             u == MaybeSettle(s, c)
  <2>1. OnTerminate(w, c) = u /\ OnTerminate(p, c) = MaybeSettle(TerminateChildren(q, c), c)
    BY <1>1, <1>2, <1>5 DEF OnTerminate, Cancelled
  <2>2. w.status[c] \in {"running", "awaitingAnswer"}
    BY <1>5 DEF Live
  <2>3. /\ Plain(v) = q /\ Sound(v) /\ Steps(w, v) /\ v.held = [w.held EXCEPT ![c] = "nothing"]
        /\ v.status = [w.status EXCEPT ![c] = "cancelling"] /\ v.edge = w.edge
    BY <2>2, StepsCancelled
  <2>4. v.bridge = w.bridge
    BY SoundFacts DEF IsRecord, Fields, Cancelled
  <2> HIDE DEF v, q, p
  <2>5. Works(w, v, c) /\ v.held[c] = "nothing"
    BY <1>1, <2>3, <2>4, BridgedSame DEF Works, Alive
  <2>6. /\ Plain(s) = TerminateChildren(q, c) /\ Works(v, s, c) /\ s.held = v.held
    BY <2>3, WorksStop
  <2> HIDE DEF s
  <2>7. /\ Plain(u) = MaybeSettle(Plain(s), c) /\ Works(s, u, c)
        /\ u.held[c] # "nothing" => s.held[c] # "nothing"
    BY <2>6, WorksSettle DEF Works
  <2> HIDE DEF u
  <2>8. Works(w, u, c)
    BY <2>5, <2>6, <2>7, WorksTwice DEF Works
  <2>9. u.status[c] \in {"cancelling", "gone"}
    <3>1. v.status[c] = "cancelling"
      BY <1>1, <2>3
    <3>2. Steps(v, s) /\ Steps(s, u)
      BY <2>6, <2>7 DEF Works
    <3> QED
      BY <3>1, <3>2 DEF Steps, Ages
  <2> QED
    BY <2>1, <2>5, <2>6, <2>7, <2>8, <2>9 DEF p
<1> QED
  BY <1>3, <1>4, <1>5

\* The row of a delegation is retired, and its outcome staged if its bridge is known.
LEMMA WorksRetire ==
  ASSUME NEW w, Sound(w), Bridged(w), NEW i \in Inner, Alive(w, i), NEW o \in Outcomes
  PROVE  LET c      == ParentOf[i]
             bridge == {b \in w.bridge : b[1] = i}
             q      == SetToSeq({[call |-> c, token |-> b[2], outcome |-> o, inner |-> i] : b \in bridge})
             u      == Retired(w, i, w.bridge \ bridge, w.staged \o q)
         IN /\ Plain(u) = Retired(Plain(w), i, w.bridge \ bridge, w.staged \o q) /\ Works(w, u, c)
            /\ u.held = w.held /\ u.status = w.status
<1> DEFINE c == ParentOf[i]
           bridge == {b \in w.bridge : b[1] = i}
           S == {[call |-> c, token |-> b[2], outcome |-> o, inner |-> i] : b \in bridge}
           q == SetToSeq(S)
           B == w.bridge \ bridge
           R == w.staged \o q
           u == Retired(w, i, B, R)
           p == Plain(w)
           v == Retired(p, i, B, R)
<1>1. /\ IsRecord(w) /\ Fields \subseteq DOMAIN w /\ w.mail \in Seq(ToSet(w.mail))
      /\ w.edge \in [Inner -> Edges] /\ w.status \in [Call -> Statuses]
      /\ IsRecord(p) /\ DOMAIN p = DOMAIN w /\ p.edge = w.edge /\ IsWarm(p)
      /\ p.relays = {} /\ p.asked = {} /\ p.callee = [j \in Inner |-> Simple(w.callee[j])]
      /\ p.mail = [n \in DOMAIN w.mail |-> Hushed(w.mail[n])]
      /\ \A f \in DOMAIN w \ {"relays", "asked", "callee", "mail"} : p[f] = w[f]
  BY SoundFacts, PlainFacts DEF Sound
<1>2. q \in Seq(ToSet(q)) /\ \A s \in ToSet(q) : s.inner = i /\ s.outcome = o
  <2>1. bridge \subseteq {<<i, i>>}
    BY DEF Bridged
  <2> DEFINE e == [call |-> c, token |-> i, outcome |-> o, inner |-> i]
  <2>2. S \subseteq {e}
    BY <2>1
  <2>3. IsFiniteSet(S)
    <3> HIDE DEF S, e
    <3>1. IsFiniteSet({e}) /\ S \in SUBSET {e}
      BY <2>2, FS_Singleton
    <3> QED
      BY <3>1, FS_Subset
  <2> HIDE DEF S
  <2>4. q \in Seq(S) /\ ToSet(q) = S
    BY <2>3, SetToSeqFacts
  <2> QED
    BY <2>4 DEF S
<1> HIDE DEF p, q, B, R
<1>3. /\ IsRecord(u) /\ DOMAIN u = DOMAIN w /\ u.edge = [w.edge EXCEPT ![i] = "retired"]
      /\ u.bridge = B /\ u.staged = R
      /\ \A f \in DOMAIN w \ {"edge", "bridge", "staged"} : u[f] = w[f]
  BY <1>1 DEF IsRecord, Fields, Retired
<1>4. /\ IsRecord(v) /\ DOMAIN v = DOMAIN w /\ v.edge = [w.edge EXCEPT ![i] = "retired"]
      /\ v.bridge = B /\ v.staged = R
      /\ \A f \in DOMAIN w \ {"edge", "bridge", "staged"} : v[f] = p[f]
  BY <1>1 DEF IsRecord, Fields, Retired
<1> HIDE DEF u, v
<1>5. v = Plain(u)
  <2>1. \A f \in DOMAIN u \ {"relays", "asked", "callee", "mail"} : v[f] = u[f]
    <3> SUFFICES ASSUME NEW f \in DOMAIN u \ {"relays", "asked", "callee", "mail"} PROVE v[f] = u[f]
      OBVIOUS
    <3>1. CASE f \in {"edge", "bridge", "staged"}
      BY <1>3, <1>4, <3>1
    <3>2. CASE f \notin {"edge", "bridge", "staged"}
      BY <1>1, <1>3, <1>4, <3>2
    <3> QED
      BY <3>1, <3>2
  <2>2. u.mail = w.mail /\ u.callee = w.callee /\ v.relays = {} /\ v.asked = {}
        /\ v.callee = p.callee /\ v.mail = p.mail
    BY <1>1, <1>3, <1>4 DEF Fields
  <2> QED
    BY <1>1, <1>3, <1>4, <2>1, <2>2, PlainIs
<1>6. /\ u.mail = w.mail /\ u.relays = w.relays /\ u.status = w.status /\ u.held = w.held
  BY <1>1, <1>3 DEF Fields
<1>7. Sound(u)
  <2>1. IsWarm(v)
    BY <1>1, EdgeFacts DEF v
  <2> QED
    BY <1>1, <1>3, <1>5, <1>6, <2>1 DEF Sound
<1>8. u.edge[i] = "retired" /\ \A j \in Inner : j # i => u.edge[j] = w.edge[j]
  BY <1>1, <1>3
<1>9. Ages(w, u)
  BY <1>6, <1>8 DEF Ages
<1>10. ASSUME StagedOk(w) PROVE StagedOk(u)
  <2>1. R \in Seq(ToSet(w.staged) \cup ToSet(q))
    <3> DEFINE A == ToSet(w.staged)
               C == ToSet(q)
               s == w.staged
    <3>1. s \in Seq(A) /\ q \in Seq(C)
      BY <1>2, <1>10 DEF StagedOk
    <3> HIDE DEF A, C, s
    <3>2. s \in Seq(A \cup C) /\ q \in Seq(A \cup C)
      BY <3>1, SeqWiden
    <3>3. s \o q \in Seq(A \cup C)
      BY <3>2
    <3> QED
      BY <3>3 DEF A, C, s, R
  <2>2. R \in Seq(ToSet(R)) /\ ToSet(R) \subseteq ToSet(w.staged) \cup ToSet(q)
    BY <2>1, SeqOfOwn
  <2>3. \A s \in ToSet(R) : s.inner \in Inner /\ u.edge[s.inner] = "retired" /\ s.outcome \in Outcomes
    BY <1>2, <1>8, <1>10, <2>2 DEF StagedOk
  <2> QED
    BY <1>3, <2>2, <2>3 DEF StagedOk
<1>11. << >> \in Seq(Sayings) /\ u.mail = w.mail \o << >>
  BY <1>1, <1>6
<1>12. Steps(w, u)
  BY <1>3, <1>6, <1>9, <1>10, <1>11 DEF Steps, Lifecycle
<1>13. Bridged(u)
  <2>1. \A b \in u.bridge : \E j \in Inner : b = <<j, j>>
    BY <1>3 DEF Bridged, B
  <2>2. ASSUME NEW j \in Inner PROVE <<j, j>> \in u.bridge <=> Alive(u, j)
    <3>1. <<j, j>> \in u.bridge <=> <<j, j>> \in w.bridge /\ j # i
      BY <1>3 DEF B
    <3> QED
      BY <1>8, <3>1 DEF Bridged, Alive
  <2> QED
    BY <2>1, <2>2 DEF Bridged
<1>14. Works(w, u, c)
  BY <1>6, <1>7, <1>12, <1>13 DEF Works
<1> QED
  BY <1>5, <1>6, <1>14 DEF u, v, p, B, R, q

\* A child returned, or confirmed that it stops.
LEMMA WorksChildAck ==
  ASSUME NEW w, Sound(w), Bridged(w), NEW i \in Inner, w.edge[i] # "none",
         Alive(w, i) => Live(w, ParentOf[i]), NEW o \in Outcomes
  PROVE  LET c == ParentOf[i]
             u == OnChildAck(w, i, o)
         IN /\ Plain(u) = OnChildAck(Plain(w), i, o) /\ Works(w, u, c) /\ u.edge[i] = "retired"
            /\ u.held[c] # "nothing" => w.held[c] # "nothing"
<1> DEFINE c == ParentOf[i]
           p == Plain(w)
           bridge == {b \in w.bridge : b[1] = i}
           q == SetToSeq({[call |-> c, token |-> b[2], outcome |-> o, inner |-> i] : b \in bridge})
           v == Retired(w, i, w.bridge \ bridge, w.staged \o q)
           t == Retired(p, i, w.bridge \ bridge, w.staged \o q)
           u == MaybeSettle(v, c)
<1>1. /\ IsRecord(w) /\ Fields \subseteq DOMAIN w /\ w.edge \in [Inner -> Edges]
      /\ IsRecord(p) /\ DOMAIN p = DOMAIN w /\ p.edge = w.edge /\ p.status = w.status
      /\ p.bridge = w.bridge /\ p.staged = w.staged
      /\ c \in Call
  BY SoundFacts, PlainFacts, SomeLetters
<1>2. CASE Alive(w, i)
  <2>1. OnChildAck(w, i, o) = u
    BY <1>1, <1>2 DEF OnChildAck, Alive, Retired, IsRecord, Fields
  <2>2. OnChildAck(p, i, o) = MaybeSettle(t, c)
    <3> HIDE DEF p
    <3>1. p.edge[i] \in {"running", "cancelling"} /\ Live(p, c)
      BY <1>1, <1>2 DEF Alive, Live
    <3>2. OnChildAck(p, i, o) =
            MaybeSettle([p EXCEPT !.edge[i] = "retired", !.bridge = @ \ {b \in p.bridge : b[1] = i},
                          !.staged = @ \o SetToSeq({[call |-> c, token |-> b[2], outcome |-> o,
                                                     inner |-> i] : b \in {d \in p.bridge : d[1] = i}})], c)
      BY <3>1 DEF OnChildAck
    <3> QED
      BY <1>1, <3>2 DEF Retired, IsRecord, Fields
  <2>3. Plain(v) = t /\ Works(w, v, c) /\ v.held = w.held /\ v.status = w.status
    BY <1>2, WorksRetire
  <2>4. v.edge[i] = "retired"
    BY <1>1 DEF Retired, IsRecord, Fields
  <2> HIDE DEF v, t, p
  <2>5. /\ Plain(u) = MaybeSettle(Plain(v), c) /\ Works(v, u, c)
        /\ u.held[c] # "nothing" => v.held[c] # "nothing"
    BY <1>1, <2>3, WorksSettle DEF Works
  <2> HIDE DEF u
  <2>6. Works(w, u, c)
    BY <2>3, <2>5, WorksTwice
  <2>7. u.edge[i] = "retired"
    BY <2>4, <2>5 DEF Works, Steps, Ages, Alive
  <2> QED
    BY <2>1, <2>2, <2>3, <2>5, <2>6, <2>7 DEF p
<1>3. CASE ~Alive(w, i)
  <2>1. w.edge[i] = "retired"
    BY <1>1, <1>3 DEF Alive, Edges
  <2>2. [w.edge EXCEPT ![i] = "retired"] = w.edge
    BY <1>1, <2>1
  <2>3. [w EXCEPT !.edge[i] = "retired"] = w
    BY <1>1, <2>2 DEF IsRecord, Fields
  <2> HIDE DEF p
  <2>4. [p EXCEPT !.edge[i] = "retired"] = p
    BY <1>1, <2>2 DEF IsRecord, Fields
  <2>5. OnChildAck(w, i, o) = w
    BY <1>3, <2>3 DEF OnChildAck, Alive
  <2>6. OnChildAck(p, i, o) = p
    BY <1>1, <2>1, <2>4 DEF OnChildAck
  <2> QED
    BY <1>1, <2>1, <2>5, <2>6, WorksSelf DEF p
<1> QED
  BY <1>2, <1>3

\* Of the outcome of a call that never ran only its barrier is left.
LEMMA WorksHeld ==
  ASSUME NEW w, NEW u, NEW c \in Call, Works(w, u, c), u.held[c] # "nothing" => w.held[c] # "nothing",
         \A d \in Call : d # Provide => w.held[d] = "nothing"
  PROVE  \A d \in Call : d # Provide => u.held[d] = "nothing"
BY DEF Works

-----------------------------------------------------------------------------
(* What an operation of the lifecycle leaves of the nursery.               *)

\* The nursery, but for the asks and the letters that are on their way.
Minded(w) == IsNursery(w) /\ Sound(w) /\ Tended(w) /\ \A i \in Inner : Wound(w, i)

LEMMA KeptMinded == ASSUME NEW w, Kept(w) PROVE Minded(w)
<1>1. /\ IsRecord(w) /\ IsWarm(Plain(w)) /\ w.mail \in Seq(ToSet(w.mail))
      /\ \A i \in Inner : Wound(Plain(w), i)
  BY NurseryRecord DEF Kept, Consistent, IsNursery
<1>2. Plain(w).status = w.status /\ Plain(w).edge = w.edge /\ Plain(w).held = w.held
  BY <1>1, PlainFacts
<1>3. \A i \in Inner : Wound(w, i)
  BY <1>1, <1>2 DEF Wound
<1> QED
  BY <1>1, <1>3 DEF Minded, Sound, Kept

LEMMA MindedKept ==
  ASSUME NEW w, IsNursery(w), Tended(w), Consistent(Plain(w)), AsksKept(w) PROVE Kept(w) /\ Minded(w)
<1>1. Kept(w)
  BY DEF Kept
<1> QED
  BY <1>1, KeptMinded

LEMMA NurseryFacts ==
  ASSUME NEW w, Minded(w)
  PROVE  /\ IsRecord(w) /\ DOMAIN w = Fields \cup RegionFields /\ w.mail \in Seq(ToSet(w.mail))
         /\ w.status \in [Call -> Statuses] /\ w.settled \in [Call -> BOOLEAN]
         /\ w.held \in [Call -> Outcomes \cup {"nothing"}]
         /\ w.edge \in [Inner -> Edges] /\ w.raised \in [Call -> Nat]
         /\ w.proxy \in [Call -> Proxies] /\ w.callee \in [Inner -> Callees \cup {"failed"}]
         /\ w.relays \subseteq Call \X Asks /\ w.asked \subseteq Call \X (Asks \cup {Own})
         /\ w.watches \in Seq(Watch) /\ w.waiter \in [Fiber -> Cancel \cup {None}]
         /\ w.running \subseteq Fiber
BY SoundFacts DEF Minded, IsNursery

LEMMA RegionParts ==
  /\ Provide \in Call /\ Fork \subseteq Call /\ Watch \subseteq Call /\ Cancel \subseteq Call
  /\ Roster \subseteq Call
  /\ \A c \in Call : c # Provide => c \in Fork \cup Watch \cup Cancel \cup Roster
  /\ Continuation \in Inner /\ Fiber = Inner \ {Continuation}
  /\ \A i \in Inner : ParentOf[i] = Provide
  /\ Children(Provide) = Inner /\ \A c \in Call : c # Provide => Children(c) = {}
  /\ None \notin Call /\ None \notin Cancel /\ None \notin Watch
BY RegionAssumption DEF Fiber, Children

LEMMA StepsMail ==
  ASSUME NEW w, NEW u, Sound(w), Steps(w, u)
  PROVE  /\ \A t \in ToSet(w.mail) : t \in ToSet(u.mail)
         /\ \A t \in ToSet(u.mail) : t \in ToSet(w.mail) \/ t \in Sayings
         /\ \A t : Has(w.mail, t) => Has(u.mail, t)
         /\ \A t : Has(u.mail, t) => Has(w.mail, t) \/ t \in Sayings
<1>1. PICK q \in Seq(Sayings) : u.mail = w.mail \o q
  BY DEF Steps
<1> DEFINE m == w.mail
           A == ToSet(m) \cup Sayings
<1>2. m \in Seq(ToSet(m))
  BY SoundFacts
<1>3. m \in Seq(A) /\ q \in Seq(A) /\ ToSet(q) \subseteq Sayings
  <2>1. ToSet(q) \subseteq Sayings
    BY SeqOfOwn
  <2> QED
    BY <1>2, <2>1, SeqWiden
<1> HIDE DEF A, m
<1>4. ToSet(m \o q) = ToSet(m) \cup ToSet(q)
  BY <1>3, ToSetConcat
<1>5. ToSet(u.mail) = ToSet(w.mail) \cup ToSet(q)
  BY <1>1, <1>4 DEF m
<1> QED
  BY <1>3, <1>5, HasIsIn

LEMMA StepsNursery ==
  ASSUME NEW w, NEW u, IsNursery(w), Sound(w), Steps(w, u), Sound(u) PROVE IsNursery(u)
<1>1. /\ DOMAIN u = DOMAIN w /\ \A f \in DOMAIN w \ Lifecycle : u[f] = w[f]
      /\ DOMAIN w = Fields \cup RegionFields
  BY DEF Steps, IsNursery
<1>2. /\ u.callee = w.callee /\ u.asked = w.asked /\ u.mailbox = w.mailbox /\ u.arrived = w.arrived
      /\ u.emitted = w.emitted /\ u.watches = w.watches /\ u.waiter = w.waiter /\ u.told = w.told
      /\ u.running = w.running /\ u.unstarted = w.unstarted /\ u.open = w.open
  BY <1>1 DEF Fields, RegionFields, Lifecycle
<1>3. u = [f \in DOMAIN u |-> u[f]] /\ u.mail \in Seq(ToSet(u.mail)) /\ u.relays \subseteq w.relays
  BY DEF Sound, IsRecord, Steps
<1>4. \A t \in ToSet(u.mail) : t.k \in Asking => t \in Speeches
  <2>1. \A t \in Sayings : t.k \in Asking => t \in Speeches
    BY DEF Sayings, Asking, Speeches, Event
  <2> QED
    BY <2>1, StepsMail DEF IsNursery
<1> QED
  BY <1>1, <1>2, <1>3, <1>4 DEF IsNursery

\* While the provide runs, a watch that takes asks goes on, or its thread is done with it.
WatchesStay(w, u) ==
  w.status[Provide] = "running" =>
    \A v \in Watch : Watching(w, v) =>
      /\ u.status[v] # "awaitingAnswer"
      /\ u.status[v] = "gone" => w.proxy[v] \in {"cancelling", "done"}

LEMMA StepsTended ==
  ASSUME NEW w, NEW u, Minded(w), Steps(w, u), Sound(u), Bridged(u), WatchesStay(w, u),
         \A c \in Call : c # Provide => u.held[c] = "nothing"
  PROVE  IsNursery(u) /\ Tended(u)
<1>1. IsNursery(u)
  BY StepsNursery DEF Minded
<1>2. /\ DOMAIN u = DOMAIN w /\ \A f \in DOMAIN w \ Lifecycle : u[f] = w[f]
      /\ DOMAIN w = Fields \cup RegionFields /\ Ages(w, u) /\ u.relays \subseteq w.relays
      /\ \A r \in u.relays : r[1] \in Call /\ u.status[r[1]] = "gone" => w.status[r[1]] = "gone"
      /\ w.status \in [Call -> Statuses] /\ u.status \in [Call -> Statuses]
      /\ w.edge \in [Inner -> Edges] /\ w.relays \subseteq Call \X Asks
  BY NurseryFacts, SoundFacts DEF Steps
<1>3. /\ u.callee = w.callee /\ u.asked = w.asked /\ u.mailbox = w.mailbox /\ u.arrived = w.arrived
      /\ u.emitted = w.emitted /\ u.told = w.told /\ u.unstarted = w.unstarted /\ u.proxy = w.proxy
  BY <1>2 DEF Fields, RegionFields, Lifecycle
<1>4. \A i \in Inner : (u.edge[i] = "none" <=> w.edge[i] = "none") /\ (u.edge[i] = "running" => w.edge[i] = "running")
  BY <1>2 DEF Ages, Alive
<1>5. Named(u)
  BY <1>2, <1>3, <1>4, RegionParts, RegionAssumption DEF Minded, Tended, Named, Ages, Fiber
<1>6. Truthful(u)
  BY <1>2, <1>3, <1>4, RegionParts, RegionAssumption DEF Minded, Tended, Truthful, Ages, Fiber
<1>7. Childless(u)
  BY <1>2, <1>3 DEF Minded, Tended, Childless, Ages
<1>8. InPlace(u)
  BY <1>3, <1>4 DEF Minded, Tended, InPlace, Fiber
<1>9. Raising(u)
  <2>1. ASSUME u.status[Provide] = "running", NEW v \in Watch PROVE u.status[v] # "awaitingAnswer"
    <3>1. w.status[Provide] = "running" /\ v \in Call /\ w.status[v] \in Statuses
      BY <1>2, <2>1, RegionParts DEF Ages
    <3>2. w.status[v] # "awaitingAnswer"
      BY <3>1 DEF Minded, Tended, Raising
    <3>3. CASE Watching(w, v)
      BY <3>1, <3>3 DEF WatchesStay
    <3>4. CASE ~Watching(w, v)
      BY <1>2, <3>1, <3>2, <3>4 DEF Watching, Ages, Statuses
    <3> QED
      BY <3>3, <3>4
  <2>2. ASSUME NEW a \in u.relays, a[1] \in Watch PROVE Live(u, a[1])
    <3>1. a \in w.relays /\ a[1] \in Call
      BY <1>2, <2>2, RegionParts
    <3>2. Live(w, a[1])
      BY <2>2, <3>1 DEF Minded, Tended, Raising
    <3>3. u.status[a[1]] \notin {"gone", "none"} /\ u.status[a[1]] \in Statuses
      BY <1>2, <2>2, <3>1, <3>2 DEF Live, Ages
    <3> QED
      BY <3>3 DEF Statuses, Live
  <2> QED
    BY <2>1, <2>2 DEF Raising
<1> QED
  BY <1>1, <1>5, <1>6, <1>7, <1>8, <1>9 DEF Tended

LEMMA StepsAsks ==
  ASSUME NEW w, NEW u, Minded(w), AsksKept(w), Steps(w, u), WatchesStay(w, u)
  PROVE  AsksKept(u)
<1>1. /\ DOMAIN u = DOMAIN w /\ \A f \in DOMAIN w \ Lifecycle : u[f] = w[f]
      /\ DOMAIN w = Fields \cup RegionFields /\ Ages(w, u)
      /\ \A r \in w.relays : r[1] \in Call /\ r \notin u.relays => u.status[r[1]] = "gone"
      /\ w.status \in [Call -> Statuses]
      /\ w.edge \in [Inner -> Edges] /\ w.relays \subseteq Call \X Asks
  BY NurseryFacts, SoundFacts DEF Steps
<1>2. /\ u.callee = w.callee /\ u.asked = w.asked /\ u.mailbox = w.mailbox
      /\ u.emitted = w.emitted /\ u.proxy = w.proxy
  BY <1>1 DEF Fields, RegionFields, Lifecycle
<1> SUFFICES ASSUME NEW i \in Fiber, u.callee[i] = "asking", u.edge[i] = "running"
             PROVE  Heard(u, i)
  BY DEF AsksKept
<1>3. i \in Inner /\ w.edge[i] = "running"
  BY <1>1 DEF Ages, Fiber
<1>4. Heard(w, i)
  BY <1>2, <1>3 DEF AsksKept
<1>5. w.status[Provide] = "running"
  <2>1. Wound(w, i) /\ ParentOf[i] = Provide
    BY <1>3, RegionParts DEF Minded
  <2>2. w.status[Provide] \in Statuses
    BY <1>1, RegionParts
  <2> QED
    BY <1>3, <2>1, <2>2 DEF Wound, Statuses
<1>6. \A t : Has(w.mail, t) => Has(u.mail, t)
  BY StepsMail DEF Minded
<1>7. ASSUME NEW v \in Watch, Raised(w, i, v) PROVE Raised(u, i, v)
  <2>1. CASE w.proxy[v] \in {"cancelling", "done"}
    BY <1>2, <1>7, <2>1 DEF Raised
  <2>2. CASE w.proxy[v] \notin {"cancelling", "done"}
    <3>1. <<v, i>> \in w.relays /\ v \in Call
      BY <1>7, <2>2, RegionParts DEF Raised
    <3>2. Watching(w, v)
      <4>1. Live(w, v) /\ w.status[v] # "awaitingAnswer"
        BY <1>5, <3>1 DEF Minded, Tended, Raising
      <4> QED
        BY <4>1 DEF Live, Watching
    <3>3. <<v, i>> \in u.relays
      BY <1>1, <1>5, <2>2, <3>1, <3>2 DEF WatchesStay
    <3> QED
      BY <1>2, <1>6, <1>7, <2>2, <3>3 DEF Raised
  <2> QED
    BY <2>1, <2>2
<1>8. CASE \E v \in Watch : Raised(w, i, v)
  BY <1>7, <1>8 DEF Heard
<1>9. CASE ~\E v \in Watch : Raised(w, i, v)
  BY <1>2, <1>4, <1>6, <1>9 DEF Heard
<1> QED
  BY <1>8, <1>9

-----------------------------------------------------------------------------
(* What no call hears of: the reactor's own fields, asks and answers.      *)

\* The same but for what is said in silence, and for the fields of this reactor.
LEMMA QuietKeeps ==
  ASSUME NEW w, Sound(w), Consistent(Plain(w)), NEW u, IsRecord(u),
         u.status = w.status, u.settled = w.settled, u.held = w.held, u.edge = w.edge,
         u.raised = w.raised, u.proxy = w.proxy,
         \A i \in Inner : Simple(u.callee[i]) = Simple(w.callee[i]),
         NEW q, q \in Seq(ToSet(q)), \A t \in ToSet(q) : ~IsEvent(Hushed(t)), u.mail = w.mail \o q
  PROVE  Consistent(Plain(u)) /\ Sound(u)
<1> DEFINE p == Plain(w)
           r == Plain(u)
           m == w.mail
           S == ToSet(m) \cup ToSet(q)
<1>1. /\ IsWarm(p) /\ p.relays = {} /\ p.asked = {} /\ p.mail = Hush(m)
      /\ p.callee = [i \in Inner |-> Simple(w.callee[i])]
      /\ p.status = w.status /\ p.settled = w.settled /\ p.held = w.held /\ p.edge = w.edge
      /\ p.raised = w.raised /\ p.proxy = w.proxy /\ m \in Seq(ToSet(m))
  BY PlainFacts DEF Sound, Hush
<1>2. /\ IsRecord(r) /\ r.relays = {} /\ r.asked = {} /\ r.mail = Hush(m \o q)
      /\ r.callee = [i \in Inner |-> Simple(u.callee[i])]
      /\ r.status = u.status /\ r.settled = u.settled /\ r.held = u.held /\ r.edge = u.edge
      /\ r.raised = u.raised /\ r.proxy = u.proxy
  <2>1. /\ IsRecord(r) /\ r.relays = {} /\ r.asked = {} /\ r.mail = Hush(u.mail)
        /\ r.callee = [i \in Inner |-> Simple(u.callee[i])]
        /\ r.status = u.status /\ r.settled = u.settled /\ r.held = u.held /\ r.edge = u.edge
        /\ r.raised = u.raised /\ r.proxy = u.proxy
    BY PlainFacts DEF Hush
  <2> HIDE DEF r
  <2> QED
    BY <2>1
<1>3. m \in Seq(S) /\ q \in Seq(S) /\ ToSet(q) \subseteq S
  BY <1>1, SeqWiden
<1>4. ToSet(m \o q) \subseteq S /\ m \o q \in Seq(ToSet(m \o q))
  <2> HIDE DEF S, m
  <2>1. m \o q \in Seq(S)
    BY <1>3
  <2> QED
    BY <2>1, SeqOfOwn
<1>5. Hush(m \o q) = Hush(m) \o Hush(q)
  BY <1>3, HushFacts
<1>6. IsMail(Hush(q)) /\ \A t \in ToSet(Hush(q)) : ~IsEvent(t)
  <2>1. Hush(q) \in Seq({Hushed(t) : t \in ToSet(q)})
    BY HushFacts
  <2> DEFINE h == Hush(q)
             H == {Hushed(t) : t \in ToSet(q)}
  <2> HIDE DEF h, H
  <2>2. h \in Seq(ToSet(h)) /\ ToSet(h) \subseteq H
    BY <2>1, SeqOfOwn DEF h, H
  <2>3. \A t \in H : ~IsEvent(t)
    BY DEF H
  <2> QED
    BY <2>2, <2>3 DEF h, IsMail
<1> HIDE DEF p, r, m
<1>7. /\ IsMail(p.mail \o Hush(q))
      /\ \A e : Has(p.mail \o Hush(q), e) <=> Has(p.mail, e) \/ Has(Hush(q), e)
      /\ \A e, f : Precedes(p.mail \o Hush(q), e, f) <=>
           Precedes(p.mail, e, f) \/ Precedes(Hush(q), e, f) \/ (Has(p.mail, e) /\ Has(Hush(q), f))
  <2>1. IsMail(p.mail)
    BY <1>1 DEF IsWarm
  <2> QED
    BY <1>6, <2>1, MailConcat
<1>8. r.mail = p.mail \o Hush(q)
  BY <1>1, <1>2, <1>5
<1>9. \A e : IsEvent(e) => ~Has(Hush(q), e)
  BY <1>6, HasIsIn
<1>10. \A e, f : IsEvent(e) => ~Precedes(Hush(q), e, f)
  BY <1>9 DEF Precedes, Has
<1>11. /\ \A e : IsEvent(e) => (Has(r.mail, e) <=> Has(p.mail, e))
       /\ \A e, f : IsEvent(e) /\ IsEvent(f) => (Precedes(r.mail, e, f) <=> Precedes(p.mail, e, f))
  BY <1>7, <1>8, <1>9, <1>10
<1>12. r.callee = p.callee
  BY <1>1, <1>2
<1>13. IsWarm(r)
  BY <1>1, <1>2, <1>7, <1>8, <1>12 DEF IsWarm, IsRecord
<1>14. Consistent(r)
  <2>1. Consistent(p)
    BY DEF p
  <2>2. /\ r.status = p.status /\ r.edge = p.edge /\ r.relays = p.relays /\ r.proxy = p.proxy
        /\ r.asked = p.asked /\ \A c \in Call : r.held[c] \in {"nothing", p.held[c]}
    BY <1>1, <1>2
  <2> QED
    BY <1>11, <1>12, <1>13, <2>1, <2>2, SameLettersKeep
<1>15. u.mail \in Seq(ToSet(u.mail))
  BY <1>4 DEF m
<1> QED
  BY <1>13, <1>14, <1>15 DEF Sound, r

LEMMA WithoutFacts ==
  ASSUME NEW S, NEW s \in Seq(S), NEW X
  PROVE  /\ Without(s, X) \in Seq(S) /\ ToSet(Without(s, X)) = ToSet(s) \ X
         /\ \A e, f : Precedes(Without(s, X), e, f) => Precedes(s, e, f)
<1> DEFINE N == {n \in DOMAIN s : s[n] \notin X}
           v == Picked(s, N)
<1>1. N \in SUBSET DOMAIN s
  OBVIOUS
<1>2. /\ v \in Seq(S) /\ \A e : Has(v, e) <=> \E n \in N : s[n] = e
      /\ \A e, f : Precedes(v, e, f) <=> \E m, n \in N : m < n /\ s[m] = e /\ s[n] = f
  <2> HIDE DEF N
  <2> QED
    BY <1>1, PickedFacts
<1>3. v = Without(s, X)
  BY DEF Without
<1> HIDE DEF v
<1>4. ASSUME NEW e, NEW f, Precedes(v, e, f) PROVE Precedes(s, e, f)
  <2>1. PICK m \in N, n \in N : m < n /\ s[m] = e /\ s[n] = f
    BY <1>2, <1>4
  <2> QED
    BY <2>1 DEF Precedes
<1>5. \A e : e \in ToSet(v) <=> e \in ToSet(s) \ X
  <2> SUFFICES ASSUME NEW e PROVE e \in ToSet(v) <=> e \in ToSet(s) \ X
    OBVIOUS
  <2>1. e \in ToSet(v) <=> \E n \in DOMAIN s : s[n] \notin X /\ s[n] = e
    BY <1>2, HasIsIn
  <2>2. e \in ToSet(s) <=> \E n \in DOMAIN s : s[n] = e
    BY HasIsIn DEF Has
  <2> QED
    BY <2>1, <2>2
<1> QED
  BY <1>2, <1>3, <1>4, <1>5
-----------------------------------------------------------------------------
(* What a turn dropped.                                                    *)

\* The routing of v agrees with its rows, but for what the turn from w dropped.
RoutedBut(w, v) ==
  LET gone == Dropped(w, v)
  IN /\ v.open => /\ Live(v, Provide) \/ Provide \in gone
                  /\ \A i \in Fiber : Alive(v, i) <=> i \in v.running /\ v.edge[i] # "retired"
     /\ v.status[Provide] = "running" /\ ~v.open => \A i \in Inner : v.edge[i] = "none"
     /\ \A i \in Fiber : v.waiter[i] # None =>
          /\ Target[v.waiter[i]] = i /\ v.edge[i] \in {"cancelling", "retired"}
          /\ Live(v, v.waiter[i]) \/ v.waiter[i] \in gone
     /\ \A x \in ToSet(v.watches) : Live(v, x) \/ x \in gone
     /\ ~v.open => v.running = {}

LEMMA DropCallFacts ==
  ASSUME NEW w, NEW v, Minded(v)
  PROVE  LET gone == Dropped(w, v)
             u    == OnDropCall(w, v)
         IN /\ IsRecord(u) /\ DOMAIN u = DOMAIN v
            /\ \A f \in DOMAIN v \ {"open", "running", "watches", "waiter", "mail"} : u[f] = v[f]
            /\ u.open = (v.open /\ Provide \notin gone)
            /\ u.running = IF Provide \in gone THEN {} ELSE v.running
            /\ u.watches \in Seq(Watch) /\ ToSet(u.watches) = ToSet(v.watches) \ gone
            /\ u.waiter = [i \in Fiber |-> IF v.waiter[i] \in gone THEN None ELSE v.waiter[i]]
            /\ u.mail = IF ToSet(v.watches) \cap gone # {}
                        THEN v.mail \o <<Work("pump", Provide)>> ELSE v.mail
<1> DEFINE gone == Dropped(w, v)
           s == Without(v.watches, gone)
           mail == IF ToSet(v.watches) \cap gone # {} THEN v.mail \o <<Work("pump", Provide)>> ELSE v.mail
           waiter == [i \in Fiber |-> IF v.waiter[i] \in gone THEN None ELSE v.waiter[i]]
           closed == IF Provide \in gone THEN CloseScope(v) ELSE v
           seen == UnregisterWatches(closed, gone)
           left == [seen EXCEPT !.waiter = [i \in Fiber |-> IF @[i] \in gone THEN None ELSE @[i]]]
           u == OnDropCall(w, v)
<1>1. /\ IsRecord(v) /\ DOMAIN v = Fields \cup RegionFields
      /\ v.watches \in Seq(Watch) /\ v.open \in BOOLEAN
  BY NurseryFacts DEF Minded, IsNursery
<1>2. s \in Seq(Watch) /\ ToSet(s) = ToSet(v.watches) \ gone
  BY <1>1, WithoutFacts
<1>3. u = IF ToSet(v.watches) \cap gone # {} THEN Schedule(left, <<Work("pump", Provide)>>) ELSE left
  BY DEF OnDropCall
<1> HIDE DEF gone, u
<1>4. /\ IsRecord(closed) /\ DOMAIN closed = DOMAIN v
      /\ \A f \in DOMAIN v \ {"open", "running"} : closed[f] = v[f]
      /\ closed.open = (v.open /\ Provide \notin gone)
      /\ closed.running = IF Provide \in gone THEN {} ELSE v.running
  BY <1>1 DEF CloseScope, IsRecord, Fields, RegionFields
<1>5. closed.watches = v.watches /\ closed.waiter = v.waiter /\ closed.mail = v.mail
  BY <1>1, <1>4 DEF Fields, RegionFields
<1> HIDE DEF closed
<1>6. /\ IsRecord(seen) /\ DOMAIN seen = DOMAIN v /\ seen.watches = s
      /\ \A f \in DOMAIN v \ {"watches"} : seen[f] = closed[f]
  BY <1>1, <1>4, <1>5 DEF UnregisterWatches, IsRecord, Fields, RegionFields
<1> HIDE DEF seen, s
<1>7. seen.waiter = v.waiter /\ seen.mail = v.mail
  BY <1>1, <1>5, <1>6 DEF Fields, RegionFields
<1>8. /\ IsRecord(left) /\ DOMAIN left = DOMAIN v /\ left.waiter = waiter
      /\ \A f \in DOMAIN v \ {"waiter"} : left[f] = seen[f]
  BY <1>1, <1>6, <1>7 DEF IsRecord, Fields, RegionFields
<1> HIDE DEF left, waiter
<1>9. left.mail = v.mail
  BY <1>1, <1>7, <1>8 DEF Fields, RegionFields
<1>10. /\ IsRecord(u) /\ DOMAIN u = DOMAIN v /\ u.mail = mail
       /\ \A f \in DOMAIN v \ {"mail"} : u[f] = left[f]
  BY <1>1, <1>3, <1>8, <1>9 DEF Schedule, IsRecord, Fields, RegionFields
<1> HIDE DEF mail
<1>11. \A f \in DOMAIN v \ {"open", "running", "watches", "waiter", "mail"} : u[f] = v[f]
  BY <1>4, <1>6, <1>8, <1>10
<1>12. /\ u.open = closed.open /\ u.running = closed.running /\ u.watches = s /\ u.waiter = waiter
  BY <1>1, <1>6, <1>8, <1>10 DEF Fields, RegionFields
<1> QED
  BY <1>2, <1>4, <1>10, <1>11, <1>12 DEF u, gone, mail, waiter

\* More mail is as good.
LEMMA MoreMail ==
  ASSUME NEW w, NEW u, AsksKept(w), \A t : Has(w.mail, t) => Has(u.mail, t),
         u.callee = w.callee, u.edge = w.edge, u.mailbox = w.mailbox, u.emitted = w.emitted,
         u.proxy = w.proxy, u.relays = w.relays, u.asked = w.asked
  PROVE  AsksKept(u)
<1> SUFFICES ASSUME NEW i \in Fiber, u.callee[i] = "asking", u.edge[i] = "running" PROVE Heard(u, i)
  BY DEF AsksKept
<1>1. Heard(w, i)
  BY DEF AsksKept
<1>2. \A v \in Watch : Raised(w, i, v) => Raised(u, i, v)
  BY DEF Raised
<1> QED
  BY <1>1, <1>2 DEF Heard

\* The fields of which the nursery's own invariant speaks.
LEMMA SameTended ==
  ASSUME NEW w, NEW u, Tended(w), u.status = w.status, u.held = w.held, u.relays = w.relays,
         u.edge = w.edge, u.bridge = w.bridge, u.proxy = w.proxy, u.unstarted = w.unstarted,
         u.told = w.told, u.mailbox = w.mailbox, u.arrived = w.arrived, u.emitted = w.emitted
  PROVE  Tended(u)
BY DEF Tended, Bridged, Alive, Named, Truthful, Childless, InPlace, Raising, Live

PumpDue == Work("pump", Provide)

LEMMA PumpFacts ==
  /\ ~IsEvent(PumpDue) /\ Hushed(PumpDue) = PumpDue /\ PumpDue.k \notin Asking
  /\ \A c : PumpDue # Work("start", c)
BY DEF PumpDue, Work, IsEvent, EventKind, Hushed, Asking

\* After the bookkeeping of the drops memory agrees with the rows again.
LEMMA DropCallKeeps ==
  ASSUME NEW w, NEW v, Kept(v), RoutedBut(w, v), Due(v), WorkOk(v), NEW batch, BatchOk(v, batch)
  PROVE  LET u == OnDropCall(w, v) IN Kept(u) /\ Runs(u) /\ BatchOk(u, batch)
<1> DEFINE gone == Dropped(w, v)
           u == OnDropCall(w, v)
           q == IF ToSet(v.watches) \cap gone # {} THEN <<PumpDue>> ELSE << >>
<1>1. Minded(v)
  BY KeptMinded
<1>2. /\ IsRecord(v) /\ DOMAIN v = Fields \cup RegionFields /\ v.mail \in Seq(ToSet(v.mail))
      /\ v.waiter \in [Fiber -> Cancel \cup {None}] /\ v.watches \in Seq(Watch) /\ Sound(v)
  BY <1>1, NurseryFacts DEF Minded
<1>3. /\ IsRecord(u) /\ DOMAIN u = DOMAIN v
      /\ \A f \in DOMAIN v \ {"open", "running", "watches", "waiter", "mail"} : u[f] = v[f]
      /\ u.open = (v.open /\ Provide \notin gone)
      /\ u.running = IF Provide \in gone THEN {} ELSE v.running
      /\ u.watches \in Seq(Watch) /\ ToSet(u.watches) = ToSet(v.watches) \ gone
      /\ u.waiter = [i \in Fiber |-> IF v.waiter[i] \in gone THEN None ELSE v.waiter[i]]
      /\ u.mail = IF ToSet(v.watches) \cap gone # {}
                  THEN v.mail \o <<PumpDue>> ELSE v.mail
  BY <1>1, DropCallFacts DEF PumpDue
<1>4. \A c \in gone : c \in Call /\ v.status[c] = "gone"
  BY DEF Dropped
<1> HIDE DEF u, gone
<1>5. /\ u.status = v.status /\ u.settled = v.settled /\ u.held = v.held /\ u.relays = v.relays
      /\ u.edge = v.edge /\ u.bridge = v.bridge /\ u.staged = v.staged /\ u.raised = v.raised
      /\ u.proxy = v.proxy /\ u.asked = v.asked /\ u.callee = v.callee
      /\ u.mailbox = v.mailbox /\ u.unstarted = v.unstarted /\ u.told = v.told
      /\ u.arrived = v.arrived /\ u.emitted = v.emitted
  BY <1>2, <1>3 DEF Fields, RegionFields
<1>6. q \in Seq(ToSet(q)) /\ (\A t \in ToSet(q) : t = PumpDue) /\ u.mail = v.mail \o q
  <2>1. ToSet(<<PumpDue>>) = {PumpDue} /\ ToSet(<< >>) = {}
    BY DEF ToSet
  <2>2. v.mail \o << >> = v.mail
    BY <1>2
  <2>3. <<PumpDue>> \in Seq({PumpDue}) /\ << >> \in Seq({})
    OBVIOUS
  <2> QED
    BY <1>3, <2>1, <2>2, <2>3
<1> HIDE DEF q
<1>7. /\ u.mail \in Seq(ToSet(u.mail))
      /\ \A t \in ToSet(u.mail) : t \in ToSet(v.mail) \/ t = PumpDue
      /\ \A t \in ToSet(v.mail) : t \in ToSet(u.mail)
      /\ \A t \in ToSet(q) : t \in ToSet(u.mail)
  <2> DEFINE m == v.mail
             S == ToSet(m) \cup {PumpDue}
  <2>1. m \in Seq(S) /\ q \in Seq(S)
    BY <1>2, <1>6, SeqWiden
  <2>2. ToSet(m \o q) = ToSet(m) \cup ToSet(q) /\ m \o q \in Seq(S)
    <3> HIDE DEF S, m
    <3> QED
      BY <2>1, ToSetConcat
  <2> HIDE DEF S
  <2>3. m \o q \in Seq(ToSet(m \o q))
    BY <2>2, SeqOfOwn
  <2> QED
    BY <1>6, <2>2, <2>3
<1>8. Consistent(Plain(u))
  <2>1. \A t \in ToSet(q) : ~IsEvent(Hushed(t))
    BY <1>6, PumpFacts
  <2>2. Consistent(Plain(v))
    BY DEF Kept
  <2> QED
    BY <1>2, <1>3, <1>5, <1>6, <2>1, <2>2, QuietKeeps
<1>9. IsNursery(u)
  <2>1. u.waiter \in [Fiber -> Cancel \cup {None}]
    BY <1>2, <1>3
  <2>2. u.open \in BOOLEAN /\ u.running \subseteq Fiber
    BY <1>3 DEF Kept, IsNursery
  <2>3. \A t \in ToSet(u.mail) : t.k \in Asking => t \in Speeches
    BY <1>7, PumpFacts DEF Kept, IsNursery
  <2>4. u = [f \in DOMAIN u |-> u[f]]
    BY <1>3 DEF IsRecord
  <2> QED
    BY <1>2, <1>3, <1>5, <1>7, <2>1, <2>2, <2>3, <2>4 DEF Kept, IsNursery
<1>10. Tended(u)
  BY <1>5, SameTended DEF Kept
<1>11. AsksKept(u)
  <2>1. \A t : Has(v.mail, t) => Has(u.mail, t)
    BY <1>7, HasIsIn
  <2> QED
    BY <1>5, <2>1, MoreMail DEF Kept
<1>12. Routed(u)
  <2>1. u.open => /\ Live(u, Provide)
                  /\ \A i \in Fiber : Alive(u, i) <=> i \in u.running /\ u.edge[i] # "retired"
    <3> SUFFICES ASSUME u.open
                 PROVE  /\ Live(u, Provide)
                        /\ \A i \in Fiber : Alive(u, i) <=> i \in u.running /\ u.edge[i] # "retired"
      OBVIOUS
    <3>1. v.open /\ Provide \notin gone /\ u.running = v.running
      BY <1>3
    <3>2. /\ Live(v, Provide)
          /\ \A i \in Fiber : Alive(v, i) <=> i \in v.running /\ v.edge[i] # "retired"
      BY <3>1 DEF RoutedBut, gone
    <3> QED
      BY <1>5, <3>1, <3>2 DEF Live, Alive
  <2>2. u.status[Provide] = "running" /\ ~u.open => \A i \in Inner : u.edge[i] = "none"
    <3> SUFFICES ASSUME u.status[Provide] = "running", ~u.open, NEW i \in Inner PROVE u.edge[i] = "none"
      OBVIOUS
    <3>1. v.status[Provide] = "running" /\ Provide \notin gone
      BY <1>4, <1>5
    <3>2. ~v.open
      BY <1>3, <3>1
    <3>3. v.edge[i] = "none"
      BY <3>1, <3>2 DEF RoutedBut
    <3> QED
      BY <1>5, <3>3
  <2>3. ASSUME NEW i \in Fiber, u.waiter[i] # None
        PROVE  Target[u.waiter[i]] = i /\ Live(u, u.waiter[i]) /\ u.edge[i] \in {"cancelling", "retired"}
    <3>1. u.waiter[i] = v.waiter[i] /\ v.waiter[i] \notin gone
      BY <1>3, <2>3
    <3> QED
      BY <1>5, <2>3, <3>1 DEF RoutedBut, Live, gone
  <2>4. \A x \in ToSet(u.watches) : Live(u, x)
    BY <1>3, <1>5 DEF RoutedBut, Live, gone
  <2>5. ~u.open => u.running = {}
    BY <1>3 DEF RoutedBut
  <2> QED
    BY <2>1, <2>2, <2>3, <2>4, <2>5 DEF Routed
<1>13. Due(u)
  <2> SUFFICES ASSUME u.open, u.mailbox # << >>, NEW x \in ToSet(u.watches), Relays(u, x)
               PROVE  Has(u.mail, PumpDue)
    BY DEF Due, PumpDue
  <2>1. CASE q = <<PumpDue>>
    <3>1. PumpDue \in ToSet(q)
      BY <2>1 DEF ToSet
    <3> QED
      BY <1>7, <3>1, HasIsIn
  <2>2. CASE q # <<PumpDue>>
    <3>1. x \in ToSet(v.watches) /\ Relays(v, x) /\ v.open /\ v.mailbox # << >>
      BY <1>3, <1>5 DEF Relays
    <3>2. Has(v.mail, PumpDue)
      BY <3>1 DEF Due, PumpDue
    <3> QED
      BY <1>7, <3>2, HasIsIn
  <2> QED
    BY <2>1, <2>2
<1>14. WorkOk(u)
  <2>1. StagedOk(u)
    BY <1>5 DEF WorkOk, StagedOk
  <2>2. ASSUME NEW t \in ToSet(u.mail), ~IsEvent(t) PROVE Originated(u, t)
    <3>1. CASE t = PumpDue
      BY <3>1 DEF PumpDue, Originated
    <3>2. CASE t # PumpDue
      <4>1. u.status[Provide] = "running" /\ v.open => u.open
        BY <1>3, <1>4, <1>5
      <4>2. Originated(v, t)
        BY <1>7, <2>2, <3>2 DEF WorkOk
      <4> QED
        BY <1>5, <4>1, <4>2 DEF Originated
    <3> QED
      BY <3>1, <3>2
  <2> QED
    BY <2>1, <2>2 DEF WorkOk
<1>15. BatchOk(u, batch)
  <2>1. Event("delegate", Provide, Own) \in ToSet(batch) =>
          /\ ~u.open /\ \A i \in Inner : u.edge[i] = "none"
          /\ ~Has(u.mail, Work("start", Provide))
    BY <1>3, <1>5, <1>7, PumpFacts, HasIsIn DEF BatchOk
  <2> QED
    BY <2>1 DEF BatchOk
<1>16. Kept(u) /\ Runs(u)
  BY <1>8, <1>9, <1>10, <1>11, <1>12, <1>13, <1>14 DEF Kept, Runs
<1> QED
  BY <1>15, <1>16 DEF u

-----------------------------------------------------------------------------
(* A turn of the lifecycle.                                                *)

\* What a turn may start from: a letter may be missing.
Poised(w, batch) == Minded(w) /\ AsksKept(w) /\ Runs(w) /\ BatchOk(w, batch)

LEMMA StepsRouted ==
  ASSUME NEW w, NEW u, Minded(w), Routed(w), Steps(w, u), Sound(u)
  PROVE  RoutedBut(w, u)
<1> DEFINE gone == Dropped(w, u)
<1>1. /\ DOMAIN u = DOMAIN w /\ \A f \in DOMAIN w \ Lifecycle : u[f] = w[f]
      /\ DOMAIN w = Fields \cup RegionFields /\ Ages(w, u)
      /\ w.status \in [Call -> Statuses] /\ u.status \in [Call -> Statuses]
      /\ w.edge \in [Inner -> Edges] /\ w.watches \in Seq(Watch)
      /\ w.waiter \in [Fiber -> Cancel \cup {None}]
  BY NurseryFacts, SoundFacts DEF Steps
<1>2. u.open = w.open /\ u.running = w.running /\ u.watches = w.watches /\ u.waiter = w.waiter
  BY <1>1 DEF Fields, RegionFields, Lifecycle
<1>3. ASSUME NEW c \in Call, Live(w, c) PROVE Live(u, c) \/ c \in gone
  BY <1>1, <1>3 DEF Ages, Live, Dropped, Statuses
<1> HIDE DEF gone
<1>4. u.open => Live(u, Provide) \/ Provide \in gone
  BY <1>2, <1>3, RegionParts DEF Routed
<1>5. ASSUME u.open, NEW i \in Fiber PROVE Alive(u, i) <=> i \in u.running /\ u.edge[i] # "retired"
  <2>1. i \in Inner /\ w.edge[i] \in Edges /\ (Alive(w, i) <=> i \in w.running /\ w.edge[i] # "retired")
    BY <1>1, <1>2, <1>5 DEF Routed, Fiber
  <2> QED
    BY <1>1, <1>2, <2>1 DEF Ages, Alive, Edges
<1>6. u.status[Provide] = "running" /\ ~u.open => \A i \in Inner : u.edge[i] = "none"
  BY <1>1, <1>2, RegionParts DEF Routed, Ages, Alive
<1>7. ASSUME NEW i \in Fiber, u.waiter[i] # None
      PROVE  /\ Target[u.waiter[i]] = i /\ u.edge[i] \in {"cancelling", "retired"}
             /\ Live(u, u.waiter[i]) \/ u.waiter[i] \in gone
  <2>1. /\ Target[w.waiter[i]] = i /\ Live(w, w.waiter[i]) /\ w.edge[i] \in {"cancelling", "retired"}
        /\ i \in Inner /\ w.waiter[i] \in Call
    BY <1>1, <1>2, <1>7, RegionParts DEF Routed, Fiber
  <2>2. u.edge[i] \in {"cancelling", "retired"}
    BY <1>1, <2>1 DEF Ages, Alive
  <2> QED
    BY <1>2, <1>3, <2>1, <2>2
<1>8. ASSUME NEW x \in ToSet(u.watches)
      PROVE  Live(u, x) \/ x \in gone
  <2>1. x \in Watch /\ x \in Call /\ x \in ToSet(w.watches)
    <3>1. ToSet(w.watches) \subseteq Watch
      BY <1>1, SeqOfOwn
    <3> QED
      BY <1>2, <1>8, <3>1, RegionParts
  <2> QED
    BY <1>3, <2>1 DEF Routed
<1>9. ~u.open => u.running = {}
  BY <1>2 DEF Routed
<1> QED
  BY <1>4, <1>5, <1>6, <1>7, <1>8, <1>9 DEF RoutedBut, gone

LEMMA StepsDue ==
  ASSUME NEW w, NEW u, Minded(w), Due(w), Steps(w, u), Sound(u),
         \A c \in Call : c # Provide => u.held[c] = "nothing"
  PROVE  Due(u)
<1>1. /\ DOMAIN u = DOMAIN w /\ \A f \in DOMAIN w \ Lifecycle : u[f] = w[f]
      /\ DOMAIN w = Fields \cup RegionFields /\ Ages(w, u)
      /\ w.status \in [Call -> Statuses] /\ u.status \in [Call -> Statuses] /\ w.watches \in Seq(Watch)
  BY NurseryFacts, SoundFacts DEF Steps
<1>2. u.open = w.open /\ u.watches = w.watches /\ u.mailbox = w.mailbox
  BY <1>1 DEF Fields, RegionFields, Lifecycle
<1> SUFFICES ASSUME u.open, u.mailbox # << >>, NEW x \in ToSet(u.watches), Relays(u, x)
             PROVE  Has(u.mail, PumpDue)
  BY DEF Due, PumpDue
<1>3. x \in Watch /\ x \in Call /\ x # Provide /\ x \in ToSet(w.watches)
  <2>1. ToSet(w.watches) \subseteq Watch
    BY <1>1, SeqOfOwn
  <2> QED
    BY <1>2, <2>1, RegionParts, RegionAssumption
<1>4. w.status[x] \in {"running", "awaitingAnswer"} /\ w.held[x] = "nothing"
  <2>1. w.status[x] \in Statuses /\ u.status[x] \in {"running", "awaitingAnswer"}
    BY <1>1, <1>3 DEF Relays
  <2>2. w.status[x] \notin {"none", "gone", "cancelling"}
    BY <1>1, <1>3, <2>1 DEF Ages
  <2> QED
    BY <1>3, <2>1, <2>2 DEF Statuses, Minded, Tended, Childless
<1>5. Has(w.mail, PumpDue)
  BY <1>2, <1>3, <1>4 DEF Due, Relays, PumpDue
<1> QED
  BY <1>5, StepsMail DEF Minded

LEMMA StepsWork ==
  ASSUME NEW w, NEW u, Minded(w), WorkOk(w), Steps(w, u), NEW batch, BatchOk(w, batch)
  PROVE  WorkOk(u) /\ BatchOk(u, batch)
<1>1. /\ DOMAIN u = DOMAIN w /\ \A f \in DOMAIN w \ Lifecycle : u[f] = w[f]
      /\ DOMAIN w = Fields \cup RegionFields /\ Ages(w, u) /\ w.edge \in [Inner -> Edges]
  BY NurseryFacts DEF Steps
<1>2. u.open = w.open
  BY <1>1 DEF Fields, RegionFields, Lifecycle
<1>3. ASSUME NEW t \in ToSet(u.mail), ~IsEvent(t) PROVE Originated(u, t)
  <2>1. t \in ToSet(w.mail)
    BY <1>3, StepsMail, Spoken DEF Minded
  <2>2. Originated(w, t)
    BY <1>3, <2>1 DEF WorkOk
  <2>3. ASSUME NEW c \in Call
        PROVE  /\ w.status[c] # "none" => u.status[c] # "none"
               /\ u.status[c] = "running" => w.status[c] = "running"
               /\ w.status[c] \in {"cancelling", "gone"} => u.status[c] \in {"cancelling", "gone"}
    BY <1>1 DEF Ages
  <2>4. \A i \in Fiber : w.edge[i] = "retired" => u.edge[i] = "retired"
    BY <1>1 DEF Ages, Alive, Fiber
  <2> QED
    BY <1>2, <2>2, <2>3, <2>4 DEF Originated
<1>4. StagedOk(u)
  BY DEF WorkOk, Steps
<1>5. Event("delegate", Provide, Own) \in ToSet(batch) =>
        /\ ~u.open /\ \A i \in Inner : u.edge[i] = "none"
        /\ ~Has(u.mail, Work("start", Provide))
  <2>1. Work("start", Provide) \notin Sayings
    BY Spoken DEF Work, IsEvent, EventKind
  <2>2. (\A i \in Inner : w.edge[i] = "none") => \A i \in Inner : u.edge[i] = "none"
    BY <1>1 DEF Ages, Alive
  <2> QED
    BY <1>2, <2>1, <2>2, StepsMail DEF BatchOk, Minded
<1> QED
  BY <1>3, <1>4, <1>5 DEF WorkOk, BatchOk

\* A turn of the lifecycle, with the bookkeeping of what it dropped.
LEMMA WorksTurn ==
  ASSUME NEW w, NEW batch, Poised(w, batch), NEW c \in Call, NEW u, Works(w, u, c),
         WatchesStay(w, u), Consistent(Plain(u)), \A d \in Call : d # Provide => u.held[d] = "nothing"
  PROVE  LET v == OnDropCall(w, u) IN Kept(v) /\ Runs(v) /\ BatchOk(v, batch)
<1>1. Minded(w) /\ Steps(w, u) /\ Sound(u) /\ Bridged(u)
  BY DEF Works, Poised, Minded, Tended
<1>2. IsNursery(u) /\ Tended(u) /\ AsksKept(u)
  BY <1>1, StepsTended, StepsAsks DEF Poised
<1>3. Kept(u)
  BY <1>2, MindedKept
<1>4. RoutedBut(w, u) /\ Due(u) /\ WorkOk(u) /\ BatchOk(u, batch)
  BY <1>1, StepsRouted, StepsDue, StepsWork DEF Poised, Runs
<1> QED
  BY <1>3, <1>4, DropCallKeeps

-----------------------------------------------------------------------------
(* A turn takes the first letter.                                          *)

\* Less mail, but for what is missed.
LEMMA LessMail ==
  ASSUME NEW w, NEW u, AsksKept(w), \A t : t.k \in Asking /\ Has(w.mail, t) => Has(u.mail, t),
         u.callee = w.callee, u.edge = w.edge, u.mailbox = w.mailbox, u.emitted = w.emitted,
         u.proxy = w.proxy, u.relays = w.relays, u.asked = w.asked
  PROVE  AsksKept(u)
<1> SUFFICES ASSUME NEW i \in Fiber, u.callee[i] = "asking", u.edge[i] = "running" PROVE Heard(u, i)
  BY DEF AsksKept
<1>1. Heard(w, i)
  BY DEF AsksKept
<1>2. \A k \in Asking : \A d, x : Has(w.mail, Event(k, d, x)) => Has(u.mail, Event(k, d, x))
  BY EventFacts
<1>3. \A v \in Watch : Raised(w, i, v) => Raised(u, i, v)
  BY <1>2 DEF Raised
<1> QED
  BY <1>1, <1>2, <1>3 DEF Heard

LEMMA TakenKeeps ==
  ASSUME NEW w, Kept(w), Runs(w), NEW batch, BatchOk(w, batch), w.mail # << >>
  PROVE  LET t == Head(w.mail)
             v == Rest(w)
         IN /\ Minded(v) /\ Plain(v) = Rest(Plain(w)) /\ Plain(w).mail # << >>
            /\ Head(Plain(w).mail) = Hushed(t)
            /\ Routed(v) /\ WorkOk(v) /\ BatchOk(v, batch)
            /\ t.k \notin Asking => AsksKept(v)
            /\ t # PumpDue => Due(v)
            /\ t \in ToSet(w.mail) /\ \A e : Has(w.mail, e) <=> e = t \/ Has(v.mail, e)
            /\ DOMAIN v = DOMAIN w /\ \A f \in DOMAIN w : f # "mail" => v[f] = w[f]
            /\ v.mail = Tail(w.mail)
<1> DEFINE t == Head(w.mail)
           v == Rest(w)
           m == w.mail
           A == ToSet(m)
<1>1. /\ Minded(w) /\ Sound(w) /\ IsRecord(w) /\ DOMAIN w = Fields \cup RegionFields /\ m \in Seq(A)
  BY KeptMinded, NurseryFacts DEF Minded
<1>2. /\ IsRecord(v) /\ DOMAIN v = DOMAIN w /\ v.mail = Tail(m)
      /\ \A f \in DOMAIN w : f # "mail" => v[f] = w[f]
  BY <1>1 DEF Rest, IsRecord, Fields
<1>3. t \in A /\ Tail(m) \in Seq(A) /\ A = {t} \cup ToSet(Tail(m))
  <2> HIDE DEF A
  <2>1. Tail(m) \in Seq(A)
    BY <1>1, ToSetHeadTail
  <2>2. t \in ToSet(m) /\ ToSet(m) = {t} \cup ToSet(Tail(m))
    BY <1>1, ToSetHeadTail
  <2> QED
    BY <2>1, <2>2 DEF A
<1>4. Tail(m) \in Seq(ToSet(Tail(m)))
  <2> HIDE DEF A, m
  <2> QED
    BY <1>3, SeqOfOwn
<1>5. \A e : Has(w.mail, e) <=> e = t \/ Has(v.mail, e)
  BY <1>2, <1>3, HasIsIn
<1>6. Plain(v) = Rest(Plain(w)) /\ Plain(w).mail # << >> /\ Head(Plain(w).mail) = Hushed(t)
  BY <1>1, PlainRest
<1>7. Sound(v)
  <2>1. IsWarm(Rest(Plain(w)))
    BY <1>1, <1>6, RestFacts DEF Sound
  <2> QED
    BY <1>2, <1>4, <1>6, <2>1 DEF Sound
<1> HIDE DEF t, v, m, A
<1>8. /\ v.status = w.status /\ v.settled = w.settled /\ v.held = w.held /\ v.relays = w.relays
      /\ v.edge = w.edge /\ v.bridge = w.bridge /\ v.staged = w.staged /\ v.raised = w.raised
      /\ v.proxy = w.proxy /\ v.asked = w.asked /\ v.callee = w.callee
      /\ v.mailbox = w.mailbox /\ v.unstarted = w.unstarted /\ v.told = w.told
      /\ v.arrived = w.arrived /\ v.emitted = w.emitted /\ v.open = w.open
      /\ v.running = w.running /\ v.watches = w.watches /\ v.waiter = w.waiter
  BY <1>1, <1>2 DEF Fields, RegionFields
<1>9. /\ v.mail \in Seq(ToSet(v.mail)) /\ \A e \in ToSet(v.mail) : e \in ToSet(w.mail)
  BY <1>2, <1>3, <1>4 DEF m, A
<1>10. IsNursery(v)
  <2>1. v = [f \in DOMAIN v |-> v[f]] /\ DOMAIN v = Fields \cup RegionFields
    BY <1>1, <1>2 DEF IsRecord
  <2>2. \A e \in ToSet(v.mail) : e.k \in Asking => e \in Speeches
    BY <1>9 DEF Kept, IsNursery
  <2> QED
    BY <1>8, <1>9, <2>1, <2>2 DEF Kept, IsNursery
<1>11. Minded(v)
  <2>1. Tended(v)
    BY <1>8, SameTended DEF Kept
  <2>2. \A i \in Inner : Wound(v, i)
    BY <1>1, <1>8 DEF Minded, Wound
  <2> QED
    BY <1>7, <1>10, <2>1, <2>2 DEF Minded
<1>12. Routed(v)
  BY <1>8 DEF Runs, Routed, Live, Alive
<1>13. WorkOk(v)
  BY <1>8, <1>9 DEF Runs, WorkOk, StagedOk, Originated
<1>14. BatchOk(v, batch)
  BY <1>5, <1>8 DEF BatchOk
<1>15. t.k \notin Asking => AsksKept(v)
  BY <1>5, <1>8, LessMail DEF Kept
<1>16. t # PumpDue => Due(v)
  BY <1>5, <1>8 DEF Runs, Due, Relays, PumpDue
<1>17. t \in ToSet(w.mail)
  BY <1>3 DEF A, m
<1> QED
  BY <1>2, <1>5, <1>6, <1>11, <1>12, <1>13, <1>14, <1>15, <1>16, <1>17 DEF t, v, m

-----------------------------------------------------------------------------
(* What a turn finds, and what it may leave.                               *)

Good(w, batch) == Kept(w) /\ Runs(w) /\ BatchOk(w, batch)

LEMMA GoodPoised ==
  ASSUME NEW w, NEW batch, Good(w, batch)
  PROVE  /\ Poised(w, batch) /\ Minded(w) /\ Sound(w) /\ Consistent(Plain(w)) /\ AsksKept(w)
         /\ Routed(w) /\ Due(w) /\ WorkOk(w) /\ Tended(w) /\ IsNursery(w)
BY KeptMinded DEF Good, Poised, Kept, Runs, Minded

\* The bookkeeping of the drops finds nothing more to do than it may.
LEMMA TurnEnds ==
  ASSUME NEW v, NEW batch, Good(v, batch), NEW w
  PROVE  Good(OnDropCall(w, v), batch)
<1>1. RoutedBut(w, v)
  BY DEF Good, Runs, Routed, RoutedBut
<1> QED
  BY <1>1, DropCallKeeps DEF Good, Runs

LEMMA WorksTurns ==
  ASSUME NEW w, NEW batch, Poised(w, batch), NEW c \in Call, NEW u, Works(w, u, c),
         WatchesStay(w, u), Consistent(Plain(u)), \A d \in Call : d # Provide => u.held[d] = "nothing"
  PROVE  Good(OnDropCall(w, u), batch)
BY WorksTurn DEF Good

\* An operation of the lifecycle after which there is nothing to book.
LEMMA WorksGood ==
  ASSUME NEW w, NEW batch, Poised(w, batch), NEW c \in Call, NEW u, Works(w, u, c),
         WatchesStay(w, u), Consistent(Plain(u)), \A d \in Call : d # Provide => u.held[d] = "nothing",
         Dropped(w, u) \subseteq Fork \cup Roster
  PROVE  Good(u, batch)
<1>1. Minded(w) /\ Steps(w, u) /\ Sound(u) /\ Bridged(u)
  BY DEF Works, Poised, Minded, Tended
<1>2. Kept(u)
  <2>1. IsNursery(u) /\ Tended(u) /\ AsksKept(u)
    BY <1>1, StepsTended, StepsAsks DEF Poised
  <2> QED
    BY <2>1, MindedKept
<1>3. RoutedBut(w, u) /\ Due(u) /\ WorkOk(u) /\ BatchOk(u, batch)
  BY <1>1, StepsRouted, StepsDue, StepsWork DEF Poised, Runs
<1>4. /\ u.waiter \in [Fiber -> Cancel \cup {None}] /\ ToSet(u.watches) \subseteq Watch
  BY <1>2, SeqOfOwn DEF Kept, IsNursery
<1>5. /\ Provide \notin Dropped(w, u) /\ (\A v \in Watch : v \notin Dropped(w, u))
      /\ \A k \in Cancel : k \notin Dropped(w, u)
  BY RegionAssumption
<1>6. Routed(u)
  BY <1>3, <1>4, <1>5 DEF RoutedBut, Routed
<1> QED
  BY <1>2, <1>3, <1>6 DEF Good, Runs

\* What waits in the mail.
LEMMA LetterOf ==
  ASSUME NEW w, Kept(w), NEW t \in ToSet(w.mail), IsEvent(t)
  PROVE  /\ t.k \in Asking => t \in Speeches
         /\ t.k \notin Asking => /\ Hushed(t) = t /\ t \in Letters /\ t = Event(t.k, t.d, Own)
                                 /\ t.d \in Call \cup Inner /\ t.k \in EventKind
<1>1. t.k \in Asking => t \in Speeches
  BY DEF Kept, IsNursery
<1>2. ASSUME t.k \notin Asking
      PROVE  /\ Hushed(t) = t /\ t \in Letters /\ t = Event(t.k, t.d, Own)
             /\ t.d \in Call \cup Inner /\ t.k \in EventKind
  <2>1. Hushed(t) = t
    BY <1>2 DEF Hushed
  <2>2. Plain(w).mail = [n \in DOMAIN w.mail |-> Hushed(w.mail[n])] /\ IsMail(Plain(w).mail)
    BY PlainFacts, NurseryRecord DEF Kept, Consistent, IsWarm
  <2>3. t \in ToSet(Plain(w).mail)
    <3>1. PICK n \in DOMAIN w.mail : t = w.mail[n]
      BY DEF ToSet
    <3> QED
      BY <2>1, <2>2, <3>1 DEF ToSet
  <2>4. t \in Letters
    BY <2>2, <2>3 DEF IsMail
  <2>5. /\ t = Event(t.k, t.d, t.x) /\ t.k \in EventKind
        /\ \/ t.d \in Call \cup Inner /\ t.x = Own
           \/ t.k \in {"escalate", "escalateAck"}
    BY <2>4, LetterFacts
  <2> QED
    BY <1>2, <2>1, <2>4, <2>5 DEF Asking
<1> QED
  BY <1>1, <1>2

\* A letter that nothing waits for is taken.
LEMMA TakenGood ==
  ASSUME NEW w, NEW batch, Good(w, batch), w.mail # << >>,
         Head(w.mail).k \notin Asking \cup {"delegate"}, Head(w.mail) # PumpDue
  PROVE  Good(Rest(w), batch)
<1> DEFINE t == Head(w.mail)
           v == Rest(w)
<1>1. /\ Minded(v) /\ Plain(v) = Rest(Plain(w)) /\ Plain(w).mail # << >>
      /\ Head(Plain(w).mail) = Hushed(t)
      /\ Routed(v) /\ WorkOk(v) /\ BatchOk(v, batch) /\ AsksKept(v) /\ Due(v)
  BY TakenKeeps DEF Good
<1>2. Hushed(t) = t
  BY DEF Hushed
<1>3. Consistent(Plain(w))
  BY DEF Good, Kept
<1>4. Consistent(Plain(v))
  BY <1>1, <1>2, <1>3, RestFree DEF Asking
<1> QED
  BY <1>1, <1>4, MindedKept DEF Good, Minded, Runs

\* One more event that is to be followed by its side effects.
LEMMA BatchMore ==
  ASSUME NEW w, NEW batch, BatchOk(w, batch), NEW t, t # Event("delegate", Provide, Own),
         t.k \in {"delegate", "terminate"} => t.d \in Call,
         t.k = "delegate" => t = Event("delegate", t.d, Own)
  PROVE  BatchOk(w, Append(batch, t))
<1> DEFINE S == ToSet(batch)
<1>1. batch \in Seq(S)
  BY DEF BatchOk
<1>2. Append(batch, t) \in Seq(S \cup {t}) /\ ToSet(Append(batch, t)) = S \cup {t}
  <2>1. batch \in Seq(S \cup {t})
    BY <1>1, SeqWiden
  <2> HIDE DEF S
  <2>2. Append(batch, t) \in Seq(S \cup {t}) /\ ToSet(Append(batch, t)) = ToSet(batch) \cup {t}
    BY <2>1, ToSetAppend
  <2> QED
    BY <2>2 DEF S
<1> QED
  BY <1>2 DEF BatchOk

-----------------------------------------------------------------------------
(* A call begins.                                                          *)

\* Before the nursery there is nothing that could be called in it.
LEMMA NothingBefore ==
  ASSUME NEW w, Kept(w), w.status[Provide] = "none"
  PROVE  /\ \A i \in Inner : w.edge[i] = "none"
         /\ \A c \in Call : w.status[c] = "none"
<1>1. \A i \in Inner : w.edge[i] = "none"
  BY KeptMinded, RegionParts DEF Minded, Wound
<1>2. \A c \in Call : c # Provide => w.proxy[c] = "idle"
  BY <1>1, RegionParts DEF Kept, Tended, Named
<1>3. \A c \in Call : w.proxy[c] = "idle" => w.status[c] = "none"
  <2>1. Plain(w).proxy = w.proxy /\ Plain(w).status = w.status
    BY PlainFacts, NurseryRecord DEF Kept
  <2> QED
    BY <2>1 DEF Kept, Consistent, CallOk
<1> QED
  BY <1>1, <1>2, <1>3

LEMMA DelegateTurn ==
  ASSUME NEW w, NEW batch, Good(w, batch), w.mail # << >>, NEW c \in Call,
         Head(w.mail) = Event("delegate", c, Own)
  PROVE  Good(OnDropCall(Rest(w), OnDelegate(Rest(w), c)), Append(batch, Head(w.mail)))
<1> DEFINE t == Head(w.mail)
           v == Rest(w)
           u == OnDelegate(v, c)
<1>1. /\ Minded(v) /\ Plain(v) = Rest(Plain(w)) /\ Plain(w).mail # << >>
      /\ Head(Plain(w).mail) = Hushed(t)
      /\ Routed(v) /\ WorkOk(v) /\ BatchOk(v, batch) /\ AsksKept(v) /\ Due(v)
      /\ \A e : Has(w.mail, e) <=> e = t \/ Has(v.mail, e)
      /\ DOMAIN v = DOMAIN w /\ \A f \in DOMAIN w : f # "mail" => v[f] = w[f]
  <2>1. t.k \notin Asking /\ t # PumpDue
    BY DEF Event, Asking, PumpDue, Work
  <2> QED
    BY <2>1, TakenKeeps DEF Good
<1>2. Hushed(t) = t
  BY Spoken DEF Asking
<1>3. /\ IsRecord(v) /\ DOMAIN v = Fields \cup RegionFields /\ v.mail \in Seq(ToSet(v.mail))
      /\ v.status \in [Call -> Statuses] /\ v.settled \in [Call -> BOOLEAN]
      /\ v.held \in [Call -> Outcomes \cup {"nothing"}] /\ v.watches \in Seq(Watch)
      /\ v.edge \in [Inner -> Edges] /\ v.proxy \in [Call -> Proxies]
      /\ v.waiter \in [Fiber -> Cancel \cup {None}] /\ Sound(v) /\ IsNursery(v) /\ Tended(v)
  BY <1>1, NurseryFacts DEF Minded
<1>4. /\ v.status = w.status /\ v.edge = w.edge /\ v.proxy = w.proxy
  BY <1>1, <1>3 DEF Fields
<1>5. v.status[c] = "none" /\ v.proxy[c] # "idle"
  <2>1. Plain(w).proxy = w.proxy /\ Plain(w).status = w.status
    BY PlainFacts, NurseryRecord DEF Good, Kept
  <2>2. IsMail(Plain(w).mail) /\ CallOk(Plain(w), c)
    BY DEF Good, Kept, Consistent, IsWarm
  <2>3. Has(Plain(w).mail, Event("delegate", c, Own))
    BY <1>1, <1>2, <2>2, MailTake
  <2> QED
    BY <1>4, <2>1, <2>2, <2>3 DEF CallOk
<1>6. c = Provide => /\ \A i \in Inner : v.edge[i] = "none"
                     /\ \A d \in Call : v.status[d] = "none"
  BY <1>4, <1>5, NothingBefore DEF Good
<1> HIDE DEF t, v
<1>7. /\ IsRecord(u) /\ DOMAIN u = DOMAIN v /\ u.status = [v.status EXCEPT ![c] = "running"]
      /\ \A f \in DOMAIN v \ {"status"} : u[f] = v[f]
  BY <1>3 DEF OnDelegate, IsRecord, Fields
<1>8. u.status \in [Call -> Statuses]
  BY <1>3, <1>7 DEF Statuses
<1>9. Plain(u) = OnDelegate(Plain(v), c)
  <2> DEFINE q == OnDelegate(Plain(v), c)
  <2>1. /\ IsRecord(Plain(v)) /\ DOMAIN Plain(v) = DOMAIN v
        /\ Plain(v).relays = {} /\ Plain(v).asked = {}
        /\ Plain(v).callee = [i \in Inner |-> Simple(v.callee[i])]
        /\ Plain(v).mail = [n \in DOMAIN v.mail |-> Hushed(v.mail[n])]
        /\ \A f \in DOMAIN v \ {"relays", "asked", "callee", "mail"} : Plain(v)[f] = v[f]
        /\ Plain(v).status = v.status
    BY <1>3, PlainFacts
  <2>2. /\ IsRecord(q) /\ DOMAIN q = DOMAIN v /\ q.status = [v.status EXCEPT ![c] = "running"]
        /\ \A f \in DOMAIN v \ {"status"} : q[f] = Plain(v)[f]
    BY <1>3, <2>1 DEF OnDelegate, IsRecord, Fields
  <2> HIDE DEF q, u
  <2>3. u.callee = v.callee /\ u.mail = v.mail
    BY <1>3, <1>7 DEF Fields
  <2>4. /\ q.relays = {} /\ q.asked = {}
        /\ q.callee = [i \in Inner |-> Simple(u.callee[i])]
        /\ q.mail = [n \in DOMAIN u.mail |-> Hushed(u.mail[n])]
    BY <1>3, <2>1, <2>2, <2>3 DEF Fields
  <2>5. \A f \in DOMAIN u \ {"relays", "asked", "callee", "mail"} : q[f] = u[f]
    <3> TAKE f \in DOMAIN u \ {"relays", "asked", "callee", "mail"}
    <3>1. CASE f = "status"
      BY <1>7, <2>2, <3>1
    <3>2. CASE f # "status"
      BY <1>7, <2>1, <2>2, <3>2
    <3> QED
      BY <3>1, <3>2
  <2>6. q = Plain(u)
    BY <1>7, <2>2, <2>4, <2>5, PlainIs
  <2> QED
    BY <2>6 DEF q, u
<1>10. Consistent(Plain(u))
  <2>1. Consistent(OnDelegate(Rest(Plain(w)), c))
    BY <1>1, <1>2, DelegateKeeps DEF Good, Kept, t
  <2> QED
    BY <1>1, <1>9, <2>1 DEF v
<1> HIDE DEF u
<1>11. /\ u.settled = v.settled /\ u.held = v.held /\ u.relays = v.relays
       /\ u.edge = v.edge /\ u.bridge = v.bridge /\ u.staged = v.staged /\ u.raised = v.raised
       /\ u.proxy = v.proxy /\ u.asked = v.asked /\ u.callee = v.callee /\ u.mail = v.mail
       /\ u.mailbox = v.mailbox /\ u.unstarted = v.unstarted /\ u.told = v.told
       /\ u.arrived = v.arrived /\ u.emitted = v.emitted /\ u.open = v.open
       /\ u.running = v.running /\ u.watches = v.watches /\ u.waiter = v.waiter
  BY <1>3, <1>7 DEF Fields, RegionFields
<1>12. \A d \in Call : d # c => u.status[d] = v.status[d]
  BY <1>3, <1>7
<1>13. u.status[c] = "running"
  BY <1>3, <1>7
<1>14. IsNursery(u)
  <2>1. u = [f \in DOMAIN u |-> u[f]]
    BY <1>7 DEF IsRecord
  <2> QED
    BY <1>3, <1>7, <1>11, <2>1 DEF IsNursery
<1>15. Tended(u)
  <2>1. Bridged(u) /\ InPlace(u)
    BY <1>3, <1>11 DEF Tended, Bridged, InPlace, Alive
  <2>2. Named(u)
    BY <1>3, <1>5, <1>11, <1>12, RegionParts DEF Tended, Named
  <2>3. Truthful(u)
    BY <1>3, <1>11, <1>12, <1>13, RegionParts DEF Tended, Truthful
  <2>4. Childless(u)
    BY <1>3, <1>11, <1>12, <1>13 DEF Tended, Childless
  <2>5. ASSUME u.status[Provide] = "running", NEW x \in Watch PROVE u.status[x] # "awaitingAnswer"
    <3>1. x \in Call
      BY RegionParts
    <3>2. CASE c = Provide \/ c = x
      BY <1>6, <1>12, <1>13, <3>1, <3>2
    <3>3. CASE c # Provide /\ c # x
      BY <1>3, <1>12, <2>5, <3>1, <3>3, RegionParts DEF Tended, Raising
    <3> QED
      BY <3>2, <3>3
  <2>6. ASSUME NEW a \in u.relays, a[1] \in Watch PROVE Live(u, a[1])
    <3>1. Live(v, a[1]) /\ a[1] \in Call
      BY <1>3, <1>11, <2>6, RegionParts DEF Tended, Raising
    <3> QED
      BY <1>5, <1>12, <3>1 DEF Live
  <2> QED
    BY <2>1, <2>2, <2>3, <2>4, <2>5, <2>6 DEF Tended, Raising
<1>16. AsksKept(u)
  BY <1>1, <1>11, MoreMail
<1>17. Kept(u)
  BY <1>10, <1>14, <1>15, <1>16, MindedKept
<1>18. Routed(u)
  <2>1. u.open => /\ Live(u, Provide)
                  /\ \A i \in Fiber : Alive(u, i) <=> i \in u.running /\ u.edge[i] # "retired"
    BY <1>1, <1>5, <1>11, <1>12, RegionParts DEF Routed, Live, Alive
  <2>2. u.status[Provide] = "running" /\ ~u.open => \A i \in Inner : u.edge[i] = "none"
    BY <1>1, <1>6, <1>11, <1>12, RegionParts DEF Routed
  <2>3. ASSUME NEW i \in Fiber, u.waiter[i] # None
        PROVE  Target[u.waiter[i]] = i /\ Live(u, u.waiter[i]) /\ u.edge[i] \in {"cancelling", "retired"}
    <3>1. v.waiter[i] \in Call /\ Live(v, v.waiter[i])
      BY <1>1, <1>3, <1>11, <2>3, RegionParts DEF Routed
    <3>2. Live(u, v.waiter[i])
      BY <1>5, <1>12, <3>1 DEF Live
    <3> QED
      BY <1>1, <1>11, <2>3, <3>2 DEF Routed
  <2>4. ASSUME NEW x \in ToSet(u.watches) PROVE Live(u, x)
    <3>1. x \in Watch
      BY <1>3, <1>11, SeqOfOwn
    <3>2. Live(v, x) /\ x \in Call
      BY <1>1, <1>11, <3>1, RegionParts DEF Routed
    <3> QED
      BY <1>5, <1>12, <3>2 DEF Live
  <2>5. ~u.open => u.running = {}
    BY <1>1, <1>11 DEF Routed
  <2> QED
    BY <2>1, <2>2, <2>3, <2>4, <2>5 DEF Routed
<1>19. Due(u)
  <2> SUFFICES ASSUME u.open, u.mailbox # << >>, NEW x \in ToSet(u.watches), Relays(u, x)
               PROVE  Has(u.mail, PumpDue)
    BY DEF Due, PumpDue
  <2>1. x \in Watch
    BY <1>3, <1>11, SeqOfOwn
  <2>2. Live(v, x) /\ x \in Call
    BY <1>1, <1>11, <2>1, RegionParts DEF Routed
  <2>3. Relays(v, x)
    BY <1>5, <1>11, <1>12, <2>2 DEF Live, Relays
  <2> QED
    BY <1>1, <1>11, <2>3 DEF Due, PumpDue
<1>20. WorkOk(u)
  <2>1. StagedOk(u)
    BY <1>1, <1>11 DEF WorkOk, StagedOk
  <2>2. ASSUME NEW e \in ToSet(u.mail), ~IsEvent(e) PROVE Originated(u, e)
    <3>1. Originated(v, e)
      BY <1>1, <1>11, <2>2 DEF WorkOk
    <3>2. ASSUME NEW d \in Call
          PROVE  /\ v.status[d] # "none" => u.status[d] # "none"
                 /\ v.status[d] # "none" /\ u.status[d] = "running" => v.status[d] = "running"
                 /\ v.status[d] \in {"cancelling", "gone"} => u.status[d] \in {"cancelling", "gone"}
      BY <1>5, <1>12, <3>2
    <3>3. u.edge = v.edge /\ u.open = v.open
      BY <1>11
    <3>4. CASE e = Work("pump", Provide)
      BY <3>4 DEF Originated
    <3>5. CASE \E d \in Call : /\ e = Work("start", d) /\ v.status[d] # "none"
                               /\ d = Provide /\ v.status[d] = "running" => v.open
      BY <3>2, <3>3, <3>5 DEF Originated
    <3>6. CASE \E d \in Call, o \in Outcomes :
                 e = Completion(d, o) /\ (d # Provide => v.status[d] \in {"cancelling", "gone"})
      BY <3>2, <3>6 DEF Originated
    <3>7. CASE \E i \in Fiber : e = Work("retire", i) /\ v.edge[i] = "retired"
      BY <3>3, <3>7 DEF Originated
    <3> QED
      BY <3>1, <3>4, <3>5, <3>6, <3>7 DEF Originated
  <2> QED
    BY <2>1, <2>2 DEF WorkOk
<1>21. BatchOk(u, Append(batch, t))
  <2>1. BatchOk(u, batch)
    BY <1>1, <1>11 DEF BatchOk
  <2>2. CASE c # Provide
    BY <2>1, <2>2, BatchMore, EventFacts DEF t
  <2>3. CASE c = Provide
    <3>1. ~u.open /\ \A i \in Inner : u.edge[i] = "none"
      BY <1>1, <1>5, <1>6, <1>11, <2>3 DEF Routed, Live
    <3>2. ~Has(u.mail, Work("start", Provide))
      <4>1. ASSUME Work("start", Provide) \in ToSet(v.mail) PROVE FALSE
        <5>1. ~IsEvent(Work("start", Provide)) /\ \A d : Work("start", Provide) = Work("start", d) => d = Provide
          BY DEF Work, IsEvent, EventKind
        <5>2. \A d, o : /\ Work("start", Provide) # Completion(d, o)
                        /\ Work("start", Provide) # Work("retire", d)
                        /\ Work("start", Provide) # Work("pump", d)
          BY DEF Work, Completion
        <5> QED
          <6>1. Originated(v, Work("start", Provide))
            BY <1>1, <4>1, <5>1 DEF WorkOk
          <6>2. ASSUME NEW d \in Call, Work("start", Provide) = Work("start", d)
                PROVE  v.status[d] = "none"
            BY <1>5, <2>3, <5>1, <6>2
          <6>3. /\ Work("start", Provide) # Work("pump", Provide)
                /\ \A d \in Call : \A o \in Outcomes : Work("start", Provide) # Completion(d, o)
                /\ \A d \in Fiber : Work("start", Provide) # Work("retire", d)
            BY <5>2
          <6>4. \E d \in Call : /\ Work("start", Provide) = Work("start", d) /\ v.status[d] # "none"
                                /\ d = Provide /\ v.status[d] = "running" => v.open
            BY <6>1, <6>3 DEF Originated
          <6> QED
            BY <6>2, <6>4
      <4> QED
        BY <1>11, <4>1, HasIsIn
    <3>3. /\ Append(batch, t) \in Seq(ToSet(batch) \cup {t})
          /\ ToSet(Append(batch, t)) = ToSet(batch) \cup {t}
      <4> DEFINE S == ToSet(batch) \cup {t}
      <4>1. batch \in Seq(S) /\ t \in S
        BY <2>1, SeqWiden DEF BatchOk
      <4> HIDE DEF S
      <4>2. Append(batch, t) \in Seq(S) /\ ToSet(Append(batch, t)) = ToSet(batch) \cup {t}
        BY <4>1, ToSetAppend
      <4> QED
        BY <4>2 DEF S
    <3>4. t.d \in Call /\ t = Event("delegate", t.d, Own)
      BY EventFacts DEF t
    <3> QED
      BY <2>1, <3>1, <3>2, <3>3, <3>4 DEF BatchOk
  <2> QED
    BY <2>2, <2>3
<1>22. Good(u, Append(batch, t))
  BY <1>17, <1>18, <1>19, <1>20, <1>21 DEF Good, Runs
<1> QED
  BY <1>22, TurnEnds DEF t, v, u

-----------------------------------------------------------------------------
(* A call is cancelled; a child returns or confirms that it stops.         *)

\* The first letter, where a call hears of it.
LEMMA FirstLetter ==
  ASSUME NEW w, NEW batch, Good(w, batch), w.mail # << >>, Hushed(Head(w.mail)) = Head(w.mail)
  PROVE  /\ Consistent(Plain(w)) /\ Plain(w).mail # << >> /\ Head(Plain(w).mail) = Head(w.mail)
         /\ Plain(Rest(w)) = Rest(Plain(w)) /\ Has(Plain(w).mail, Head(w.mail))
         /\ Plain(w).status = w.status /\ Plain(w).proxy = w.proxy /\ Plain(w).edge = w.edge
         /\ Plain(w).held = w.held
         /\ Plain(w).callee = [i \in Inner |-> Simple(w.callee[i])]
<1>1. Consistent(Plain(w)) /\ Sound(w)
  BY GoodPoised
<1>2. Plain(w).mail # << >> /\ Head(Plain(w).mail) = Head(w.mail) /\ Plain(Rest(w)) = Rest(Plain(w))
  BY <1>1, PlainRest
<1>3. Has(Plain(w).mail, Head(w.mail))
  BY <1>1, <1>2, MailTake DEF Consistent, IsWarm
<1> QED
  BY <1>1, <1>2, <1>3, PlainFacts, SoundFacts

LEMMA TakenMore ==
  ASSUME NEW w, NEW batch, Good(w, batch), w.mail # << >>,
         Head(w.mail).k \notin Asking \cup {"delegate"}, Head(w.mail) # PumpDue,
         Head(w.mail).k = "terminate" => Head(w.mail).d \in Call
  PROVE  Good(Rest(w), Append(batch, Head(w.mail)))
<1>1. Good(Rest(w), batch)
  BY TakenGood
<1>2. Head(w.mail) # Event("delegate", Provide, Own)
  BY EventFacts
<1>3. BatchOk(Rest(w), Append(batch, Head(w.mail)))
  BY <1>1, <1>2, BatchMore DEF Good
<1> QED
  BY <1>1, <1>3 DEF Good

LEMMA TerminateTurn ==
  ASSUME NEW w, NEW batch, Good(w, batch), w.mail # << >>, NEW c \in Call,
         Head(w.mail) = Event("terminate", c, Own)
  PROVE  Good(OnDropCall(Rest(w), OnTerminate(Rest(w), c)), Append(batch, Head(w.mail)))
<1> DEFINE t == Head(w.mail)
           v == Rest(w)
           u == OnTerminate(v, c)
           more == Append(batch, t)
<1>1. t.k = "terminate" /\ t.d = c /\ Hushed(t) = t /\ t # PumpDue
  BY EventFacts DEF Hushed, Asking, PumpDue, Work
<1>2. Good(v, more)
  BY <1>1, TakenMore DEF Asking
<1>3. /\ Consistent(Plain(w)) /\ Plain(w).mail # << >> /\ Head(Plain(w).mail) = t
      /\ Plain(v) = Rest(Plain(w)) /\ Has(Plain(w).mail, t) /\ Plain(w).proxy = w.proxy
  BY <1>1, FirstLetter
<1>4. v.proxy = w.proxy
  BY TakenKeeps, GoodPoised, NurseryFacts DEF Good, Fields
<1>5. v.proxy[c] \in {"cancelling", "done"}
  BY <1>3, <1>4 DEF Consistent, CallOk
<1>6. Consistent(OnTerminate(Plain(v), c))
  BY <1>3, TerminateMailKeeps
<1> HIDE DEF v, t, more
<1>7. Poised(v, more) /\ Sound(v) /\ Tended(v)
  BY <1>2, GoodPoised
<1>8. /\ Plain(u) = OnTerminate(Plain(v), c) /\ Works(v, u, c)
      /\ u.held[c] # "nothing" => v.held[c] # "nothing"
      /\ v.status[c] \in {"running", "cancelling"} => u.status[c] \in {"cancelling", "gone"}
  BY <1>5, <1>7, WorksTerminate
<1> HIDE DEF u
<1>9. WatchesStay(v, u)
  <2> SUFFICES ASSUME NEW x \in Watch, Watching(v, x)
               PROVE  /\ u.status[x] # "awaitingAnswer"
                      /\ u.status[x] = "gone" => v.proxy[x] \in {"cancelling", "done"}
    BY DEF WatchesStay
  <2>1. CASE x = c
    BY <1>5, <1>8, <2>1 DEF Watching
  <2>2. CASE x # c
    BY <1>8, <2>2, RegionParts DEF Watching, Works
  <2> QED
    BY <2>1, <2>2
<1>10. \A d \in Call : d # Provide => u.held[d] = "nothing"
  BY <1>7, <1>8, WorksHeld DEF Tended, Childless
<1>11. Good(OnDropCall(v, u), more)
  BY <1>6, <1>7, <1>8, <1>9, <1>10, WorksTurns
<1> QED
  BY <1>11 DEF u, v, more, t

\* What happens to a call that is no watch leaves the watches as they are.
LEMMA OthersStay ==
  ASSUME NEW w, NEW u, NEW c \in Call, Works(w, u, c), c \notin Watch
  PROVE  WatchesStay(w, u)
<1> SUFFICES ASSUME NEW x \in Watch, Watching(w, x)
             PROVE  /\ u.status[x] # "awaitingAnswer"
                    /\ u.status[x] = "gone" => w.proxy[x] \in {"cancelling", "done"}
  BY DEF WatchesStay
<1> QED
  BY RegionParts DEF Works, Watching

LEMMA ChildAckTurn ==
  ASSUME NEW w, NEW batch, Good(w, batch), w.mail # << >>, NEW i \in Inner,
         NEW k \in {"delegateAck", "terminateAck"}, Head(w.mail) = Event(k, i, Own),
         NEW o \in Outcomes
  PROVE  Good(OnDropCall(Rest(w), OnChildAck(Rest(w), i, o)), Append(batch, Head(w.mail)))
<1> DEFINE t == Head(w.mail)
           v == Rest(w)
           u == OnChildAck(v, i, o)
           more == Append(batch, t)
<1>1. t.k = k /\ t.d = i /\ Hushed(t) = t /\ t # PumpDue /\ k \notin Asking
  BY EventFacts DEF Hushed, Asking, PumpDue, Work
<1>2. Good(v, more)
  BY <1>1, TakenMore DEF Asking
<1>3. /\ Consistent(Plain(w)) /\ Plain(w).mail # << >> /\ Head(Plain(w).mail) = t
      /\ Plain(v) = Rest(Plain(w)) /\ Has(Plain(w).mail, t) /\ Plain(w).edge = w.edge
  BY <1>1, FirstLetter
<1>4. v.edge = w.edge
  BY TakenKeeps, GoodPoised, NurseryFacts DEF Good, Fields
<1>5. v.edge[i] # "none"
  BY <1>3, <1>4 DEF Consistent, InnerOk, Acked
<1>6. Consistent(OnChildAck(Plain(v), i, o))
  BY <1>3, ChildAckKeeps
<1> HIDE DEF v, t, more
<1>7. Poised(v, more) /\ Sound(v) /\ Tended(v) /\ Minded(v) /\ v.status \in [Call -> Statuses]
  BY <1>2, GoodPoised, SoundFacts
<1>8. Alive(v, i) => Live(v, ParentOf[i])
  <2>1. Wound(v, i) /\ ParentOf[i] \in Call /\ v.status[ParentOf[i]] \in Statuses
    BY <1>7, RegionParts DEF Minded
  <2> QED
    BY <2>1 DEF Wound, Alive, Live, Statuses
<1>9. /\ Plain(u) = OnChildAck(Plain(v), i, o) /\ Works(v, u, Provide)
      /\ u.held[Provide] # "nothing" => v.held[Provide] # "nothing"
  <2>1. ParentOf[i] = Provide
    BY RegionParts
  <2>2. Bridged(v)
    BY <1>7 DEF Tended
  <2> QED
    BY <1>5, <1>7, <1>8, <2>1, <2>2, WorksChildAck
<1> HIDE DEF u
<1>10. WatchesStay(v, u)
  BY <1>9, RegionParts, RegionAssumption, OthersStay
<1>11. \A d \in Call : d # Provide => u.held[d] = "nothing"
  BY <1>7, <1>9, RegionParts, WorksHeld DEF Tended, Childless
<1>12. Good(OnDropCall(v, u), more)
  BY <1>6, <1>7, <1>9, <1>10, <1>11, RegionParts, WorksTurns
<1> QED
  BY <1>12 DEF u, v, more, t

-----------------------------------------------------------------------------
(* What is said about asks.                                                *)

\* No call waits for what is said of an ask.
LEMMA PlainTaken ==
  ASSUME NEW w, Kept(w), w.mail # << >>, Head(w.mail).k # "delegate"
  PROVE  Consistent(Plain(Rest(w)))
<1> DEFINE p == Plain(w)
           t == Head(p.mail)
<1>1. /\ Consistent(p) /\ p.mail # << >> /\ t = Hushed(Head(w.mail)) /\ Plain(Rest(w)) = Rest(p)
      /\ p.callee = [i \in Inner |-> Simple(w.callee[i])]
  BY KeptMinded, PlainRest, PlainFacts, SoundFacts DEF Kept, Minded
<1>2. t.k # "delegate"
  BY <1>1 DEF Hushed, Work
<1> HIDE DEF p
<1>3. ConsistentBut(Rest(p), {c \in Call : t = Event("delegate", c, Own)},
                    {i \in Inner : t = Event("delegate", i, Own)}, {i \in Inner : t \in AskLetters(i)})
  BY <1>1, RestConsistent
<1>4. /\ \A c \in Call : t # Event("delegate", c, Own)
      /\ \A i \in Inner : t # Event("delegate", i, Own)
  BY <1>2, EventFacts
<1>5. Rest(p).callee = p.callee
  BY <1>1, RestSame DEF Consistent
<1>6. \A i \in Inner : AskOk(Rest(p), i)
  BY <1>1, <1>5 DEF AskOk, Simple
<1> QED
  BY <1>1, <1>3, <1>4, <1>6 DEF ConsistentBut, Consistent

LEMMA AskingRuns ==
  ASSUME NEW w, Minded(w), NEW i \in Inner, w.edge[i] = "running" PROVE w.status[Provide] = "running"
<1>1. Wound(w, i) /\ ParentOf[i] = Provide /\ w.status[Provide] \in Statuses
  BY RegionParts, NurseryFacts DEF Minded
<1> QED
  BY <1>1 DEF Wound, Statuses

\* The ask of a fiber may be missed when a letter is taken: it was on that letter.
LEMMA HeardTaken ==
  ASSUME NEW w, NEW batch, Good(w, batch), w.mail # << >>,
         NEW i \in Fiber, w.callee[i] = "asking", w.edge[i] = "running"
  PROVE  LET t == Head(w.mail)
             v == Rest(w)
         IN \/ Heard(v, i)
            \/ \E k \in Asking : t = Event(k, i, Own)
            \/ /\ Has(v.emitted, i)
               /\ \E k \in Asking, x \in Watch :
                    /\ t = Event(k, x, i) /\ <<x, i>> \in v.relays /\ Live(v, x)
                    /\ v.proxy[x] \notin {"cancelling", "done"}
<1> DEFINE t == Head(w.mail)
           v == Rest(w)
<1>1. /\ \A e : Has(w.mail, e) <=> e = t \/ Has(v.mail, e)
      /\ DOMAIN v = DOMAIN w /\ \A f \in DOMAIN w : f # "mail" => v[f] = w[f]
      /\ DOMAIN w = Fields \cup RegionFields
  BY TakenKeeps, GoodPoised, NurseryFacts DEF Good
<1> HIDE DEF t, v
<1>2. /\ v.status = w.status /\ v.relays = w.relays /\ v.proxy = w.proxy /\ v.asked = w.asked
      /\ v.mailbox = w.mailbox /\ v.emitted = w.emitted
  BY <1>1 DEF Fields, RegionFields
<1>3. Heard(w, i)
  BY GoodPoised DEF AsksKept
<1>4. CASE \E k \in Asking : Has(w.mail, Event(k, i, Own))
  BY <1>1, <1>4 DEF Heard, t, v
<1>5. CASE Has(w.mailbox, i)
  BY <1>2, <1>5 DEF Heard, v
<1>6. CASE \E x \in Watch : Raised(w, i, x)
  <2>1. PICK x \in Watch : Raised(w, i, x)
    BY <1>6
  <2>2. CASE Raised(v, i, x)
    BY <2>2 DEF Heard, v
  <2>3. CASE ~Raised(v, i, x)
    <3>1. /\ Has(v.emitted, i) /\ v.proxy[x] \notin {"cancelling", "done"} /\ <<x, i>> \in v.relays
          /\ \E k \in Asking : Has(w.mail, Event(k, x, i)) /\ ~Has(v.mail, Event(k, x, i))
      BY <1>2, <2>1, <2>3 DEF Raised
    <3>2. \E k \in Asking : t = Event(k, x, i)
      BY <1>1, <3>1
    <3>3. Live(w, x)
      BY <1>2, <3>1, GoodPoised DEF Tended, Raising
    <3> QED
      BY <1>2, <3>1, <3>2, <3>3 DEF Live, t, v
  <2> QED
    BY <2>2, <2>3
<1> QED
  BY <1>3, <1>4, <1>5, <1>6 DEF Heard

LEMMA SpeechFacts ==
  /\ \A e \in Speeches : IsEvent(e) /\ e.k \in Asking
  /\ \A k \in Asking : \A i \in Inner : \A x : ~IsEvent(Hushed(Event(k, i, x)))
  /\ \A k \in Asking : \A c, x : x # Own => ~IsEvent(Hushed(Event(k, c, x)))
  /\ \A i \in Fiber : ~IsEvent(Hushed(Failure(i)))
  /\ \A k \in Asking : \A c \in Call, x \in Asks \cup {Own} : Event(k, c, x) \in Speeches
  /\ \A k \in Asking : \A i \in Inner : Event(k, i, Own) \in Speeches
  /\ \A i \in Fiber : Failure(i) \in Speeches
<1>1. \A k, d, x : Event(k, d, x).k = k /\ Event(k, d, x).d = d /\ Event(k, d, x).x = x
  BY EventFacts
<1>2. \A i : Failure(i).k = "escalate" /\ Failure(i).d = i
  BY DEF Failure, Event
<1>3. \A d : ~IsEvent(Work("silent", d))
  BY DEF Work, IsEvent, EventKind
<1>4. \A e \in Speeches : e.k \in Asking
  BY <1>1, <1>2 DEF Speeches, Asking
<1>5. Asking \subseteq EventKind
  BY DEF Asking, EventKind
<1>6. \A k \in Asking : \A i \in Inner : \A x : ~IsEvent(Hushed(Event(k, i, x)))
  BY <1>1, <1>3 DEF Hushed
<1>7. \A k \in Asking : \A c, x : x # Own => ~IsEvent(Hushed(Event(k, c, x)))
  BY <1>1, <1>3 DEF Hushed
<1>8. \A i \in Fiber : ~IsEvent(Hushed(Failure(i)))
  BY <1>2, <1>3 DEF Hushed, Asking, Fiber
<1>9. /\ \A k \in Asking : \A c \in Call, x \in Asks \cup {Own} : Event(k, c, x) \in Speeches
      /\ \A k \in Asking : \A i \in Inner : Event(k, i, Own) \in Speeches
      /\ \A i \in Fiber : Failure(i) \in Speeches
  BY DEF Speeches
<1> QED
  BY <1>4, <1>5, <1>6, <1>7, <1>8, <1>9 DEF IsEvent

\* Words are added to the mail.
LEMMA TalkMail ==
  ASSUME NEW v, IsNursery(v), NEW q \in Seq(Speeches), NEW m, m = v.mail \o q
  PROVE  /\ m \in Seq(ToSet(m)) /\ ToSet(m) = ToSet(v.mail) \cup ToSet(q)
         /\ \A t \in ToSet(m) : t.k \in Asking => t \in Speeches
         /\ \A e : Has(m, e) <=> Has(v.mail, e) \/ Has(q, e)
         /\ q \in Seq(ToSet(q)) /\ \A e \in ToSet(q) : e \in Speeches /\ IsEvent(e)
<1> DEFINE n == v.mail
           S == ToSet(n) \cup Speeches
<1>1. n \in Seq(ToSet(n)) /\ \A t \in ToSet(n) : t.k \in Asking => t \in Speeches
  BY DEF IsNursery
<1>2. n \in Seq(S) /\ q \in Seq(S)
  BY <1>1, SeqWiden
<1>3. q \in Seq(ToSet(q)) /\ ToSet(q) \subseteq Speeches
  BY SeqOfOwn
<1> HIDE DEF S, n
<1>4. n \o q \in Seq(S) /\ ToSet(n \o q) = ToSet(n) \cup ToSet(q)
  BY <1>2, ToSetConcat
<1>5. m \in Seq(ToSet(m))
  BY <1>4, SeqOfOwn DEF n
<1> QED
  BY <1>1, <1>3, <1>4, <1>5, SpeechFacts, HasIsIn DEF n

\* Words change nothing of the course of the calls.
LEMMA TalkKeeps ==
  ASSUME NEW v, NEW batch, Routed(v), WorkOk(v), BatchOk(v, batch),
         NEW u, IsNursery(u), Consistent(Plain(u)), Tended(u), AsksKept(u), Due(u),
         u.status = v.status, u.edge = v.edge, u.staged = v.staged, u.open = v.open,
         u.running = v.running, u.watches = v.watches, u.waiter = v.waiter,
         \A e \in ToSet(u.mail) : e \in ToSet(v.mail) \/ IsEvent(e)
  PROVE  Good(u, batch)
<1>1. Kept(u)
  BY MindedKept
<1>2. Routed(u)
  BY DEF Routed, Live, Alive
<1>3. WorkOk(u)
  BY DEF WorkOk, StagedOk, Originated
<1>4. BatchOk(u, batch)
  <2>1. ~IsEvent(Work("start", Provide))
    BY DEF Work, IsEvent, EventKind
  <2> QED
    BY <2>1, HasIsIn DEF BatchOk
<1> QED
  BY <1>1, <1>2, <1>3, <1>4 DEF Good, Runs

LEMMA TendedTalk ==
  ASSUME NEW v, NEW u, Tended(v), u.status = v.status, u.held = v.held, u.edge = v.edge,
         u.bridge = v.bridge, u.proxy = v.proxy, u.unstarted = v.unstarted, u.told = v.told,
         InPlace(u), Raising(u)
  PROVE  Tended(u)
BY DEF Tended, Bridged, Alive, Named, Truthful, Childless

-----------------------------------------------------------------------------
(* An answer reaches a call.                                               *)

\* What the reactor finds when an answer or an ask was taken.
LEMMA TakenWord ==
  ASSUME NEW w, NEW batch, Good(w, batch), w.mail # << >>, Head(w.mail).k \in Asking
  PROVE  LET t == Head(w.mail)
             v == Rest(w)
         IN /\ Minded(v) /\ Routed(v) /\ WorkOk(v) /\ Due(v) /\ BatchOk(v, batch)
            /\ BatchOk(v, Append(batch, t)) /\ Consistent(Plain(v)) /\ Sound(v) /\ IsNursery(v) /\ Tended(v)
            /\ IsRecord(v) /\ DOMAIN v = Fields \cup RegionFields /\ t \in Speeches
            /\ \A f \in DOMAIN w : f # "mail" => v[f] = w[f]
            /\ v.status = w.status /\ v.edge = w.edge /\ v.callee = w.callee /\ v.relays = w.relays
            /\ v.proxy = w.proxy /\ v.mailbox = w.mailbox /\ v.emitted = w.emitted
            /\ v.running = w.running /\ v.open = w.open /\ v.asked = w.asked
<1> DEFINE t == Head(w.mail)
           v == Rest(w)
<1>1. t # PumpDue /\ t.k # "delegate" /\ t.k \notin {"delegate", "terminate"}
  BY DEF Asking, PumpDue, Work
<1>2. /\ Minded(v) /\ Routed(v) /\ WorkOk(v) /\ Due(v) /\ BatchOk(v, batch) /\ t \in ToSet(w.mail)
      /\ DOMAIN v = DOMAIN w /\ \A f \in DOMAIN w : f # "mail" => v[f] = w[f]
  BY <1>1, TakenKeeps DEF Good
<1>3. t \in Speeches
  BY <1>2, GoodPoised DEF IsNursery
<1>4. Consistent(Plain(v))
  BY <1>1, PlainTaken DEF Good
<1>5. BatchOk(v, Append(batch, t))
  BY <1>1, <1>2, BatchMore, EventFacts
<1>6. IsRecord(v) /\ DOMAIN v = Fields \cup RegionFields /\ Sound(v) /\ IsNursery(v) /\ Tended(v)
  BY <1>2, NurseryFacts DEF Minded
<1> HIDE DEF v
<1>7. /\ v.status = w.status /\ v.edge = w.edge /\ v.callee = w.callee /\ v.relays = w.relays
      /\ v.proxy = w.proxy /\ v.mailbox = w.mailbox /\ v.emitted = w.emitted
      /\ v.running = w.running /\ v.open = w.open /\ v.asked = w.asked
  BY <1>2, <1>6 DEF Fields, RegionFields
<1> QED
  BY <1>2, <1>3, <1>4, <1>5, <1>6, <1>7 DEF v

\* Of an ask that was raised again under a call: the answer goes down to it.
LEMMA AnswerRelayed ==
  ASSUME NEW w, NEW batch, Good(w, batch), w.mail # << >>, NEW c \in Call, NEW x,
         Head(w.mail) = Event("escalateAck", c, x), Live(Rest(w), c), <<c, x>> \in Rest(w).relays
  PROVE  Good(OnEscalateAck(Rest(w), c, x), Append(batch, Head(w.mail)))
<1> DEFINE t == Head(w.mail)
           v == Rest(w)
           u == OnEscalateAck(v, c, x)
           more == Append(batch, t)
           down == x \in Inner /\ Alive(v, x)
           q == IF down THEN <<Event("escalateAck", x, Own)>> ELSE << >>
<1>1. t.k \in Asking
  BY EventFacts DEF Asking
<1>2. /\ Minded(v) /\ Routed(v) /\ WorkOk(v) /\ Due(v) /\ BatchOk(v, more) /\ Consistent(Plain(v))
      /\ IsRecord(v) /\ DOMAIN v = Fields \cup RegionFields /\ Sound(v) /\ IsNursery(v) /\ Tended(v)
      /\ v.callee = w.callee /\ v.edge = w.edge
  BY <1>1, TakenWord
<1> HIDE DEF v
<1>3. /\ IsRecord(u) /\ DOMAIN u = DOMAIN v /\ u.relays = v.relays \ {<<c, x>>} /\ u.mail = v.mail \o q
      /\ \A f \in DOMAIN v \ {"relays", "mail"} : u[f] = v[f]
  <2>1. v.mail \o << >> = v.mail
    BY <1>2 DEF IsNursery
  <2>2. Append(v.mail, Event("escalateAck", x, Own)) = v.mail \o <<Event("escalateAck", x, Own)>>
    BY <1>2 DEF IsNursery
  <2>3. u = IF down THEN Send([v EXCEPT !.relays = @ \ {<<c, x>>}], "escalateAck", x, Own)
            ELSE [v EXCEPT !.relays = @ \ {<<c, x>>}]
    BY DEF OnEscalateAck, v, Alive, Live
  <2> HIDE DEF u, down
  <2>4. CASE down
    BY <1>2, <2>2, <2>3, <2>4 DEF Send, IsRecord, Fields
  <2>5. CASE ~down
    BY <1>2, <2>1, <2>3, <2>5 DEF IsRecord, Fields
  <2> QED
    BY <2>4, <2>5
<1> HIDE DEF u
<1>4. q \in Seq(Speeches) /\ (\A e \in ToSet(q) : ~IsEvent(Hushed(e)))
  <2>1. CASE down
    <3>1. q = <<Event("escalateAck", x, Own)>> /\ x \in Inner
      BY <2>1
    <3>2. Event("escalateAck", x, Own) \in Speeches /\ ~IsEvent(Hushed(Event("escalateAck", x, Own)))
      BY <3>1, SpeechFacts DEF Asking
    <3> QED
      BY <3>1, <3>2 DEF ToSet
  <2>2. CASE ~down
    BY <2>2 DEF ToSet
  <2> QED
    BY <2>1, <2>2
<1>5. down => Has(q, Event("escalateAck", x, Own))
  BY DEF Has
<1> HIDE DEF q, down
<1>6. /\ u.mail \in Seq(ToSet(u.mail)) /\ ToSet(u.mail) = ToSet(v.mail) \cup ToSet(q)
      /\ \A e \in ToSet(u.mail) : e.k \in Asking => e \in Speeches
      /\ \A e : Has(u.mail, e) <=> Has(v.mail, e) \/ Has(q, e)
      /\ q \in Seq(ToSet(q)) /\ \A e \in ToSet(q) : IsEvent(e)
  <2> DEFINE m == u.mail
  <2>1. IsNursery(v) /\ q \in Seq(Speeches) /\ m = v.mail \o q
    BY <1>2, <1>3, <1>4
  <2> HIDE DEF m
  <2>2. /\ m \in Seq(ToSet(m)) /\ ToSet(m) = ToSet(v.mail) \cup ToSet(q)
        /\ \A e \in ToSet(m) : e.k \in Asking => e \in Speeches
        /\ \A e : Has(m, e) <=> Has(v.mail, e) \/ Has(q, e)
        /\ q \in Seq(ToSet(q)) /\ \A e \in ToSet(q) : e \in Speeches /\ IsEvent(e)
    BY <2>1, TalkMail
  <2> QED
    BY <2>2 DEF m
<1>7. /\ u.status = v.status /\ u.settled = v.settled /\ u.held = v.held
      /\ u.edge = v.edge /\ u.bridge = v.bridge /\ u.staged = v.staged /\ u.raised = v.raised
      /\ u.proxy = v.proxy /\ u.asked = v.asked /\ u.callee = v.callee
      /\ u.mailbox = v.mailbox /\ u.unstarted = v.unstarted /\ u.told = v.told
      /\ u.arrived = v.arrived /\ u.emitted = v.emitted /\ u.open = v.open
      /\ u.running = v.running /\ u.watches = v.watches /\ u.waiter = v.waiter
  BY <1>2, <1>3 DEF Fields, RegionFields
<1>8. Consistent(Plain(u))
  BY <1>2, <1>3, <1>4, <1>6, <1>7, QuietKeeps
<1>9. IsNursery(u)
  <2>1. u = [f \in DOMAIN u |-> u[f]] /\ u.relays \subseteq v.relays
    BY <1>3 DEF IsRecord
  <2> QED
    BY <1>2, <1>3, <1>6, <1>7, <2>1 DEF IsNursery
<1>10. InPlace(u) /\ Raising(u)
  BY <1>2, <1>3, <1>7 DEF Tended, InPlace, Raising, Live
<1>11. Tended(u)
  BY <1>2, <1>7, <1>10, TendedTalk
<1>12. AsksKept(u)
  <2> SUFFICES ASSUME NEW i \in Fiber, u.callee[i] = "asking", u.edge[i] = "running" PROVE Heard(u, i)
    BY DEF AsksKept
  <2>1. i \in Inner /\ w.callee[i] = "asking" /\ w.edge[i] = "running" /\ Alive(v, i)
    BY <1>2, <1>7 DEF Fiber, Alive
  <2>2. CASE i = x
    <3>1. Has(u.mail, Event("escalateAck", i, Own))
      BY <1>5, <1>6, <2>1, <2>2 DEF down
    <3> QED
      BY <3>1 DEF Heard, Asking
  <2>3. CASE i # x
    <3>1. \A k, y : t # Event(k, y, i)
      BY <2>3, EventFacts
    <3>2. \A k : t # Event(k, i, Own)
      BY <2>1, EventFacts, OwnFacts
    <3>3. Heard(v, i)
      BY <2>1, <3>1, <3>2, HeardTaken DEF v
    <3>4. \A y \in Watch : Raised(v, i, y) => Raised(u, i, y)
      BY <1>3, <1>6, <1>7, <2>3 DEF Raised
    <3> QED
      BY <1>6, <1>7, <3>3, <3>4 DEF Heard
  <2> QED
    BY <2>2, <2>3
<1>13. Due(u)
  BY <1>2, <1>6, <1>7 DEF Due, Relays
<1>14. Good(u, more)
  BY <1>2, <1>6, <1>7, <1>8, <1>9, <1>11, <1>12, <1>13, TalkKeeps
<1> QED
  BY <1>14 DEF u, v, more, t

LEMMA AnswerTurn ==
  ASSUME NEW w, NEW batch, Good(w, batch), w.mail # << >>, NEW c \in Call, NEW x,
         Head(w.mail) = Event("escalateAck", c, x)
  PROVE  Good(OnDropCall(Rest(w), OnEscalateAck(Rest(w), c, x)), Append(batch, Head(w.mail)))
<1> DEFINE t == Head(w.mail)
           v == Rest(w)
           u == OnEscalateAck(v, c, x)
           more == Append(batch, t)
<1>1. CASE Live(v, c) /\ <<c, x>> \in v.relays
  BY <1>1, AnswerRelayed, TurnEnds
<1>2. CASE ~(Live(v, c) /\ <<c, x>> \in v.relays)
  <2>1. t.k \in Asking
    BY EventFacts DEF Asking
  <2>2. /\ Minded(v) /\ Routed(v) /\ WorkOk(v) /\ Due(v) /\ BatchOk(v, more) /\ Consistent(Plain(v))
        /\ IsRecord(v) /\ DOMAIN v = Fields \cup RegionFields /\ Sound(v) /\ IsNursery(v) /\ Tended(v)
        /\ v.callee = w.callee /\ v.edge = w.edge
    BY <2>1, TakenWord
  <2>3. AsksKept(v)
    <3> SUFFICES ASSUME NEW i \in Fiber, v.callee[i] = "asking", v.edge[i] = "running" PROVE Heard(v, i)
      BY DEF AsksKept
    <3>1. i \in Inner /\ w.callee[i] = "asking" /\ w.edge[i] = "running"
      BY <2>2 DEF Fiber
    <3>2. \A k : t # Event(k, i, Own)
      BY <3>1, EventFacts, OwnFacts
    <3>3. \A k, y : t = Event(k, y, i) => y = c /\ x = i
      BY EventFacts
    <3> QED
      BY <1>2, <3>1, <3>2, <3>3, HeardTaken
  <2>4. Good(v, more)
    BY <2>2, <2>3, MindedKept DEF Good, Runs, Minded
  <2> HIDE DEF v, more
  <2>5. CASE v.status[c] # "awaitingAnswer"
    <3>1. u = v
      BY <1>2, <2>5 DEF OnEscalateAck, Live
    <3> QED
      BY <2>4, <3>1, TurnEnds DEF v, more
  <2>6. CASE v.status[c] = "awaitingAnswer"
    <3>1. u = Drop(Send(v, "delegateAck", c, Own), c)
      BY <1>2, <2>6 DEF OnEscalateAck, Live
    <3>2. \A i \in Children(c) : v.edge[i] \in {"none", "retired"}
      BY <2>2, <2>6 DEF Minded, Wound, Children
    <3>3. ~Draining(v, c)
      BY <3>2 DEF Draining
    <3>4. /\ Plain(u) = Drop(Send(Plain(v), "delegateAck", c, Own), c) /\ Works(v, u, c)
          /\ u.held[c] = "nothing"
      BY <2>2, <2>6, <3>1, <3>3, WorksAnswer
    <3>5. Consistent(Plain(u))
      <4>1. Plain(v).status = v.status /\ Plain(v).edge = v.edge
        BY <2>2, PlainFacts
      <4>2. Live(Plain(v), c) /\ ~Draining(Plain(v), c)
        BY <2>6, <3>3, <4>1 DEF Live, Draining
      <4>3. ConsistentBut(Plain(v), {}, {}, {})
        BY <2>2, ButNothing
      <4> QED
        BY <3>4, <4>2, <4>3, AnswerKeeps
    <3> HIDE DEF u
    <3>6. WatchesStay(v, u)
      <4> SUFFICES ASSUME NEW y \in Watch, Watching(v, y)
                   PROVE  /\ u.status[y] # "awaitingAnswer"
                          /\ u.status[y] = "gone" => v.proxy[y] \in {"cancelling", "done"}
        BY DEF WatchesStay
      <4>1. y # c
        BY <2>6 DEF Watching
      <4> QED
        BY <3>4, <4>1, RegionParts DEF Watching, Works
    <3>7. \A d \in Call : d # Provide => u.held[d] = "nothing"
      BY <2>2, <3>4, WorksHeld DEF Tended, Childless
    <3>8. Good(OnDropCall(v, u), more)
      BY <2>4, <3>4, <3>5, <3>6, <3>7, GoodPoised, WorksTurns
    <3> QED
      BY <3>8 DEF u, v, more
  <2> QED
    BY <2>5, <2>6
<1> QED
  BY <1>1, <1>2

-----------------------------------------------------------------------------
(* The pump.                                                               *)

LEMMA NamesOfAsks ==
  /\ Inner \subseteq Asks /\ Fiber \subseteq Asks /\ \A i \in Fiber : -i \in Asks
  /\ Own \notin Asks /\ \A i, j \in Fiber : i # -j
<1>1. Inner \subseteq Nat \ {0} /\ Fiber \subseteq Inner
  BY InnerAssumption DEF Fiber
<1> QED
  BY <1>1 DEF Asks, Own

LEMMA TakersFacts ==
  ASSUME NEW w, w.watches \in Seq(Watch)
  PROVE  /\ Takers(w) \in Seq(Watch)
         /\ \A x : Has(Takers(w), x) <=> x \in ToSet(w.watches) /\ Relays(w, x)
<1> DEFINE s == w.watches
           N == {n \in DOMAIN s : Relays(w, s[n])}
           v == Picked(s, N)
<1>1. N \in SUBSET DOMAIN s /\ v = Takers(w)
  BY DEF Takers
<1>2. v \in Seq(Watch) /\ \A e : Has(v, e) <=> \E n \in N : s[n] = e
  <2> HIDE DEF N
  <2> QED
    BY <1>1, PickedFacts
<1>3. \A x : x \in ToSet(s) <=> \E n \in DOMAIN s : s[n] = x
  BY DEF ToSet
<1> HIDE DEF v
<1> QED
  BY <1>1, <1>2, <1>3

\* Round robin: every entry goes to a watch that takes it.
Robin(T, n) == T[((n - 1) % Len(T)) + 1]

LEMMA RobinFacts ==
  ASSUME NEW S, NEW T \in Seq(S), T # << >>, NEW n \in Nat, n > 0
  PROVE  Robin(T, n) \in S /\ Has(T, Robin(T, n))
<1>1. Len(T) \in Nat /\ Len(T) > 0 /\ DOMAIN T = 1..Len(T)
  OBVIOUS
<1> DEFINE l == Len(T)
           m == (n - 1) % l
<1>2. m \in Int /\ 0 <= m /\ m < l
  <2> HIDE DEF l
  <2>1. l \in Nat /\ l > 0 /\ n - 1 \in Int
    BY <1>1 DEF l
  <2> QED
    BY <2>1
<1> HIDE DEF m
<1>3. m + 1 \in DOMAIN T
  BY <1>1, <1>2
<1>4. Robin(T, n) = T[m + 1]
  BY DEF Robin, m
<1> QED
  BY <1>3, <1>4 DEF Has

LEMMA RaiseAgainKeeps ==
  ASSUME NEW v, NEW batch, Minded(v), Consistent(Plain(v)), AsksKept(v), Routed(v), WorkOk(v),
         BatchOk(v, batch), Takers(v) # << >>
  PROVE  Good(RaiseAgain(v, Takers(v), v.mailbox), batch)
<1> DEFINE T == Takers(v)
           out == v.mailbox
           q == [n \in DOMAIN out |-> Event("escalate", Robin(T, n), out[n])]
           new == {<<Robin(T, n), out[n]>> : n \in DOMAIN out}
           u == RaiseAgain(v, T, out)
<1>1. /\ IsRecord(v) /\ DOMAIN v = Fields \cup RegionFields /\ Sound(v) /\ IsNursery(v) /\ Tended(v)
      /\ v.watches \in Seq(Watch) /\ out \in Seq(Asks) /\ v.emitted \in Seq(Asks)
      /\ v.relays \subseteq Call \X Asks
  BY NurseryFacts DEF Minded, IsNursery
<1>2. T \in Seq(Watch) /\ \A x : Has(T, x) => x \in ToSet(v.watches) /\ Relays(v, x)
  BY <1>1, TakersFacts
<1>3. u = [v EXCEPT !.mailbox = << >>, !.emitted = @ \o out, !.relays = @ \cup new, !.mail = @ \o q]
  BY DEF RaiseAgain, Robin
<1> HIDE DEF T, u
<1>4. /\ IsRecord(u) /\ DOMAIN u = DOMAIN v /\ u.mailbox = << >> /\ u.emitted = v.emitted \o out
      /\ u.relays = v.relays \cup new /\ u.mail = v.mail \o q
      /\ \A f \in DOMAIN v \ {"mailbox", "emitted", "relays", "mail"} : u[f] = v[f]
  <2> HIDE DEF out, q, new
  <2> QED
    BY <1>1, <1>3 DEF IsRecord, Fields, RegionFields
<1>5. \A n \in DOMAIN out : /\ Robin(T, n) \in Watch /\ Relays(v, Robin(T, n)) /\ out[n] \in Asks
  <2> TAKE n \in DOMAIN out
  <2>1. n \in Nat /\ n > 0 /\ out[n] \in Asks
    BY <1>1
  <2>2. Robin(T, n) \in Watch /\ Has(T, Robin(T, n))
    BY <1>2, <2>1, RobinFacts DEF T
  <2> QED
    BY <1>2, <2>1, <2>2
<1>6. /\ q \in Seq(Speeches) /\ (\A e \in ToSet(q) : ~IsEvent(Hushed(e)))
      /\ \A n \in DOMAIN out : Has(q, Event("escalate", Robin(T, n), out[n]))
  <2>1. Len(out) \in Nat /\ DOMAIN out = 1..Len(out)
    BY <1>1
  <2>2. \A n \in DOMAIN out : /\ Event("escalate", Robin(T, n), out[n]) \in Speeches
                              /\ ~IsEvent(Hushed(Event("escalate", Robin(T, n), out[n])))
    <3> TAKE n \in DOMAIN out
    <3>1. Robin(T, n) \in Call /\ out[n] \in Asks /\ out[n] # Own
      BY <1>5, NamesOfAsks, RegionParts
    <3>2. Event("escalate", Robin(T, n), out[n]) \in Speeches
      BY <3>1, SpeechFacts DEF Asking
    <3>3. ~IsEvent(Hushed(Event("escalate", Robin(T, n), out[n])))
      BY <3>1, SpeechFacts DEF Asking
    <3> QED
      BY <3>2, <3>3
  <2>3. q \in Seq(Speeches)
    BY <2>1, <2>2
  <2>4. \A e \in ToSet(q) : ~IsEvent(Hushed(e))
    BY <2>2 DEF ToSet
  <2> QED
    BY <2>3, <2>4 DEF Has
<1>7. new \subseteq Watch \X Asks /\ \A a \in new : Relays(v, a[1])
  BY <1>5
<1>8. \A n \in DOMAIN out : <<Robin(T, n), out[n]>> \in new
  OBVIOUS
<1> HIDE DEF q, new
<1>9. /\ u.mail \in Seq(ToSet(u.mail)) /\ ToSet(u.mail) = ToSet(v.mail) \cup ToSet(q)
      /\ \A e \in ToSet(u.mail) : e.k \in Asking => e \in Speeches
      /\ \A e : Has(u.mail, e) <=> Has(v.mail, e) \/ Has(q, e)
      /\ q \in Seq(ToSet(q)) /\ \A e \in ToSet(q) : IsEvent(e)
  <2> DEFINE m == u.mail
  <2>1. IsNursery(v) /\ q \in Seq(Speeches) /\ m = v.mail \o q
    BY <1>1, <1>4, <1>6
  <2> HIDE DEF m
  <2>2. /\ m \in Seq(ToSet(m)) /\ ToSet(m) = ToSet(v.mail) \cup ToSet(q)
        /\ \A e \in ToSet(m) : e.k \in Asking => e \in Speeches
        /\ \A e : Has(m, e) <=> Has(v.mail, e) \/ Has(q, e)
        /\ q \in Seq(ToSet(q)) /\ \A e \in ToSet(q) : e \in Speeches /\ IsEvent(e)
    BY <2>1, TalkMail
  <2> QED
    BY <2>2 DEF m
<1>10. /\ u.status = v.status /\ u.settled = v.settled /\ u.held = v.held
       /\ u.edge = v.edge /\ u.bridge = v.bridge /\ u.staged = v.staged /\ u.raised = v.raised
       /\ u.proxy = v.proxy /\ u.asked = v.asked /\ u.callee = v.callee
       /\ u.unstarted = v.unstarted /\ u.told = v.told
       /\ u.arrived = v.arrived /\ u.open = v.open
       /\ u.running = v.running /\ u.watches = v.watches /\ u.waiter = v.waiter
  BY <1>1, <1>4 DEF Fields, RegionFields
<1>11. Consistent(Plain(u))
  BY <1>1, <1>4, <1>6, <1>9, <1>10, QuietKeeps
<1>12. u.emitted \in Seq(Asks) /\ u.mailbox \in Seq(Asks) /\ u.emitted \o u.mailbox = v.emitted \o out
       /\ ToSet(u.emitted) = ToSet(v.emitted) \cup ToSet(out) /\ ToSet(u.mailbox) = {}
  <2>1. v.emitted \o out \in Seq(Asks) /\ ToSet(v.emitted \o out) = ToSet(v.emitted) \cup ToSet(out)
    BY <1>1, ToSetConcat
  <2>2. (v.emitted \o out) \o << >> = v.emitted \o out
    BY <2>1
  <2> QED
    BY <1>4, <2>1, <2>2, ToSetEmpty
<1>13. IsNursery(u)
  <2>1. u = [f \in DOMAIN u |-> u[f]] /\ u.relays \subseteq Call \X Asks
    BY <1>1, <1>4, <1>7, RegionParts DEF IsRecord
  <2> QED
    BY <1>1, <1>4, <1>9, <1>10, <1>12, <2>1 DEF IsNursery
<1>14. InPlace(u)
  BY <1>1, <1>10, <1>12 DEF Tended, InPlace, out
<1>15. Raising(u)
  <2>1. ASSUME NEW a \in u.relays, a[1] \in Watch PROVE Live(u, a[1])
    <3>1. CASE a \in v.relays
      BY <1>1, <1>10, <2>1, <3>1 DEF Tended, Raising, Live
    <3>2. CASE a \in new
      BY <1>7, <1>10, <3>2 DEF Relays, Live
    <3> QED
      BY <1>4, <3>1, <3>2
  <2> QED
    BY <1>1, <1>10, <2>1 DEF Tended, Raising
<1>16. Tended(u)
  BY <1>1, <1>10, <1>14, <1>15, TendedTalk
<1>17. AsksKept(u)
  <2> SUFFICES ASSUME NEW i \in Fiber, u.callee[i] = "asking", u.edge[i] = "running" PROVE Heard(u, i)
    BY DEF AsksKept
  <2>1. Heard(v, i)
    BY <1>10 DEF AsksKept
  <2>2. \A x : Has(v.emitted, x) \/ Has(out, x) => Has(u.emitted, x)
    <3> HIDE DEF out
    <3>1. \A x : Has(v.emitted \o out, x) <=> Has(v.emitted, x) \/ Has(out, x)
      <4>1. v.emitted \in Seq(Asks) /\ out \in Seq(Asks)
        BY <1>1
      <4> QED
        BY <4>1, OrderConcat
    <3> QED
      BY <1>4, <3>1
  <2>3. CASE Has(v.mailbox, i)
    <3>1. PICK n \in DOMAIN out : out[n] = i
      BY <2>3 DEF Has, out
    <3>2. Raised(u, i, Robin(T, n))
      BY <1>4, <1>6, <1>8, <1>9, <2>2, <2>3, <3>1 DEF Raised, Asking, out
    <3> QED
      BY <1>5, <3>1, <3>2 DEF Heard
  <2>4. \A y \in Watch : Raised(v, i, y) => Raised(u, i, y)
    BY <1>4, <1>9, <1>10, <2>2 DEF Raised
  <2> QED
    BY <1>9, <2>1, <2>3, <2>4 DEF Heard
<1>18. Due(u)
  BY <1>4 DEF Due
<1>19. Good(u, batch)
  BY <1>9, <1>10, <1>11, <1>13, <1>16, <1>17, <1>18, TalkKeeps
<1> QED
  BY <1>19 DEF u, T

\* Whatever was due, after the pump nothing is.
LEMMA PumpKeeps ==
  ASSUME NEW v, NEW batch, Minded(v), Consistent(Plain(v)), AsksKept(v), Routed(v), WorkOk(v),
         BatchOk(v, batch)
  PROVE  Good(Pump(v), batch)
<1>1. CASE v.open /\ Takers(v) # << >>
  BY <1>1, RaiseAgainKeeps DEF Pump
<1>2. CASE ~(v.open /\ Takers(v) # << >>)
  <2>1. Pump(v) = v
    BY <1>2 DEF Pump
  <2>2. Due(v)
    <3>1. \A x : Has(Takers(v), x) <=> x \in ToSet(v.watches) /\ Relays(v, x)
      BY TakersFacts, NurseryFacts
    <3> QED
      BY <1>2, <3>1, OrderEmpty DEF Due
  <2>3. Kept(v)
    BY MindedKept DEF Minded
  <2> QED
    BY <2>1, <2>2, <2>3 DEF Good, Runs
<1> QED
  BY <1>1, <1>2

\* Between the turns the mailbox takes one more entry.
LEMMA PostKeeps ==
  ASSUME NEW v, NEW batch, Minded(v), Consistent(Plain(v)), Routed(v), WorkOk(v), BatchOk(v, batch),
         NEW x \in Asks, NEW i \in Fiber, x \in {i, -i}, v.edge[i] # "none",
         \A j \in Fiber : v.callee[j] = "asking" /\ v.edge[j] = "running" => Heard(v, j) \/ j = x
  PROVE  Good(Post(v, x), batch)
<1> DEFINE u == [v EXCEPT !.mailbox = Append(@, x), !.arrived = Append(@, x)]
<1>1. /\ IsRecord(v) /\ DOMAIN v = Fields \cup RegionFields /\ Sound(v) /\ IsNursery(v) /\ Tended(v)
      /\ v.mailbox \in Seq(Asks) /\ v.emitted \in Seq(Asks) /\ v.arrived \in Seq(Asks)
  BY NurseryFacts DEF Minded, IsNursery
<1>2. /\ IsRecord(u) /\ DOMAIN u = DOMAIN v
      /\ u.mailbox = Append(v.mailbox, x) /\ u.arrived = Append(v.arrived, x)
      /\ \A f \in DOMAIN v \ {"mailbox", "arrived"} : u[f] = v[f]
  BY <1>1 DEF IsRecord, RegionFields
<1>3. Post(v, x) = Pump(u)
  BY DEF Post
<1> HIDE DEF u
<1>4. /\ u.status = v.status /\ u.settled = v.settled /\ u.held = v.held /\ u.relays = v.relays
      /\ u.edge = v.edge /\ u.bridge = v.bridge /\ u.staged = v.staged /\ u.raised = v.raised
      /\ u.proxy = v.proxy /\ u.asked = v.asked /\ u.callee = v.callee /\ u.mail = v.mail
      /\ u.unstarted = v.unstarted /\ u.told = v.told /\ u.emitted = v.emitted
      /\ u.open = v.open
      /\ u.running = v.running /\ u.watches = v.watches /\ u.waiter = v.waiter
  <2>1. /\ u.status = v.status /\ u.settled = v.settled /\ u.held = v.held /\ u.relays = v.relays
        /\ u.edge = v.edge /\ u.bridge = v.bridge /\ u.staged = v.staged /\ u.raised = v.raised
        /\ u.proxy = v.proxy /\ u.asked = v.asked /\ u.callee = v.callee /\ u.mail = v.mail
    BY <1>1, <1>2 DEF Fields
  <2>2. /\ u.unstarted = v.unstarted /\ u.told = v.told /\ u.emitted = v.emitted
        /\ u.open = v.open
        /\ u.running = v.running /\ u.watches = v.watches /\ u.waiter = v.waiter
    BY <1>1, <1>2 DEF RegionFields
  <2> QED
    BY <2>1, <2>2
<1>5. /\ u.mailbox \in Seq(Asks) /\ ToSet(u.mailbox) = ToSet(v.mailbox) \cup {x}
      /\ u.arrived \in Seq(Asks) /\ ToSet(u.arrived) = ToSet(v.arrived) \cup {x}
      /\ \A y : Has(u.mailbox, y) <=> Has(v.mailbox, y) \/ y = x
  <2>1. /\ Append(v.mailbox, x) \in Seq(Asks) /\ ToSet(Append(v.mailbox, x)) = ToSet(v.mailbox) \cup {x}
        /\ \A y : Has(Append(v.mailbox, x), y) <=> Has(v.mailbox, y) \/ y = x
    BY <1>1, ToSetAppend, OrderAppend
  <2>2. /\ Append(v.arrived, x) \in Seq(Asks)
        /\ ToSet(Append(v.arrived, x)) = ToSet(v.arrived) \cup {x}
    BY <1>1, ToSetAppend
  <2>3. u.mailbox = Append(v.mailbox, x) /\ u.arrived = Append(v.arrived, x)
    BY <1>2
  <2>4. /\ u.mailbox \in Seq(Asks) /\ ToSet(u.mailbox) = ToSet(v.mailbox) \cup {x}
        /\ \A y : Has(u.mailbox, y) <=> Has(v.mailbox, y) \/ y = x
    BY <2>1, <2>3
  <2>5. u.arrived \in Seq(Asks) /\ ToSet(u.arrived) = ToSet(v.arrived) \cup {x}
    BY <2>2, <2>3
  <2> QED
    BY <2>4, <2>5
<1>6. IsNursery(u)
  <2>1. u = [f \in DOMAIN u |-> u[f]]
    BY <1>2 DEF IsRecord
  <2> QED
    BY <1>1, <1>2, <1>4, <1>5, <2>1 DEF IsNursery
<1>7. Consistent(Plain(u)) /\ Sound(u)
  <2>1. u.mail = v.mail \o << >> /\ << >> \in Seq(ToSet(<< >>)) /\ ToSet(<< >>) = {}
    BY <1>1, <1>4, ToSetEmpty DEF IsNursery
  <2> QED
    BY <1>1, <1>2, <1>4, <2>1, QuietKeeps
<1>8. InPlace(u)
  <2>1. ASSUME NEW y \in Asks, NEW z \in Asks, Precedes(u.emitted \o u.mailbox, y, z)
        PROVE  Precedes(u.arrived, y, z)
    <3> DEFINE s == v.emitted \o v.mailbox
    <3>1. u.emitted \o u.mailbox = Append(s, x) /\ s \in Seq(Asks)
      <4>1. \A a, b \in Seq(Asks) : a \o Append(b, x) = Append(a \o b, x) /\ a \o b \in Seq(Asks)
        OBVIOUS
      <4>2. u.emitted = v.emitted /\ u.mailbox = Append(v.mailbox, x)
        BY <1>2, <1>4
      <4>3. v.emitted \in Seq(Asks) /\ v.mailbox \in Seq(Asks)
        BY <1>1
      <4> QED
        BY <4>1, <4>2, <4>3
    <3>2. /\ Has(s, y) => Has(v.arrived, y)
          /\ Precedes(s, y, z) => Precedes(v.arrived, y, z)
      <4>1. Has(s, y) => y \in ToSet(v.emitted) \cup ToSet(v.mailbox)
        BY <1>1, ToSetConcat, HasIsIn
      <4> QED
        BY <1>1, <4>1, HasIsIn DEF Tended, InPlace
    <3> HIDE DEF s
    <3>3. Precedes(s, y, z) \/ (Has(s, y) /\ z = x)
      BY <2>1, <3>1, OrderAppend
    <3> QED
      BY <1>1, <1>2, <3>2, <3>3, OrderAppend
  <2>2. \A y \in ToSet(u.arrived) : \E j \in Fiber : y \in {j, -j} /\ u.edge[j] # "none"
    BY <1>1, <1>4, <1>5 DEF Tended, InPlace
  <2>3. /\ \A y \in ToSet(u.mailbox) \cup ToSet(u.emitted) : y \in ToSet(u.arrived)
        /\ \A j \in Fiber : -j \in ToSet(u.arrived) => -j \in ToSet(u.mailbox) \cup ToSet(u.emitted)
    BY <1>1, <1>4, <1>5 DEF Tended, InPlace
  <2> QED
    BY <2>1, <2>2, <2>3 DEF InPlace
<1>9. Tended(u)
  BY <1>1, <1>4, <1>8, TendedTalk DEF Tended, Raising, Live
<1>10. AsksKept(u)
  <2> SUFFICES ASSUME NEW j \in Fiber, u.callee[j] = "asking", u.edge[j] = "running" PROVE Heard(u, j)
    BY DEF AsksKept
  <2>1. Heard(v, j) \/ j = x
    BY <1>4
  <2>2. \A y \in Watch : Raised(v, j, y) => Raised(u, j, y)
    BY <1>4 DEF Raised
  <2> QED
    BY <1>4, <1>5, <2>1, <2>2 DEF Heard
<1>11. Routed(u) /\ WorkOk(u) /\ BatchOk(u, batch)
  <2>1. Routed(u)
    BY <1>4 DEF Routed, Live, Alive
  <2>2. StagedOk(u)
    BY <1>4 DEF WorkOk, StagedOk
  <2>3. \A e : Originated(v, e) => Originated(u, e)
    BY <1>4 DEF Originated
  <2>4. BatchOk(u, batch)
    BY <1>4 DEF BatchOk
  <2> QED
    BY <1>4, <2>1, <2>2, <2>3, <2>4 DEF WorkOk
<1>12. Minded(u)
  BY <1>6, <1>7, <1>9, <1>10, MindedKept
<1> QED
  BY <1>3, <1>7, <1>10, <1>11, <1>12, PumpKeeps

-----------------------------------------------------------------------------
(* A fiber is told to stop, and what it had asked is dropped.              *)

\* One child is told to stop while the call runs on.
LEMMA OneStops ==
  ASSUME NEW p, Consistent(p), NEW i \in Inner, p.edge[i] = "running"
  PROVE  LET s == [p EXCEPT !.edge = [p.edge EXCEPT ![i] = "cancelling"]]
         IN Consistent(s) /\ IsWarm(s) /\ Consistent(Send(s, "terminate", i, Own))
<1> DEFINE s == [p EXCEPT !.edge = [p.edge EXCEPT ![i] = "cancelling"]]
<1>1. IsWarm(p) /\ p.edge \in [Inner -> Edges]
  BY DEF Consistent, IsWarm
<1>2. /\ s = [f \in DOMAIN s |-> s[f]] /\ DOMAIN s = DOMAIN p
      /\ s.edge = [p.edge EXCEPT ![i] = "cancelling"]
      /\ \A f \in DOMAIN p \ {"edge"} : s[f] = p[f]
  BY <1>1 DEF IsWarm, Fields
<1> HIDE DEF s
<1>3. /\ s.status = p.status /\ s.settled = p.settled /\ s.held = p.held /\ s.relays = p.relays
      /\ s.raised = p.raised /\ s.proxy = p.proxy /\ s.callee = p.callee /\ s.asked = p.asked
      /\ s.mail = p.mail
  BY <1>1, <1>2 DEF IsWarm, Fields
<1>4. s.edge \in [Inner -> Edges] /\ s.edge[i] = "cancelling" /\ \A j \in Inner : j # i => s.edge[j] = p.edge[j]
  BY <1>1, <1>2 DEF Edges
<1>5. IsWarm(s)
  BY <1>1, <1>2, <1>3, <1>4 DEF IsWarm
<1>6. \A c \in Call : CallOk(s, c) /\ HeldOk(s, c)
  BY <1>3 DEF Consistent, CallOk, HeldOk
<1>7. ASSUME NEW j \in Inner PROVE InnerOk(s, j) /\ Wound(s, j) /\ AskOk(s, j)
  <2>1. InnerOk(p, j) /\ Wound(p, j) /\ AskOk(p, j)
    BY DEF Consistent
  <2>2. CASE j # i
    BY <1>3, <1>4, <2>1, <2>2 DEF InnerOk, Wound, AskOk, AskMoves
  <2>3. CASE j = i
    <3>1. InnerOk(s, j)
      BY <1>3, <1>4, <2>1, <2>3 DEF InnerOk
    <3>2. Wound(s, j) /\ AskOk(s, j)
      BY <1>3, <1>4, <2>1, <2>3 DEF Wound, AskOk
    <3> QED
      BY <3>1, <3>2
  <2> QED
    BY <2>2, <2>3
<1>8. Consistent(s)
  BY <1>5, <1>6, <1>7 DEF Consistent
<1>9. Consistent(Send(s, "terminate", i, Own))
  <2>1. Event("terminate", i, Own) \in Letters /\ i \notin Call
    BY OwnFacts DEF Letters, EventKind
  <2> QED
    BY <1>4, <1>8, <2>1, SendKeeps
<1> QED
  BY <1>5, <1>8, <1>9 DEF s

LEMMA StopFacts ==
  ASSUME NEW v, Minded(v), NEW i \in Fiber
  PROVE  LET u == TerminateFiber(DropFiberMailbox(v, i), i)
             q == IF v.edge[i] = "running" THEN <<Event("terminate", i, Own)>> ELSE << >>
         IN /\ IsRecord(u) /\ DOMAIN u = DOMAIN v
            /\ u.mailbox = Without(v.mailbox, {i}) /\ u.mail = v.mail \o q
            /\ u.edge = [j \in Inner |-> IF j = i /\ v.edge[i] = "running" THEN "cancelling" ELSE v.edge[j]]
            /\ \A f \in DOMAIN v \ {"mailbox", "mail", "edge"} : u[f] = v[f]
<1> DEFINE m == Without(v.mailbox, {i})
           s == [v EXCEPT !.mailbox = m]
           e == Event("terminate", i, Own)
           u == TerminateFiber(DropFiberMailbox(v, i), i)
<1>1. /\ IsRecord(v) /\ DOMAIN v = Fields \cup RegionFields /\ v.mail \in Seq(ToSet(v.mail))
      /\ v.edge \in [Inner -> Edges] /\ i \in Inner
  BY NurseryFacts DEF Fiber
<1> HIDE DEF m
<1>2. /\ IsRecord(s) /\ DOMAIN s = DOMAIN v /\ s.mailbox = m /\ s.mail = v.mail /\ s.edge = v.edge
      /\ \A f \in DOMAIN v \ {"mailbox"} : s[f] = v[f]
  BY <1>1 DEF IsRecord, Fields, RegionFields
<1>3. u = IF s.edge[i] = "running" THEN [Send(s, "terminate", i, Own) EXCEPT !.edge[i] = "cancelling"] ELSE s
  BY DEF TerminateFiber, DropFiberMailbox, m
<1> HIDE DEF s, u
<1>4. CASE v.edge[i] = "running"
  <2>1. u = [s EXCEPT !.mail = Append(@, e), !.edge[i] = "cancelling"]
    BY <1>2, <1>3, <1>4 DEF Send
  <2> HIDE DEF e
  <2>2. /\ IsRecord(u) /\ DOMAIN u = DOMAIN s /\ u.mail = Append(s.mail, e)
        /\ u.edge = [s.edge EXCEPT ![i] = "cancelling"] /\ u.mailbox = s.mailbox
        /\ \A f \in DOMAIN s \ {"mail", "edge"} : u[f] = s[f]
    BY <1>1, <1>2, <2>1 DEF IsRecord, Fields, RegionFields
  <2>3. Append(s.mail, e) = v.mail \o <<e>>
    BY <1>1, <1>2
  <2>4. [s.edge EXCEPT ![i] = "cancelling"] = [j \in Inner |-> IF j = i THEN "cancelling" ELSE v.edge[j]]
    BY <1>1, <1>2
  <2> QED
    BY <1>2, <1>4, <2>2, <2>3, <2>4 DEF u, m, e
<1>5. CASE v.edge[i] # "running"
  <2>1. u = s
    BY <1>2, <1>3, <1>5
  <2>2. v.mail \o << >> = v.mail
    BY <1>1
  <2>3. v.edge = [j \in Inner |-> IF j = i /\ v.edge[i] = "running" THEN "cancelling" ELSE v.edge[j]]
    BY <1>1, <1>5
  <2> QED
    BY <1>2, <1>5, <2>1, <2>2, <2>3 DEF u, m
<1> QED
  BY <1>4, <1>5

LEMMA StopConsistent ==
  ASSUME NEW v, Minded(v), Consistent(Plain(v)), NEW i \in Fiber
  PROVE  Consistent(Plain(TerminateFiber(DropFiberMailbox(v, i), i)))
<1> DEFINE m == Without(v.mailbox, {i})
           s == [v EXCEPT !.mailbox = m]
           u == TerminateFiber(DropFiberMailbox(v, i), i)
<1>1. /\ IsRecord(v) /\ DOMAIN v = Fields \cup RegionFields /\ v.mail \in Seq(ToSet(v.mail))
      /\ v.edge \in [Inner -> Edges] /\ i \in Inner /\ Sound(v)
  BY NurseryFacts DEF Fiber, Minded
<1> HIDE DEF m
<1>2. /\ IsRecord(s) /\ DOMAIN s = DOMAIN v
      /\ \A f \in DOMAIN v \ {"mailbox"} : s[f] = v[f]
  BY <1>1 DEF IsRecord, Fields, RegionFields
<1>3. u = IF s.edge[i] = "running" THEN [Send(s, "terminate", i, Own) EXCEPT !.edge[i] = "cancelling"] ELSE s
  BY DEF TerminateFiber, DropFiberMailbox, m
<1> HIDE DEF s, u
<1>4. /\ s.status = v.status /\ s.settled = v.settled /\ s.held = v.held /\ s.edge = v.edge
      /\ s.raised = v.raised /\ s.proxy = v.proxy /\ s.callee = v.callee /\ s.mail = v.mail
  BY <1>1, <1>2 DEF Fields, RegionFields
<1>5. Consistent(Plain(s)) /\ Sound(s)
  <2>1. s.mail = v.mail \o << >> /\ << >> \in Seq(ToSet(<< >>)) /\ ToSet(<< >>) = {}
    BY <1>1, <1>4, ToSetEmpty
  <2> QED
    BY <1>1, <1>2, <1>4, <2>1, QuietKeeps
<1>6. CASE s.edge[i] = "running"
  <2> DEFINE e == [s.edge EXCEPT ![i] = "cancelling"]
             r == [s EXCEPT !.edge = e]
  <2>1. u = Send(r, "terminate", i, Own)
    <3> DEFINE a == [Send(s, "terminate", i, Own) EXCEPT !.edge[i] = "cancelling"]
               b == Send(r, "terminate", i, Own)
               q == Append(s.mail, Event("terminate", i, Own))
    <3>1. a = [s EXCEPT !.mail = q, !.edge = e]
      BY <1>1, <1>2 DEF Send, IsRecord, Fields
    <3>2. b = [s EXCEPT !.edge = e, !.mail = q]
      <4> HIDE DEF e
      <4>1. r.mail = s.mail
        BY <1>2 DEF IsRecord
      <4> QED
        BY <4>1 DEF Send
    <3>3. [s EXCEPT !.mail = q, !.edge = e] = [s EXCEPT !.edge = e, !.mail = q]
      <4> HIDE DEF q, e
      <4> QED
        BY <1>2 DEF IsRecord
    <3> QED
      BY <1>3, <1>6, <3>1, <3>2, <3>3
  <2>2. Plain(s).edge = s.edge
    BY <1>2, PlainFacts
  <2>3. /\ Consistent([Plain(s) EXCEPT !.edge = e]) /\ IsWarm([Plain(s) EXCEPT !.edge = e])
        /\ Consistent(Send([Plain(s) EXCEPT !.edge = e], "terminate", i, Own))
    BY <1>1, <1>5, <1>6, <2>2, OneStops
  <2> HIDE DEF e
  <2>4. Plain(r) = [Plain(s) EXCEPT !.edge = e]
    BY <1>2, PlainEdge
  <2>5. IsRecord(r) /\ r.mail = s.mail
    BY <1>2 DEF IsRecord
  <2>6. Sound(r)
    BY <1>1, <1>4, <2>3, <2>4, <2>5 DEF Sound
  <2> HIDE DEF r
  <2>7. Hushed(Event("terminate", i, Own)) = Event("terminate", i, Own)
    BY Spoken DEF Asking
  <2>8. Plain(u) = Send(Plain(r), "terminate", i, Own)
    BY <2>1, <2>6, <2>7, PlainSend
  <2>9. Consistent(Plain(u))
    BY <2>3, <2>4, <2>8
  <2> QED
    BY <2>9 DEF u
<1>7. CASE s.edge[i] # "running"
  <2>1. Consistent(Plain(u))
    BY <1>3, <1>5, <1>7
  <2> QED
    BY <2>1 DEF u
<1> QED
  BY <1>6, <1>7

LEMMA StopKeeps ==
  ASSUME NEW v, NEW batch, Minded(v), Consistent(Plain(v)), Routed(v), WorkOk(v), BatchOk(v, batch),
         NEW i \in Fiber
  PROVE  LET u == TerminateFiber(DropFiberMailbox(v, i), i)
         IN /\ Minded(u) /\ Consistent(Plain(u)) /\ Routed(u) /\ WorkOk(u) /\ BatchOk(u, batch)
            /\ Due(v) => Due(u)
            /\ u.callee = v.callee /\ u.status = v.status /\ u.held = v.held /\ u.told = v.told
            /\ u.waiter = v.waiter /\ u.open = v.open
            /\ \A j \in Inner : /\ u.edge[j] = "none" <=> v.edge[j] = "none"
                                /\ u.edge[j] = "running" => v.edge[j] = "running" /\ j # i
            /\ \A j \in Fiber : Heard(v, j) /\ u.edge[j] = "running" => Heard(u, j)
<1> DEFINE u == TerminateFiber(DropFiberMailbox(v, i), i)
           q == IF v.edge[i] = "running" THEN <<Event("terminate", i, Own)>> ELSE << >>
<1>1. /\ IsRecord(v) /\ DOMAIN v = Fields \cup RegionFields /\ v.mail \in Seq(ToSet(v.mail))
      /\ v.edge \in [Inner -> Edges] /\ i \in Inner /\ Sound(v) /\ IsNursery(v) /\ Tended(v)
      /\ v.mailbox \in Seq(Asks) /\ v.emitted \in Seq(Asks)
  BY NurseryFacts DEF Fiber, Minded, IsNursery
<1>2. /\ IsRecord(u) /\ DOMAIN u = DOMAIN v
      /\ u.mailbox = Without(v.mailbox, {i}) /\ u.mail = v.mail \o q
      /\ u.edge = [j \in Inner |-> IF j = i /\ v.edge[i] = "running" THEN "cancelling" ELSE v.edge[j]]
      /\ \A f \in DOMAIN v \ {"mailbox", "mail", "edge"} : u[f] = v[f]
  BY StopFacts
<1>3. Consistent(Plain(u))
  BY StopConsistent
<1>4. /\ q \in Seq(ToSet(q)) /\ \A t \in ToSet(q) : t = Event("terminate", i, Own)
  <2> DEFINE e == Event("terminate", i, Own)
  <2>1. ToSet(<<e>>) = {e} /\ ToSet(<< >>) = {}
    BY DEF ToSet
  <2> HIDE DEF e
  <2>2. <<e>> \in Seq({e}) /\ << >> \in Seq({})
    OBVIOUS
  <2>3. q = <<e>> \/ q = << >>
    BY DEF e
  <2> QED
    BY <2>1, <2>2, <2>3 DEF e
<1>5. IsEvent(Event("terminate", i, Own)) /\ Event("terminate", i, Own).k \notin Asking
  BY EventFacts DEF EventKind, Asking
<1> HIDE DEF u, q
<1>6. /\ u.mail \in Seq(ToSet(u.mail)) /\ ToSet(u.mail) = ToSet(v.mail) \cup ToSet(q)
      /\ \A e : Has(v.mail, e) => Has(u.mail, e)
  <2> DEFINE S == ToSet(v.mail) \cup ToSet(q)
  <2>1. v.mail \in Seq(S) /\ q \in Seq(S)
    BY <1>1, <1>4, SeqWiden
  <2>2. v.mail \o q \in Seq(S) /\ ToSet(v.mail \o q) = S
    <3> HIDE DEF S
    <3> QED
      BY <2>1, ToSetConcat DEF S
  <2> HIDE DEF S
  <2>3. u.mail \in Seq(ToSet(u.mail))
    BY <1>2, <2>2, SeqOfOwn
  <2> QED
    BY <1>2, <2>2, <2>3, HasIsIn DEF S
<1>7. /\ u.status = v.status /\ u.settled = v.settled /\ u.held = v.held /\ u.relays = v.relays
      /\ u.bridge = v.bridge /\ u.staged = v.staged /\ u.raised = v.raised
      /\ u.proxy = v.proxy /\ u.asked = v.asked /\ u.callee = v.callee
      /\ u.unstarted = v.unstarted /\ u.told = v.told /\ u.emitted = v.emitted
      /\ u.arrived = v.arrived /\ u.open = v.open
      /\ u.running = v.running /\ u.watches = v.watches /\ u.waiter = v.waiter
  BY <1>1, <1>2 DEF Fields, RegionFields
<1>8. /\ u.mailbox \in Seq(Asks) /\ ToSet(u.mailbox) = ToSet(v.mailbox) \ {i}
      /\ \A e, f : Precedes(u.mailbox, e, f) => Precedes(v.mailbox, e, f)
  BY <1>1, <1>2, WithoutFacts
<1>9. /\ \A j \in Inner : u.edge[j] = "none" <=> v.edge[j] = "none"
      /\ \A j \in Inner : u.edge[j] = "running" => v.edge[j] = "running" /\ j # i
      /\ \A j \in Inner : Alive(u, j) <=> Alive(v, j)
      /\ \A j \in Inner : u.edge[j] = "retired" <=> v.edge[j] = "retired"
      /\ \A j \in Inner : v.edge[j] \in {"cancelling", "retired"} => u.edge[j] = v.edge[j]
  BY <1>1, <1>2 DEF Alive
<1>10. u.edge \in [Inner -> Edges]
  BY <1>1, <1>2 DEF Edges
<1>11. IsNursery(u)
  <2>1. u = [f \in DOMAIN u |-> u[f]]
    BY <1>2 DEF IsRecord
  <2>2. \A t \in ToSet(u.mail) : t.k \in Asking => t \in Speeches
    BY <1>1, <1>4, <1>5, <1>6 DEF IsNursery
  <2> QED
    BY <1>1, <1>2, <1>6, <1>7, <1>8, <2>1, <2>2 DEF IsNursery
<1>12. InPlace(u)
  <2>1. ASSUME NEW y \in Asks, NEW z \in Asks, Precedes(u.emitted \o u.mailbox, y, z)
        PROVE  Precedes(u.arrived, y, z)
    <3>1. Precedes(u.emitted, y, z) \/ Precedes(u.mailbox, y, z) \/ (Has(u.emitted, y) /\ Has(u.mailbox, z))
      <4>1. u.emitted \in Seq(Asks) /\ u.mailbox \in Seq(Asks)
        BY <1>1, <1>7, <1>8
      <4> QED
        BY <2>1, <4>1, OrderConcat
    <3>2. Has(u.mailbox, z) => Has(v.mailbox, z)
      BY <1>8, HasIsIn
    <3>3. Precedes(v.emitted \o v.mailbox, y, z)
      BY <1>1, <1>7, <1>8, <3>1, <3>2, OrderConcat
    <3> QED
      BY <1>1, <1>7, <3>3 DEF Tended, InPlace
  <2>2. \A y \in ToSet(u.arrived) : \E j \in Fiber : y \in {j, -j} /\ u.edge[j] # "none"
    BY <1>1, <1>7, <1>9 DEF Tended, InPlace, Fiber
  <2>3. \A y \in ToSet(u.mailbox) \cup ToSet(u.emitted) : y \in ToSet(u.arrived)
    BY <1>1, <1>7, <1>8 DEF Tended, InPlace
  <2>4. ASSUME NEW j \in Fiber, -j \in ToSet(u.arrived) PROVE -j \in ToSet(u.mailbox) \cup ToSet(u.emitted)
    BY <1>1, <1>7, <1>8, <2>4, NamesOfAsks DEF Tended, InPlace
  <2> QED
    BY <2>1, <2>2, <2>3, <2>4 DEF InPlace
<1>13. Tended(u)
  <2>1. Bridged(u)
    BY <1>1, <1>7, <1>9, BridgedSame DEF Tended
  <2>2. Named(u)
    BY <1>1, <1>7, <1>9, RegionParts, RegionAssumption DEF Tended, Named, Fiber
  <2>3. Truthful(u)
    <3>1. \A k \in Cancel : Target[k] \in Inner
      BY RegionAssumption DEF Fiber
    <3> QED
      BY <1>1, <1>7, <1>9, <3>1 DEF Tended, Truthful
  <2>4. Childless(u) /\ Raising(u)
    BY <1>1, <1>7 DEF Tended, Childless, Raising, Live
  <2> QED
    BY <1>12, <2>1, <2>2, <2>3, <2>4 DEF Tended
<1>14. Minded(u)
  <2>1. Sound(u)
    BY <1>2, <1>3, <1>6 DEF Sound, Consistent
  <2>2. ASSUME NEW j \in Inner PROVE Wound(u, j)
    <3>1. Wound(Plain(u), j)
      BY <1>3 DEF Consistent
    <3> QED
      BY <1>2, <3>1, PlainFacts DEF Wound
  <2> QED
    BY <1>11, <1>13, <2>1, <2>2 DEF Minded
<1>15. Routed(u)
  BY <1>7, <1>9 DEF Routed, Live, Fiber
<1>16. WorkOk(u)
  <2>1. StagedOk(u)
    <3>1. StagedOk(v)
      BY DEF WorkOk
    <3> QED
      BY <1>7, <1>9, <3>1 DEF StagedOk
  <2>2. ASSUME NEW t \in ToSet(u.mail), ~IsEvent(t) PROVE Originated(u, t)
    <3>1. t \in ToSet(v.mail)
      BY <1>4, <1>5, <1>6, <2>2
    <3>2. Originated(v, t)
      BY <2>2, <3>1 DEF WorkOk
    <3>3. \A j \in Fiber : v.edge[j] = "retired" => u.edge[j] = "retired"
      BY <1>9 DEF Fiber
    <3> QED
      BY <1>7, <3>2, <3>3 DEF Originated
  <2> QED
    BY <2>1, <2>2 DEF WorkOk
<1>17. BatchOk(u, batch)
  <2>1. ~IsEvent(Work("start", Provide))
    BY DEF Work, IsEvent, EventKind
  <2>2. Has(u.mail, Work("start", Provide)) => Has(v.mail, Work("start", Provide))
    BY <1>4, <1>5, <1>6, <2>1, HasIsIn
  <2> QED
    BY <1>7, <1>9, <2>2 DEF BatchOk
<1>18. Due(v) => Due(u)
  <2>1. u.mailbox # << >> => v.mailbox # << >>
    <3>1. ASSUME v.mailbox = << >> PROVE u.mailbox = << >>
      <4>1. ToSet(u.mailbox) = {}
        BY <1>8, <3>1, ToSetEmpty
      <4> QED
        <5>1. Len(u.mailbox) \in Nat /\ DOMAIN u.mailbox = 1..Len(u.mailbox)
          BY <1>8
        <5>2. 1 \notin DOMAIN u.mailbox
          BY <4>1 DEF ToSet
        <5> QED
          BY <1>8, <5>1, <5>2
    <3> QED
      BY <3>1
  <2> QED
    BY <1>6, <1>7, <2>1 DEF Due, Relays
<1>19. ASSUME NEW j \in Fiber, Heard(v, j), u.edge[j] = "running" PROVE Heard(u, j)
  <2>1. j # i
    BY <1>9, <1>19 DEF Fiber
  <2>2. Has(v.mailbox, j) => Has(u.mailbox, j)
    BY <1>8, <2>1, HasIsIn
  <2>3. \A y \in Watch : Raised(v, j, y) => Raised(u, j, y)
    BY <1>6, <1>7 DEF Raised
  <2> QED
    BY <1>6, <1>19, <2>2, <2>3 DEF Heard
<1> QED
  BY <1>3, <1>7, <1>9, <1>14, <1>15, <1>16, <1>17, <1>18, <1>19 DEF u

-----------------------------------------------------------------------------
(* An ask, or the failure of a fiber.                                      *)

\* When the ask of i was taken, only that one may be missed.
LEMMA OthersHeard ==
  ASSUME NEW w, NEW batch, Good(w, batch), w.mail # << >>, NEW i \in Inner, Head(w.mail).d = i,
         NEW j \in Fiber, w.callee[j] = "asking", w.edge[j] = "running"
  PROVE  Heard(Rest(w), j) \/ j = i
<1>1. \A k, x : Head(w.mail) = Event(k, x, j) => x = i
  BY EventFacts
<1>2. \A k : Head(w.mail) = Event(k, j, Own) => j = i
  BY EventFacts
<1>3. i \notin Watch
  BY OwnFacts, RegionParts
<1> QED
  BY <1>1, <1>2, <1>3, HeardTaken

\* The ask of who is no fiber of the nursery goes up under the provide.
LEMMA UpKeeps ==
  ASSUME NEW v, NEW batch, Good(v, batch), NEW i \in Inner
  PROVE  Good(OnEscalate(v, i), batch)
<1> DEFINE u == OnEscalate(v, i)
           q == <<Event("escalate", Provide, i)>>
<1>1. /\ Minded(v) /\ Routed(v) /\ WorkOk(v) /\ Due(v) /\ BatchOk(v, batch) /\ Consistent(Plain(v))
      /\ IsRecord(v) /\ DOMAIN v = Fields \cup RegionFields /\ Sound(v) /\ IsNursery(v) /\ Tended(v)
      /\ AsksKept(v)
  BY GoodPoised, NurseryFacts DEF Good
<1>2. CASE ~(Alive(v, i) /\ Relays(v, Provide))
  BY <1>2, RegionParts DEF OnEscalate, Alive
<1>3. CASE Alive(v, i) /\ Relays(v, Provide)
  <2>1. u = [Send(v, "escalate", Provide, i) EXCEPT !.relays = @ \cup {<<Provide, i>>}]
    BY <1>3, RegionParts DEF OnEscalate, Alive
  <2>2. Append(v.mail, Event("escalate", Provide, i)) = v.mail \o q
    BY <1>1 DEF IsNursery
  <2> HIDE DEF u
  <2>3. /\ IsRecord(u) /\ DOMAIN u = DOMAIN v /\ u.relays = v.relays \cup {<<Provide, i>>}
        /\ u.mail = v.mail \o q
        /\ \A f \in DOMAIN v \ {"relays", "mail"} : u[f] = v[f]
    BY <1>1, <2>1, <2>2 DEF Send, IsRecord, Fields
  <2>4. q \in Seq(Speeches) /\ (\A e \in ToSet(q) : ~IsEvent(Hushed(e)))
    <3>1. i \in Asks /\ i # Own
      BY NamesOfAsks
    <3>2. /\ Event("escalate", Provide, i) \in Speeches
          /\ ~IsEvent(Hushed(Event("escalate", Provide, i)))
      BY <3>1, SpeechFacts, RegionParts DEF Asking
    <3> QED
      BY <3>2 DEF ToSet
  <2> HIDE DEF q
  <2>5. /\ u.mail \in Seq(ToSet(u.mail)) /\ ToSet(u.mail) = ToSet(v.mail) \cup ToSet(q)
        /\ \A e \in ToSet(u.mail) : e.k \in Asking => e \in Speeches
        /\ \A e : Has(u.mail, e) <=> Has(v.mail, e) \/ Has(q, e)
        /\ q \in Seq(ToSet(q)) /\ \A e \in ToSet(q) : IsEvent(e)
    <3> DEFINE m == u.mail
    <3>1. IsNursery(v) /\ q \in Seq(Speeches) /\ m = v.mail \o q
      BY <1>1, <2>3, <2>4
    <3> HIDE DEF m
    <3>2. /\ m \in Seq(ToSet(m)) /\ ToSet(m) = ToSet(v.mail) \cup ToSet(q)
          /\ \A e \in ToSet(m) : e.k \in Asking => e \in Speeches
          /\ \A e : Has(m, e) <=> Has(v.mail, e) \/ Has(q, e)
          /\ q \in Seq(ToSet(q)) /\ \A e \in ToSet(q) : e \in Speeches /\ IsEvent(e)
      BY <3>1, TalkMail
    <3> QED
      BY <3>2 DEF m
  <2>6. /\ u.status = v.status /\ u.settled = v.settled /\ u.held = v.held
        /\ u.edge = v.edge /\ u.bridge = v.bridge /\ u.staged = v.staged /\ u.raised = v.raised
        /\ u.proxy = v.proxy /\ u.asked = v.asked /\ u.callee = v.callee
        /\ u.mailbox = v.mailbox /\ u.unstarted = v.unstarted /\ u.told = v.told
        /\ u.arrived = v.arrived /\ u.emitted = v.emitted /\ u.open = v.open
        /\ u.running = v.running /\ u.watches = v.watches /\ u.waiter = v.waiter
    BY <1>1, <2>3 DEF Fields, RegionFields
  <2>7. Consistent(Plain(u))
    BY <1>1, <2>3, <2>4, <2>5, <2>6, QuietKeeps
  <2>8. IsNursery(u)
    <3>1. u = [f \in DOMAIN u |-> u[f]]
      BY <2>3 DEF IsRecord
    <3>2. u.relays \subseteq Call \X Asks
      BY <1>1, <2>3, NamesOfAsks, RegionParts DEF IsNursery
    <3> QED
      BY <1>1, <2>3, <2>5, <2>6, <3>1, <3>2 DEF IsNursery
  <2>9. InPlace(u) /\ Raising(u)
    <3>1. Provide \notin Watch
      BY RegionAssumption
    <3> QED
      BY <1>1, <2>3, <2>6, <3>1 DEF Tended, InPlace, Raising, Live
  <2>10. Tended(u)
    BY <1>1, <2>6, <2>9, TendedTalk
  <2>11. AsksKept(u)
    <3> SUFFICES ASSUME NEW j \in Fiber, u.callee[j] = "asking", u.edge[j] = "running" PROVE Heard(u, j)
      BY DEF AsksKept
    <3>1. Heard(v, j)
      BY <1>1, <2>6 DEF AsksKept
    <3>2. \A y \in Watch : Raised(v, j, y) => Raised(u, j, y)
      BY <2>3, <2>5, <2>6 DEF Raised
    <3> QED
      BY <2>5, <2>6, <3>1, <3>2 DEF Heard
  <2>12. Due(u)
    BY <1>1, <2>5, <2>6 DEF Due, Relays
  <2>13. Good(u, batch)
    BY <1>1, <2>5, <2>6, <2>7, <2>8, <2>10, <2>11, <2>12, TalkKeeps
  <2> QED
    BY <2>13 DEF u
<1> QED
  BY <1>2, <1>3

LEMMA EscalateTurn ==
  ASSUME NEW w, NEW batch, Good(w, batch), w.mail # << >>, NEW i \in Inner,
         Head(w.mail).k = "escalate", Head(w.mail).d = i, NEW what
  PROVE  Good(OnDropCall(Rest(w), RegionOnEscalate(Rest(w), i, what)), Append(batch, Head(w.mail)))
<1> DEFINE v == Rest(w)
           more == Append(batch, Head(w.mail))
<1>1. Head(w.mail).k \in Asking
  BY DEF Asking
<1>2. /\ Minded(v) /\ Routed(v) /\ WorkOk(v) /\ Due(v) /\ BatchOk(v, more) /\ Consistent(Plain(v))
      /\ v.callee = w.callee /\ v.edge = w.edge /\ v.running \subseteq Fiber
      /\ v.edge \in [Inner -> Edges]
  BY <1>1, TakenWord, NurseryFacts
<1>3. \A j \in Fiber : v.callee[j] = "asking" /\ v.edge[j] = "running" => Heard(v, j) \/ j = i
  BY <1>2, OthersHeard
<1> HIDE DEF v, more
<1>4. CASE i \notin v.running
  <2>1. AsksKept(v)
    <3> SUFFICES ASSUME i \in Fiber, v.edge[i] = "running" PROVE FALSE
      BY <1>3 DEF AsksKept
    <3>1. v.status[Provide] = "running"
      BY <1>2, AskingRuns
    <3>2. v.open
      BY <1>2, <3>1 DEF Routed
    <3> QED
      BY <1>2, <1>4, <3>2 DEF Routed, Alive
  <2>2. Good(v, more)
    BY <1>2, <2>1, MindedKept DEF Good, Runs, Minded
  <2>3. RegionOnEscalate(v, i, what) = OnEscalate(v, i)
    BY <1>4 DEF RegionOnEscalate
  <2>4. Good(RegionOnEscalate(v, i, what), more)
    BY <2>2, <2>3, UpKeeps
  <2> QED
    BY <2>4, TurnEnds DEF v, more
<1>5. CASE i \in v.running
  <2>1. i \in Fiber /\ v.edge[i] # "none"
    <3>1. i \in Fiber /\ v.open
      BY <1>2, <1>5 DEF Routed
    <3> QED
      BY <1>2, <1>5, <3>1 DEF Routed, Alive
  <2>2. i \in Asks /\ -i \in Asks
    BY <2>1, NamesOfAsks
  <2>3. CASE what = "failure"
    <3> DEFINE u == TerminateFiber(DropFiberMailbox(v, i), i)
    <3>1. RegionOnEscalate(v, i, what) = Post(u, -i)
      BY <1>5, <2>3 DEF RegionOnEscalate, EndFiber
    <3>2. /\ Minded(u) /\ Consistent(Plain(u)) /\ Routed(u) /\ WorkOk(u) /\ BatchOk(u, more)
          /\ u.callee = v.callee
          /\ \A j \in Inner : /\ u.edge[j] = "none" <=> v.edge[j] = "none"
                              /\ u.edge[j] = "running" => v.edge[j] = "running" /\ j # i
          /\ \A j \in Fiber : Heard(v, j) /\ u.edge[j] = "running" => Heard(u, j)
      BY <1>2, <2>1, StopKeeps
    <3> HIDE DEF u
    <3>3. u.edge[i] # "none"
      BY <2>1, <3>2 DEF Fiber
    <3>4. \A j \in Fiber : u.callee[j] = "asking" /\ u.edge[j] = "running" => Heard(u, j)
      BY <1>3, <3>2 DEF Fiber
    <3>5. Good(Post(u, -i), more)
      <4> DEFINE x == -i
      <4>1. x \in Asks /\ x \in {i, -i}
        BY <2>2
      <4> HIDE DEF x
      <4>2. Good(Post(u, x), more)
        BY <2>1, <3>2, <3>3, <3>4, <4>1, PostKeeps
      <4> QED
        BY <4>2 DEF x
    <3> QED
      BY <3>1, <3>5, TurnEnds DEF v, more
  <2>4. CASE what # "failure"
    <3>1. RegionOnEscalate(v, i, what) = Post(v, i)
      BY <1>5, <2>4 DEF RegionOnEscalate
    <3>2. Good(Post(v, i), more)
      BY <1>2, <1>3, <2>1, <2>2, PostKeeps
    <3> QED
      BY <3>1, <3>2, TurnEnds DEF v, more
  <2> QED
    BY <2>3, <2>4
<1> QED
  BY <1>4, <1>5
=============================================================================
