---------------------------- MODULE RegionProofs ----------------------------
(***************************************************************************)
(* The safety of a nursery, for any fibers, any forks, watches and cancels *)
(* around it, any plan and any misfortune: every step of the specification *)
(* keeps RInv, and RInv implies what the run "region" checks of it.        *)
(***************************************************************************)
EXTENDS NurseryProofs

-----------------------------------------------------------------------------
(* What the actors of core do.                                             *)

\* Core changes the state of its own actors, and writes letters.
LEMMA PeerKeeps ==
  ASSUME NEW v, NEW batch, Minded(v), Routed(v), WorkOk(v), Due(v), BatchOk(v, batch),
         NEW u, IsRecord(u), DOMAIN u = DOMAIN v,
         \A f \in DOMAIN v \ {"callee", "proxy", "asked", "mail"} : u[f] = v[f],
         u.callee \in [Inner -> Callees \cup {"failed"}], u.asked \subseteq Call \X (Asks \cup {Own}),
         NEW q, q \in Seq(ToSet(q)), \A t \in ToSet(q) : IsEvent(t) /\ (t.k \in Asking => t \in Speeches),
         u.mail = v.mail \o q,
         Consistent(Plain(u)), Named(u), AsksKept(u),
         \A c \in Call : v.proxy[c] \in {"cancelling", "done"} => u.proxy[c] \in {"cancelling", "done"}
  PROVE  Good(u, batch)
<1>1. /\ IsRecord(v) /\ DOMAIN v = Fields \cup RegionFields /\ v.mail \in Seq(ToSet(v.mail))
      /\ IsNursery(v) /\ Tended(v)
  BY NurseryFacts DEF Minded
<1>2. /\ u.status = v.status /\ u.settled = v.settled /\ u.held = v.held /\ u.relays = v.relays
      /\ u.edge = v.edge /\ u.bridge = v.bridge /\ u.staged = v.staged /\ u.raised = v.raised
      /\ u.mailbox = v.mailbox /\ u.unstarted = v.unstarted /\ u.told = v.told
      /\ u.arrived = v.arrived /\ u.emitted = v.emitted /\ u.open = v.open
      /\ u.running = v.running /\ u.watches = v.watches /\ u.waiter = v.waiter
  BY <1>1 DEF Fields, RegionFields
<1>3. /\ u.mail \in Seq(ToSet(u.mail)) /\ ToSet(u.mail) = ToSet(v.mail) \cup ToSet(q)
  <2> DEFINE S == ToSet(v.mail) \cup ToSet(q)
  <2>1. v.mail \in Seq(S) /\ q \in Seq(S)
    BY <1>1, SeqWiden
  <2>2. v.mail \o q \in Seq(S) /\ ToSet(v.mail \o q) = S
    <3> HIDE DEF S
    <3> QED
      BY <2>1, ToSetConcat DEF S
  <2> HIDE DEF S
  <2>3. u.mail \in Seq(ToSet(u.mail))
    BY <2>2, SeqOfOwn
  <2> QED
    BY <2>2, <2>3 DEF S
<1>4. IsNursery(u)
  <2>1. u = [f \in DOMAIN u |-> u[f]]
    BY DEF IsRecord
  <2>2. \A t \in ToSet(u.mail) : t.k \in Asking => t \in Speeches
    BY <1>1, <1>3 DEF IsNursery
  <2> QED
    BY <1>1, <1>2, <1>3, <2>1, <2>2 DEF IsNursery
<1>5. Tended(u)
  <2>1. Bridged(u) /\ Truthful(u) /\ InPlace(u) /\ Raising(u)
    BY <1>1, <1>2 DEF Tended, Bridged, Alive, Truthful, InPlace, Raising, Live
  <2>2. Childless(u)
    BY <1>1, <1>2 DEF Tended, Childless
  <2> QED
    BY <2>1, <2>2 DEF Tended
<1>6. Due(u)
  <2>1. Has(v.mail, Work("pump", Provide)) => Has(u.mail, Work("pump", Provide))
    BY <1>3, HasIsIn
  <2> QED
    BY <1>2, <2>1 DEF Due, Relays
<1>7. \A e \in ToSet(u.mail) : e \in ToSet(v.mail) \/ IsEvent(e)
  BY <1>3
<1> QED
  BY <1>2, <1>4, <1>5, <1>6, <1>7, TalkKeeps

\* The instance of a delegation goes on.
Became(v, i, s) == [v EXCEPT !.callee[i] = s]

LEMMA PlainCallee ==
  ASSUME NEW v, Sound(v), v.callee \in [Inner -> Callees \cup {"failed"}],
         NEW i \in Inner, NEW s \in Callees \cup {"failed"}
  PROVE  LET u == Became(v, i, s)
         IN Plain(u) = Became(Plain(v), i, Simple(s)) /\ Sound(u)
<1> DEFINE u == Became(v, i, s)
           q == Became(Plain(v), i, Simple(s))
<1>1. IsRecord(v) /\ IsWarm(Plain(v)) /\ v.mail \in Seq(ToSet(v.mail))
  BY DEF Sound
<1>2. /\ IsRecord(u) /\ DOMAIN u = DOMAIN v /\ u.callee = [v.callee EXCEPT ![i] = s]
      /\ \A f \in DOMAIN v \ {"callee"} : u[f] = v[f]
  BY <1>1 DEF IsRecord, Fields, Became
<1>3. /\ IsRecord(Plain(v)) /\ DOMAIN Plain(v) = DOMAIN v
      /\ Plain(v).relays = {} /\ Plain(v).asked = {}
      /\ Plain(v).callee = [j \in Inner |-> Simple(v.callee[j])]
      /\ Plain(v).mail = [n \in DOMAIN v.mail |-> Hushed(v.mail[n])]
      /\ \A f \in DOMAIN v \ {"relays", "asked", "callee", "mail"} : Plain(v)[f] = v[f]
  BY <1>1, PlainFacts
<1>4. /\ IsRecord(q) /\ DOMAIN q = DOMAIN v /\ q.callee = [Plain(v).callee EXCEPT ![i] = Simple(s)]
      /\ \A f \in DOMAIN v \ {"callee"} : q[f] = Plain(v)[f]
  BY <1>1, <1>3 DEF IsRecord, Fields, Became
<1>5. Simple(s) \in Callees
  BY DEF Simple, Callees
<1> HIDE DEF u, q
<1>6. q.callee = [j \in Inner |-> Simple(u.callee[j])] /\ u.callee \in [Inner -> Callees \cup {"failed"}]
  BY <1>2, <1>3, <1>4
<1>7. u.mail = v.mail /\ q.mail = Plain(v).mail /\ q.relays = {} /\ q.asked = {}
  BY <1>1, <1>2, <1>3, <1>4 DEF IsRecord, Fields
<1>8. q = Plain(u)
  <2>1. \A f \in DOMAIN u \ {"relays", "asked", "callee", "mail"} : q[f] = u[f]
    BY <1>2, <1>3, <1>4
  <2>2. q.mail = [n \in DOMAIN u.mail |-> Hushed(u.mail[n])]
    BY <1>3, <1>7
  <2> QED
    BY <1>2, <1>4, <1>6, <1>7, <2>1, <2>2, PlainIs
<1>9. IsWarm(q)
  <2>1. /\ q.status = Plain(v).status /\ q.settled = Plain(v).settled /\ q.held = Plain(v).held
        /\ q.relays = Plain(v).relays /\ q.edge = Plain(v).edge /\ q.raised = Plain(v).raised
        /\ q.proxy = Plain(v).proxy /\ q.asked = Plain(v).asked
    BY <1>1, <1>3, <1>4 DEF IsRecord, Fields
  <2>2. q.callee \in [Inner -> Callees]
    BY <1>1, <1>4, <1>5 DEF IsWarm
  <2> QED
    BY <1>1, <1>3, <1>4, <1>7, <2>1, <2>2 DEF IsWarm, IsRecord
<1> QED
  BY <1>1, <1>2, <1>6, <1>7, <1>8, <1>9 DEF Sound, u, q

\* The thread of a call goes on, with the asks it has.
Thread(v, c, s, asked) == [v EXCEPT !.proxy[c] = s, !.asked = asked]

LEMMA PlainProxy ==
  ASSUME NEW v, Sound(v), NEW c \in Call, NEW s \in Proxies, NEW asked
  PROVE  LET u == Thread(v, c, s, asked)
         IN Plain(u) = Thread(Plain(v), c, s, {}) /\ Sound(u)
<1> DEFINE u == Thread(v, c, s, asked)
           q == Thread(Plain(v), c, s, {})
<1>1. IsRecord(v) /\ IsWarm(Plain(v)) /\ v.mail \in Seq(ToSet(v.mail))
  BY DEF Sound
<1>2. /\ IsRecord(u) /\ DOMAIN u = DOMAIN v /\ u.proxy = [v.proxy EXCEPT ![c] = s]
      /\ u.asked = asked
      /\ \A f \in DOMAIN v \ {"proxy", "asked"} : u[f] = v[f]
  BY <1>1 DEF IsRecord, Fields, Thread
<1>3. /\ IsRecord(Plain(v)) /\ DOMAIN Plain(v) = DOMAIN v
      /\ Plain(v).relays = {} /\ Plain(v).asked = {}
      /\ Plain(v).callee = [j \in Inner |-> Simple(v.callee[j])]
      /\ Plain(v).mail = [n \in DOMAIN v.mail |-> Hushed(v.mail[n])]
      /\ \A f \in DOMAIN v \ {"relays", "asked", "callee", "mail"} : Plain(v)[f] = v[f]
      /\ Plain(v).proxy = v.proxy
  BY <1>1, PlainFacts
<1>4. /\ IsRecord(q) /\ DOMAIN q = DOMAIN v /\ q.proxy = [Plain(v).proxy EXCEPT ![c] = s]
      /\ \A f \in DOMAIN v \ {"proxy"} : q[f] = Plain(v)[f]
  BY <1>1, <1>3 DEF IsRecord, Fields, Thread
<1> HIDE DEF u, q
<1>5. /\ q.relays = {} /\ q.asked = {} /\ q.callee = Plain(v).callee /\ q.mail = Plain(v).mail
      /\ u.callee = v.callee /\ u.mail = v.mail
  BY <1>1, <1>2, <1>3, <1>4 DEF IsRecord, Fields
<1>6. q = Plain(u)
  <2>1. \A f \in DOMAIN u \ {"relays", "asked", "callee", "mail"} : q[f] = u[f]
    <3> TAKE f \in DOMAIN u \ {"relays", "asked", "callee", "mail"}
    <3>1. CASE f = "proxy"
      BY <1>2, <1>3, <1>4, <3>1
    <3>2. CASE f # "proxy"
      BY <1>2, <1>3, <1>4, <3>2
    <3> QED
      BY <3>1, <3>2
  <2>2. /\ q.mail = [n \in DOMAIN u.mail |-> Hushed(u.mail[n])]
        /\ q.callee = [j \in Inner |-> Simple(u.callee[j])]
    BY <1>3, <1>5
  <2> QED
    BY <1>2, <1>4, <1>5, <2>1, <2>2, PlainIs
<1>7. IsWarm(q)
  <2>1. /\ q.status = Plain(v).status /\ q.settled = Plain(v).settled /\ q.held = Plain(v).held
        /\ q.relays = Plain(v).relays /\ q.edge = Plain(v).edge /\ q.raised = Plain(v).raised
        /\ q.asked = Plain(v).asked
    BY <1>1, <1>3, <1>4 DEF IsRecord, Fields
  <2>2. q.proxy \in [Call -> Proxies]
    BY <1>1, <1>4 DEF IsWarm
  <2> QED
    BY <1>1, <1>3, <1>4, <1>5, <2>1, <2>2 DEF IsWarm, IsRecord
<1> QED
  BY <1>1, <1>2, <1>5, <1>6, <1>7 DEF Sound, u, q

-----------------------------------------------------------------------------
(* Core reads a letter.                                                    *)

\* The instance of i goes on, and writes letters; if it asks, one is its ask.
LEMMA CalleeKeeps ==
  ASSUME NEW v, NEW batch, Minded(v), Routed(v), WorkOk(v), Due(v), BatchOk(v, batch),
         NEW i \in Inner,
         NEW q, q \in Seq(ToSet(q)), \A t \in ToSet(q) : IsEvent(t) /\ (t.k \in Asking => t \in Speeches),
         NEW u, IsRecord(u), DOMAIN u = DOMAIN v, u.callee \in [Inner -> Callees \cup {"failed"}],
         \A j \in Inner : j # i => u.callee[j] = v.callee[j],
         u.mail = v.mail \o q, \A f \in DOMAIN v \ {"callee", "mail"} : u[f] = v[f],
         Consistent(Plain(u)),
         \A j \in Fiber : j # i /\ v.callee[j] = "asking" /\ v.edge[j] = "running" => Heard(v, j),
         u.callee[i] = "asking" => Has(q, Event("escalate", i, Own))
  PROVE  Good(u, batch)
<1>1. /\ IsRecord(v) /\ DOMAIN v = Fields \cup RegionFields /\ v.mail \in Seq(ToSet(v.mail))
      /\ v.callee \in [Inner -> Callees \cup {"failed"}] /\ v.asked \subseteq Call \X (Asks \cup {Own})
      /\ Tended(v)
  BY NurseryFacts DEF Minded
<1>2. /\ u.proxy = v.proxy /\ u.asked = v.asked /\ u.unstarted = v.unstarted /\ u.edge = v.edge
      /\ u.status = v.status /\ u.mailbox = v.mailbox /\ u.emitted = v.emitted /\ u.relays = v.relays
  BY <1>1 DEF Fields, RegionFields
<1>3. \A e : Has(u.mail, e) <=> Has(v.mail, e) \/ Has(q, e)
  <2> DEFINE S == ToSet(v.mail) \cup ToSet(q)
  <2>1. v.mail \in Seq(S) /\ q \in Seq(S)
    BY <1>1, SeqWiden
  <2> HIDE DEF S
  <2>2. ToSet(v.mail \o q) = ToSet(v.mail) \cup ToSet(q)
    BY <2>1, ToSetConcat
  <2> QED
    BY <2>2, HasIsIn
<1>4. Named(u)
  BY <1>1, <1>2 DEF Tended, Named
<1>5. AsksKept(u)
  <2> SUFFICES ASSUME NEW j \in Fiber, u.callee[j] = "asking", u.edge[j] = "running" PROVE Heard(u, j)
    BY DEF AsksKept
  <2>1. CASE j = i
    BY <1>3, <2>1 DEF Heard, Asking
  <2>2. CASE j # i
    <3>1. v.callee[j] = "asking" /\ v.edge[j] = "running"
      BY <1>1, <1>2, <2>2 DEF Fiber
    <3>2. Heard(v, j)
      BY <2>2, <3>1
    <3>3. \A x \in Watch : Raised(v, j, x) => Raised(u, j, x)
      BY <1>2, <1>3 DEF Raised
    <3> QED
      BY <1>2, <1>3, <3>2, <3>3 DEF Heard
  <2> QED
    BY <2>1, <2>2
<1> QED
  <2>1. \A f \in DOMAIN v \ {"callee", "proxy", "asked", "mail"} : u[f] = v[f]
    OBVIOUS
  <2> QED
    BY <1>1, <1>2, <1>4, <1>5, <2>1, PeerKeeps

LEMMA InstanceStartTurn ==
  ASSUME NEW w, NEW batch, Good(w, batch), w.mail # << >>, NEW i \in Inner,
         Head(w.mail) = Event("delegate", i, Own)
  PROVE  Good(CoreReact(Rest(w), Head(w.mail)), batch)
<1> DEFINE t == Head(w.mail)
           v == Rest(w)
           u == [v EXCEPT !.callee[i] = "running"]
<1>1. t.k = "delegate" /\ t.d = i /\ Hushed(t) = t /\ t # PumpDue /\ t.k \notin Asking
  BY EventFacts DEF Hushed, Asking, PumpDue, Work
<1>2. Minded(v) /\ Routed(v) /\ WorkOk(v) /\ Due(v) /\ BatchOk(v, batch) /\ AsksKept(v)
  BY <1>1, TakenKeeps DEF Good
<1>3. /\ Consistent(Plain(w)) /\ Plain(w).mail # << >> /\ Head(Plain(w).mail) = t
      /\ Plain(v) = Rest(Plain(w))
  BY <1>1, FirstLetter
<1>4. CoreReact(v, t) = u
  BY <1>1 DEF CoreReact
<1> HIDE DEF v
<1>5. /\ Sound(v) /\ v.callee \in [Inner -> Callees \cup {"failed"}] /\ v.mail \in Seq(ToSet(v.mail))
      /\ IsRecord(v)
  BY <1>2, NurseryFacts DEF Minded
<1>6. /\ Plain(u) = [Plain(v) EXCEPT !.callee[i] = "running"] /\ IsRecord(u) /\ DOMAIN u = DOMAIN v
      /\ u.callee = [v.callee EXCEPT ![i] = "running"] /\ \A f \in DOMAIN v \ {"callee"} : u[f] = v[f]
  <2>1. "running" \in Callees \cup {"failed"} /\ Simple("running") = "running"
    BY DEF Callees, Simple
  <2>2. u = Became(v, i, "running")
    BY DEF Became
  <2>3. /\ IsRecord(u) /\ DOMAIN u = DOMAIN v
        /\ u.callee = [v.callee EXCEPT ![i] = "running"] /\ \A f \in DOMAIN v \ {"callee"} : u[f] = v[f]
    BY <1>5 DEF IsRecord, Fields
  <2> HIDE DEF u
  <2>4. Plain(u) = Became(Plain(v), i, "running")
    BY <1>5, <2>1, <2>2, PlainCallee
  <2> QED
    BY <2>3, <2>4 DEF Became
<1>7. Consistent(Plain(u))
  BY <1>3, <1>6, InstanceStarts
<1> HIDE DEF u
<1>8. Good(u, batch)
  <2> DEFINE q == << >>
  <2>1. q \in Seq(ToSet(q)) /\ (\A e \in ToSet(q) : FALSE) /\ u.mail = v.mail \o q
    <3>1. u.mail = v.mail
      BY <1>5, <1>6 DEF Sound, IsRecord, Fields
    <3> QED
      BY <1>5, <3>1 DEF ToSet
  <2>2. \A f \in DOMAIN v \ {"callee", "mail"} : u[f] = v[f]
    BY <1>6
  <2> HIDE DEF q
  <2>3. /\ u.callee \in [Inner -> Callees \cup {"failed"}] /\ u.callee[i] = "running"
        /\ \A j \in Inner : j # i => u.callee[j] = v.callee[j]
    BY <1>5, <1>6 DEF Callees
  <2>4. \A j \in Fiber : v.callee[j] = "asking" /\ v.edge[j] = "running" => Heard(v, j)
    BY <1>2 DEF AsksKept
  <2>5. IsRecord(u) /\ DOMAIN u = DOMAIN v
    BY <1>6
  <2> QED
    BY <1>2, <1>7, <2>1, <2>2, <2>3, <2>4, <2>5, CalleeKeeps
<1> QED
  BY <1>4, <1>8 DEF v, u

\* An instance moves and writes one letter.
LEMMA CalleeSends ==
  ASSUME NEW v, NEW batch, Minded(v), Routed(v), WorkOk(v), Due(v), BatchOk(v, batch),
         NEW i \in Inner, NEW e, IsEvent(e), e.k \in Asking => e \in Speeches,
         NEW u, IsRecord(u), DOMAIN u = DOMAIN v, u.callee \in [Inner -> Callees \cup {"failed"}],
         \A j \in Inner : j # i => u.callee[j] = v.callee[j],
         u.mail = Append(v.mail, e), \A f \in DOMAIN v \ {"callee", "mail"} : u[f] = v[f],
         Consistent(Plain(u)),
         \A j \in Fiber : j # i /\ v.callee[j] = "asking" /\ v.edge[j] = "running" => Heard(v, j),
         u.callee[i] = "asking" => e = Event("escalate", i, Own)
  PROVE  Good(u, batch)
<1> DEFINE q == <<e>>
<1>1. v.mail \in Seq(ToSet(v.mail))
  BY NurseryFacts
<1>2. u.mail = v.mail \o q
  BY <1>1
<1>3. q \in Seq(ToSet(q)) /\ (\A t \in ToSet(q) : t = e) /\ Has(q, e)
  BY DEF ToSet, Has
<1> HIDE DEF q
<1>4. \A t \in ToSet(q) : IsEvent(t) /\ (t.k \in Asking => t \in Speeches)
  BY <1>3
<1>5. u.callee[i] = "asking" => Has(q, Event("escalate", i, Own))
  BY <1>3
<1> QED
  BY <1>2, <1>3, <1>4, <1>5, CalleeKeeps

LEMMA InstanceStopTurn ==
  ASSUME NEW w, NEW batch, Good(w, batch), w.mail # << >>, NEW i \in Inner,
         Head(w.mail) = Event("terminate", i, Own)
  PROVE  Good(CoreReact(Rest(w), Head(w.mail)), batch)
<1> DEFINE t == Head(w.mail)
           v == Rest(w)
           z == [v EXCEPT !.callee[i] = "done"]
           u == Send(z, "terminateAck", i, Own)
           e == Event("terminateAck", i, Own)
<1>1. t.k = "terminate" /\ t.d = i /\ Hushed(t) = t /\ t # PumpDue /\ t.k \notin Asking
  BY EventFacts DEF Hushed, Asking, PumpDue, Work
<1>2. Minded(v) /\ Routed(v) /\ WorkOk(v) /\ Due(v) /\ BatchOk(v, batch) /\ AsksKept(v)
  BY <1>1, TakenKeeps DEF Good
<1>3. /\ Consistent(Plain(w)) /\ Plain(w).mail # << >> /\ Head(Plain(w).mail) = t
      /\ Plain(v) = Rest(Plain(w))
  BY <1>1, FirstLetter
<1>4. CoreReact(v, t) = u
  BY <1>1 DEF CoreReact
<1> HIDE DEF v
<1>5. Sound(v) /\ v.callee \in [Inner -> Callees \cup {"failed"}] /\ IsRecord(v)
  BY <1>2, NurseryFacts DEF Minded
<1>6. Plain(z) = [Plain(v) EXCEPT !.callee[i] = "done"] /\ Sound(z)
  <2>1. "done" \in Callees \cup {"failed"} /\ Simple("done") = "done"
    BY DEF Callees, Simple
  <2>2. z = Became(v, i, "done")
    BY DEF Became
  <2> HIDE DEF z
  <2>3. Plain(z) = Became(Plain(v), i, "done") /\ Sound(z)
    BY <1>5, <2>1, <2>2, PlainCallee
  <2> QED
    BY <2>3 DEF Became
<1>7. /\ IsRecord(u) /\ DOMAIN u = DOMAIN v /\ u.callee = [v.callee EXCEPT ![i] = "done"]
      /\ u.mail = Append(v.mail, e) /\ \A f \in DOMAIN v \ {"callee", "mail"} : u[f] = v[f]
  BY <1>5 DEF Send, IsRecord, Fields
<1> HIDE DEF z
<1>8. Consistent(Plain(u))
  <2>1. Hushed(e) = e
    BY Spoken DEF Asking
  <2>2. Plain(u) = Send(Plain(z), "terminateAck", i, Own)
    BY <1>6, <2>1, PlainSend
  <2> QED
    BY <1>3, <1>6, <2>2, InstanceStops
<1>9. IsEvent(e) /\ e.k \notin Asking
  BY EventFacts DEF EventKind, Asking
<1> HIDE DEF e, u
<1>10. /\ u.callee \in [Inner -> Callees \cup {"failed"}] /\ u.callee[i] = "done"
       /\ \A j \in Inner : j # i => u.callee[j] = v.callee[j]
  BY <1>5, <1>7 DEF Callees
<1>11. Good(u, batch)
  BY <1>2, <1>7, <1>8, <1>9, <1>10, CalleeSends DEF AsksKept
<1> QED
  BY <1>4, <1>11 DEF v

LEMMA InstanceAnswerTurn ==
  ASSUME NEW w, NEW batch, Good(w, batch), w.mail # << >>, NEW i \in Inner,
         Head(w.mail) = Event("escalateAck", i, Own)
  PROVE  Good(CoreReact(Rest(w), Head(w.mail)), batch)
<1> DEFINE t == Head(w.mail)
           v == Rest(w)
           s == IF v.callee[i] = "asking" THEN "answered" ELSE v.callee[i]
           u == [v EXCEPT !.callee[i] = s]
<1>1. t.k = "escalateAck" /\ t.d = i /\ t.k \in Asking
  BY EventFacts DEF Asking
<1>2. /\ Minded(v) /\ Routed(v) /\ WorkOk(v) /\ Due(v) /\ BatchOk(v, batch) /\ Consistent(Plain(v))
      /\ v.callee = w.callee /\ v.edge = w.edge
  BY <1>1, TakenWord
<1>3. CoreReact(v, t) = u
  BY <1>1 DEF CoreReact
<1>4. \A j \in Fiber : j # i /\ v.callee[j] = "asking" /\ v.edge[j] = "running" => Heard(v, j)
  BY <1>1, <1>2, OthersHeard
<1> HIDE DEF v
<1>5. /\ Sound(v) /\ v.callee \in [Inner -> Callees \cup {"failed"}] /\ v.mail \in Seq(ToSet(v.mail))
      /\ IsRecord(v) /\ DOMAIN v = Fields \cup RegionFields
  BY <1>2, NurseryFacts DEF Minded
<1>6. s \in Callees \cup {"failed"} /\ Simple(s) = Simple(v.callee[i]) /\ s # "asking"
  BY <1>5 DEF Callees, Simple
<1> HIDE DEF s
<1>7. /\ IsRecord(u) /\ DOMAIN u = DOMAIN v
      /\ u.callee = [v.callee EXCEPT ![i] = s] /\ \A f \in DOMAIN v \ {"callee"} : u[f] = v[f]
  BY <1>5 DEF IsRecord, Fields
<1> HIDE DEF u
<1> DEFINE q == << >>
<1>8. q \in Seq(ToSet(q)) /\ (\A e \in ToSet(q) : FALSE) /\ u.mail = v.mail \o q
  <2>1. u.mail = v.mail
    BY <1>5, <1>7 DEF Fields
  <2> QED
    BY <1>5, <2>1 DEF ToSet
<1>9. Consistent(Plain(u))
  <2>1. /\ u.status = v.status /\ u.settled = v.settled /\ u.held = v.held /\ u.edge = v.edge
        /\ u.raised = v.raised /\ u.proxy = v.proxy
    BY <1>5, <1>7 DEF Fields
  <2>2. \A j \in Inner : Simple(u.callee[j]) = Simple(v.callee[j])
    BY <1>5, <1>6, <1>7
  <2> HIDE DEF q
  <2> QED
    BY <1>2, <1>5, <1>7, <1>8, <2>1, <2>2, QuietKeeps
<1>10. /\ \A f \in DOMAIN v \ {"callee", "mail"} : u[f] = v[f]
       /\ u.callee \in [Inner -> Callees \cup {"failed"}] /\ u.callee[i] # "asking"
       /\ \A j \in Inner : j # i => u.callee[j] = v.callee[j]
  BY <1>5, <1>6, <1>7
<1> HIDE DEF q
<1>11. Good(u, batch)
  BY <1>2, <1>4, <1>7, <1>8, <1>9, <1>10, CalleeKeeps
<1> QED
  BY <1>3, <1>11 DEF v

\* The threads of core go on, and the asks they have; they may write letters.
LEMMA ThreadKeeps ==
  ASSUME NEW v, NEW batch, Minded(v), Routed(v), WorkOk(v), Due(v), BatchOk(v, batch),
         NEW u, IsRecord(u), DOMAIN u = DOMAIN v,
         \A f \in DOMAIN v \ {"proxy", "asked", "mail"} : u[f] = v[f],
         u.asked \subseteq Call \X (Asks \cup {Own}),
         NEW q, q \in Seq(ToSet(q)), \A t \in ToSet(q) : IsEvent(t) /\ (t.k \in Asking => t \in Speeches),
         u.mail = v.mail \o q, Consistent(Plain(u)), Named(u), AsksKept(u),
         \A c \in Call : v.proxy[c] \in {"cancelling", "done"} => u.proxy[c] \in {"cancelling", "done"}
  PROVE  Good(u, batch)
<1>1. IsRecord(v) /\ DOMAIN v = Fields \cup RegionFields /\ v.callee \in [Inner -> Callees \cup {"failed"}]
  BY NurseryFacts
<1>2. u.callee = v.callee
  BY <1>1 DEF Fields
<1>3. \A f \in DOMAIN v \ {"callee", "proxy", "asked", "mail"} : u[f] = v[f]
  OBVIOUS
<1> QED
  BY <1>1, <1>2, <1>3, PeerKeeps

\* The thread of a call that has been issued may come to its end.
LEMMA NamedDone ==
  ASSUME NEW v, NEW u, Named(v), NEW c \in Call, v.proxy[c] # "idle",
         u.proxy[c] = "done", \A d \in Call : d # c => u.proxy[d] = v.proxy[d],
         u.unstarted = v.unstarted, u.edge = v.edge, u.status = v.status
  PROVE  Named(u)
<1>1. \A d \in Call : /\ u.proxy[d] # "idle" <=> v.proxy[d] # "idle"
                      /\ v.proxy[d] = "done" => u.proxy[d] = "done"
  OBVIOUS
<1> QED
  BY <1>1, RegionParts DEF Named

LEMMA ThreadReturnTurn ==
  ASSUME NEW w, NEW batch, Good(w, batch), w.mail # << >>, NEW c \in Call,
         NEW k \in {"delegateAck", "terminateAck"}, Head(w.mail) = Event(k, c, Own)
  PROVE  Good(CoreReact(Rest(w), Head(w.mail)), batch)
<1> DEFINE t == Head(w.mail)
           v == Rest(w)
           u == [v EXCEPT !.proxy[c] = "done"]
<1>1. t.k = k /\ t.d = c /\ Hushed(t) = t /\ t # PumpDue /\ t.k \notin Asking /\ t.k # "delegate"
  BY EventFacts DEF Hushed, Asking, PumpDue, Work
<1>2. /\ Minded(v) /\ Routed(v) /\ WorkOk(v) /\ Due(v) /\ BatchOk(v, batch) /\ AsksKept(v)
      /\ DOMAIN w = DOMAIN v /\ \A f \in DOMAIN w : f # "mail" => v[f] = w[f]
  BY <1>1, TakenKeeps DEF Good
<1>3. /\ Consistent(Plain(w)) /\ Plain(w).mail # << >> /\ Head(Plain(w).mail) = t
      /\ Plain(v) = Rest(Plain(w)) /\ Has(Plain(w).mail, t)
      /\ Plain(w).status = w.status /\ Plain(w).proxy = w.proxy
  BY <1>1, FirstLetter
<1>4. CoreReact(v, t) = u
  BY <1>1 DEF CoreReact
<1> HIDE DEF v
<1>5. /\ Sound(v) /\ v.proxy \in [Call -> Proxies] /\ v.mail \in Seq(ToSet(v.mail))
      /\ IsRecord(v) /\ DOMAIN v = Fields \cup RegionFields /\ Named(v)
      /\ v.asked \subseteq Call \X (Asks \cup {Own})
  BY <1>2, NurseryFacts DEF Minded, Tended
<1>6. v.proxy[c] # "idle"
  <2>1. Plain(w).status[c] = "gone"
    BY <1>3 DEF Consistent, CallOk, Acked
  <2>2. Plain(w).proxy[c] # "idle"
    BY <1>3, <2>1 DEF Consistent, CallOk
  <2> QED
    BY <1>2, <1>3, <1>5, <2>2 DEF Fields
<1>7. /\ IsRecord(u) /\ DOMAIN u = DOMAIN v /\ u.proxy = [v.proxy EXCEPT ![c] = "done"]
      /\ \A f \in DOMAIN v \ {"proxy"} : u[f] = v[f]
  BY <1>5 DEF IsRecord, Fields
<1>8. u = Thread(v, c, "done", v.asked)
  BY <1>5 DEF IsRecord, Fields, Thread
<1> HIDE DEF u
<1>9. Consistent(Plain(u))
  <2>1. Plain(u) = Thread(Plain(v), c, "done", {})
    BY <1>5, <1>8, PlainProxy DEF Proxies
  <2>2. IsRecord(Plain(v)) /\ Plain(v).asked = {}
    BY <1>5, PlainFacts
  <2>3. Thread(Plain(v), c, "done", {}) = [Plain(v) EXCEPT !.proxy[c] = "done"]
    BY <2>2 DEF IsRecord, Fields, Thread
  <2>4. Head(Plain(w).mail) \in {Event("delegateAck", c, Own), Event("terminateAck", c, Own)}
    BY <1>3
  <2>5. Consistent([Rest(Plain(w)) EXCEPT !.proxy[c] = "done"])
    BY <1>3, <2>4, ThreadReturns
  <2> QED
    BY <1>3, <2>1, <2>3, <2>5
<1>10. /\ u.proxy[c] = "done" /\ \A d \in Call : d # c => u.proxy[d] = v.proxy[d]
       /\ u.unstarted = v.unstarted /\ u.edge = v.edge /\ u.status = v.status /\ u.callee = v.callee
       /\ u.mailbox = v.mailbox /\ u.emitted = v.emitted /\ u.relays = v.relays /\ u.asked = v.asked
       /\ u.mail = v.mail
  BY <1>5, <1>7 DEF Fields, RegionFields
<1>11. Named(u)
  BY <1>5, <1>6, <1>10, NamedDone
<1>12. AsksKept(u)
  <2>1. \A j \in Fiber, x \in Watch : Raised(v, j, x) => Raised(u, j, x)
    BY <1>10, RegionParts DEF Raised
  <2> QED
    BY <1>2, <1>10, <2>1 DEF AsksKept, Heard
<1>13. Good(u, batch)
  <2> DEFINE q == << >>
  <2>1. q \in Seq(ToSet(q)) /\ (\A e \in ToSet(q) : FALSE) /\ u.mail = v.mail \o q
    BY <1>5, <1>10 DEF ToSet
  <2>2. \A f \in DOMAIN v \ {"proxy", "asked", "mail"} : u[f] = v[f]
    BY <1>7
  <2>3. \A d \in Call : v.proxy[d] \in {"cancelling", "done"} => u.proxy[d] \in {"cancelling", "done"}
    BY <1>10
  <2> HIDE DEF q
  <2> QED
    BY <1>2, <1>5, <1>7, <1>9, <1>10, <1>11, <1>12, <2>1, <2>2, <2>3, ThreadKeeps
<1> QED
  BY <1>4, <1>13 DEF v

\* A thread hears of an ask: it is raised at a handler, unless it was given up.
LEMMA ThreadAskTurn ==
  ASSUME NEW w, NEW batch, Good(w, batch), w.mail # << >>, NEW c \in Call, NEW x,
         Head(w.mail) = Event("escalate", c, x)
  PROVE  Good(CoreReact(Rest(w), Head(w.mail)), batch)
<1> DEFINE t == Head(w.mail)
           v == Rest(w)
           A == IF v.proxy[c] = "calling" THEN v.asked \cup {<<c, x>>} ELSE v.asked
           u == [v EXCEPT !.asked = A]
<1>1. t.k = "escalate" /\ t.d = c /\ t.x = x /\ t.k \in Asking
  BY EventFacts DEF Asking
<1>2. /\ Minded(v) /\ Routed(v) /\ WorkOk(v) /\ Due(v) /\ BatchOk(v, batch) /\ Consistent(Plain(v))
      /\ v.callee = w.callee /\ v.edge = w.edge /\ t \in Speeches
  BY <1>1, TakenWord
<1>3. CoreReact(v, t) = u
  BY <1>1 DEF CoreReact
<1>4. x \in Asks \cup {Own}
  <2>1. CASE \E k \in Asking, d \in Call, y \in Asks \cup {Own} : t = Event(k, d, y)
    BY <1>1, <2>1, EventFacts
  <2>2. CASE \E k \in Asking, i \in Inner : t = Event(k, i, Own)
    BY <1>1, <2>2, EventFacts
  <2>3. CASE \E i \in Fiber : t = Failure(i)
    BY <1>1, <2>3 DEF Failure, Event
  <2> QED
    BY <1>2, <2>1, <2>2, <2>3 DEF Speeches
<1>5. /\ Sound(v) /\ v.proxy \in [Call -> Proxies] /\ v.mail \in Seq(ToSet(v.mail))
      /\ IsRecord(v) /\ DOMAIN v = Fields \cup RegionFields /\ Named(v)
      /\ v.asked \subseteq Call \X (Asks \cup {Own})
  BY <1>2, NurseryFacts DEF Minded, Tended
<1>6. A \subseteq Call \X (Asks \cup {Own}) /\ v.asked \subseteq A /\ (v.proxy[c] = "calling" => <<c, x>> \in A)
  BY <1>4, <1>5
<1>7. \A j \in Fiber : v.callee[j] = "asking" /\ v.edge[j] = "running" =>
        \/ Heard(v, j)
        \/ /\ x = j /\ c \in Watch /\ Has(v.emitted, j) /\ <<c, x>> \in v.relays
           /\ Live(v, c) /\ v.proxy[c] \notin {"cancelling", "done"}
  <2> SUFFICES ASSUME NEW j \in Fiber, v.callee[j] = "asking", v.edge[j] = "running", ~Heard(v, j)
               PROVE  /\ x = j /\ c \in Watch /\ Has(v.emitted, j) /\ <<c, x>> \in v.relays
                      /\ Live(v, c) /\ v.proxy[c] \notin {"cancelling", "done"}
    OBVIOUS
  <2>1. \A k : t # Event(k, j, Own)
    BY <1>1, EventFacts, OwnFacts DEF Fiber
  <2>2. w.callee[j] = "asking" /\ w.edge[j] = "running"
    BY <1>2
  <2>3. /\ Has(v.emitted, j)
        /\ \E k \in Asking, y \in Watch :
             /\ t = Event(k, y, j) /\ <<y, j>> \in v.relays /\ Live(v, y)
             /\ v.proxy[y] \notin {"cancelling", "done"}
    BY <2>1, <2>2, HeardTaken
  <2> QED
    BY <1>1, <2>3, EventFacts
<1> HIDE DEF v, A
<1>8. /\ IsRecord(u) /\ DOMAIN u = DOMAIN v /\ u.asked = A
      /\ \A f \in DOMAIN v \ {"asked"} : u[f] = v[f]
  BY <1>5 DEF IsRecord, Fields
<1> HIDE DEF u
<1>9. /\ u.proxy = v.proxy /\ u.settled = v.settled /\ u.held = v.held /\ u.raised = v.raised
      /\ u.unstarted = v.unstarted /\ u.edge = v.edge /\ u.status = v.status /\ u.callee = v.callee
      /\ u.mailbox = v.mailbox /\ u.emitted = v.emitted /\ u.relays = v.relays /\ u.mail = v.mail
  BY <1>5, <1>8 DEF Fields, RegionFields
<1> DEFINE q == << >>
<1>10. q \in Seq(ToSet(q)) /\ (\A e \in ToSet(q) : FALSE) /\ u.mail = v.mail \o q
  BY <1>5, <1>9 DEF ToSet
<1> HIDE DEF q
<1>11. Consistent(Plain(u))
  BY <1>2, <1>5, <1>8, <1>9, <1>10, QuietKeeps
<1>12. Named(u)
  BY <1>5, <1>9 DEF Named
<1>13. Live(v, c) /\ v.proxy[c] \notin {"cancelling", "done"} => v.proxy[c] = "calling"
  <2>1. Plain(v).proxy = v.proxy /\ Plain(v).status = v.status
    BY <1>5, PlainFacts
  <2>2. v.proxy[c] = "idle" => v.status[c] = "none"
    BY <1>2, <2>1 DEF Consistent, CallOk
  <2> QED
    BY <1>5, <2>2 DEF Live, Proxies
<1>14. AsksKept(u)
  <2> SUFFICES ASSUME NEW j \in Fiber, u.callee[j] = "asking", u.edge[j] = "running" PROVE Heard(u, j)
    BY DEF AsksKept
  <2>1. CASE Heard(v, j)
    <3>1. \A y \in Watch : Raised(v, j, y) => Raised(u, j, y)
      BY <1>6, <1>8, <1>9 DEF Raised
    <3> QED
      BY <1>9, <2>1, <3>1 DEF Heard
  <2>2. CASE ~Heard(v, j)
    <3>1. /\ x = j /\ c \in Watch /\ Has(v.emitted, j) /\ <<c, x>> \in v.relays
          /\ Live(v, c) /\ v.proxy[c] \notin {"cancelling", "done"}
      BY <1>7, <1>9, <2>2
    <3>2. <<c, j>> \in u.asked
      BY <1>6, <1>8, <1>13, <3>1
    <3> QED
      BY <1>9, <3>1, <3>2 DEF Heard, Raised
  <2> QED
    BY <2>1, <2>2
<1>15. Good(u, batch)
  <2>1. \A f \in DOMAIN v \ {"proxy", "asked", "mail"} : u[f] = v[f]
    BY <1>8
  <2> QED
    BY <1>2, <1>6, <1>8, <1>9, <1>10, <1>11, <1>12, <1>14, <2>1, ThreadKeeps
<1> QED
  BY <1>3, <1>15 DEF v, A

-----------------------------------------------------------------------------
(* A letter, whoever it is for.                                            *)

\* What the reactor makes of a letter of its own.
Reaction(w, t) == IF t.k = "escalate" THEN RegionOnEscalate(w, t.d, t.o) ELSE ReactorReact(w, t)

\* The turn of a letter, and the batch it leaves.
Handled(w, batch, t) ==
  IF ToReactor(t) THEN Good(OnDropCall(w, Reaction(w, t)), Append(batch, t))
                  ELSE Good(CoreReact(w, t), batch)

LEMMA CallLetterTurn ==
  ASSUME NEW w, NEW batch, Good(w, batch), w.mail # << >>, NEW c \in Call, NEW k \in EventKind, NEW x,
         Head(w.mail) = Event(k, c, x), k \notin Asking => x = Own
  PROVE  Handled(Rest(w), batch, Head(w.mail))
<1> DEFINE t == Head(w.mail)
           v == Rest(w)
<1>1. t.k = k /\ t.d = c /\ t.x = x
  BY EventFacts
<1>2. ToReactor(t) <=> k \in {"delegate", "terminate", "escalateAck"}
  BY <1>1 DEF ToReactor
<1>3. CASE k = "delegate"
  <2>1. Good(OnDropCall(v, OnDelegate(v, c)), Append(batch, t))
    BY <1>3, DelegateTurn DEF Asking
  <2> QED
    BY <1>1, <1>2, <1>3, <2>1 DEF Handled, Reaction, ReactorReact
<1>4. CASE k = "terminate"
  <2>1. Good(OnDropCall(v, OnTerminate(v, c)), Append(batch, t))
    BY <1>4, TerminateTurn DEF Asking
  <2> QED
    BY <1>1, <1>2, <1>4, <2>1 DEF Handled, Reaction, ReactorReact
<1>5. CASE k = "escalateAck"
  <2>1. Good(OnDropCall(v, OnEscalateAck(v, c, x)), Append(batch, t))
    BY <1>5, AnswerTurn
  <2> QED
    BY <1>1, <1>2, <1>5, <2>1 DEF Handled, Reaction, ReactorReact
<1>6. CASE k \in {"delegateAck", "terminateAck"}
  <2>1. Good(CoreReact(v, t), batch)
    BY <1>6, ThreadReturnTurn DEF Asking
  <2> QED
    BY <1>2, <1>6, <2>1 DEF Handled
<1>7. CASE k = "escalate"
  <2>1. Good(CoreReact(v, t), batch)
    BY <1>7, ThreadAskTurn
  <2> QED
    BY <1>2, <1>7, <2>1 DEF Handled
<1> QED
  BY <1>3, <1>4, <1>5, <1>6, <1>7 DEF EventKind

LEMMA InnerLetterTurn ==
  ASSUME NEW w, NEW batch, Good(w, batch), w.mail # << >>, NEW i \in Inner, NEW k \in EventKind,
         Head(w.mail) = Event(k, i, Own)
  PROVE  Handled(Rest(w), batch, Head(w.mail))
<1> DEFINE t == Head(w.mail)
           v == Rest(w)
<1>1. t.k = k /\ t.d = i
  BY EventFacts
<1>2. ToReactor(t) <=> k \in {"delegateAck", "terminateAck", "escalate"}
  BY <1>1, OwnFacts DEF ToReactor, EventKind
<1>3. CASE k = "delegate"
  <2>1. Good(CoreReact(v, t), batch)
    BY <1>3, InstanceStartTurn
  <2> QED
    BY <1>2, <1>3, <2>1 DEF Handled
<1>4. CASE k = "terminate"
  <2>1. Good(CoreReact(v, t), batch)
    BY <1>4, InstanceStopTurn
  <2> QED
    BY <1>2, <1>4, <2>1 DEF Handled
<1>5. CASE k = "escalateAck"
  <2>1. Good(CoreReact(v, t), batch)
    BY <1>5, InstanceAnswerTurn
  <2> QED
    BY <1>2, <1>5, <2>1 DEF Handled
<1>6. CASE k = "delegateAck"
  <2>1. Good(OnDropCall(v, OnChildAck(v, i, "result")), Append(batch, t))
    BY <1>6, ChildAckTurn DEF Outcomes
  <2> QED
    BY <1>1, <1>2, <1>6, <2>1 DEF Handled, Reaction, ReactorReact
<1>7. CASE k = "terminateAck"
  <2>1. Good(OnDropCall(v, OnChildAck(v, i, "cancelled")), Append(batch, t))
    BY <1>7, ChildAckTurn DEF Outcomes
  <2> QED
    BY <1>1, <1>2, <1>7, <2>1 DEF Handled, Reaction, ReactorReact
<1>8. CASE k = "escalate"
  <2>1. Good(OnDropCall(v, RegionOnEscalate(v, i, t.o)), Append(batch, t))
    BY <1>1, <1>8, EscalateTurn
  <2> QED
    BY <1>1, <1>2, <1>8, <2>1 DEF Handled, Reaction
<1> QED
  BY <1>3, <1>4, <1>5, <1>6, <1>7, <1>8 DEF EventKind

LEMMA LetterTurn ==
  ASSUME NEW w, NEW batch, Good(w, batch), w.mail # << >>, IsEvent(Head(w.mail))
  PROVE  Handled(Rest(w), batch, Head(w.mail))
<1> DEFINE t == Head(w.mail)
           v == Rest(w)
<1>1. t \in ToSet(w.mail)
  BY TakenKeeps DEF Good
<1>2. CASE t.k \notin Asking
  <2>1. t \in Letters /\ t = Event(t.k, t.d, Own) /\ t.d \in Call \cup Inner /\ t.k \in EventKind
    BY <1>1, <1>2, LetterOf DEF Good
  <2>2. CASE t.d \in Call
    BY <2>1, <2>2, CallLetterTurn
  <2>3. CASE t.d \in Inner
    BY <2>1, <2>3, InnerLetterTurn
  <2> QED
    BY <2>1, <2>2, <2>3
<1>3. CASE t.k \in Asking
  <2>1. t \in Speeches /\ Asking \subseteq EventKind
    BY <1>1, <1>3, LetterOf DEF Good, Asking, EventKind
  <2>2. CASE \E k \in Asking, c \in Call, x \in Asks \cup {Own} : t = Event(k, c, x)
    <3>1. PICK k \in Asking, c \in Call, x \in Asks \cup {Own} : t = Event(k, c, x)
      BY <2>2
    <3> QED
      BY <2>1, <3>1, CallLetterTurn
  <2>3. CASE \E k \in Asking, i \in Inner : t = Event(k, i, Own)
    <3>1. PICK k \in Asking, i \in Inner : t = Event(k, i, Own)
      BY <2>3
    <3> QED
      BY <2>1, <3>1, InnerLetterTurn
  <2>4. CASE \E i \in Fiber : t = Failure(i)
    <3>1. PICK i \in Fiber : t = Failure(i)
      BY <2>4
    <3>2. t.k = "escalate" /\ t.d = i /\ i \in Inner
      BY <3>1 DEF Failure, Event, Fiber
    <3>3. ToReactor(t)
      BY <3>2, OwnFacts DEF ToReactor
    <3>4. Good(OnDropCall(v, RegionOnEscalate(v, i, t.o)), Append(batch, t))
      BY <3>2, EscalateTurn
    <3> QED
      BY <3>2, <3>3, <3>4 DEF Handled, Reaction
  <2> QED
    BY <2>1, <2>2, <2>3, <2>4 DEF Speeches
<1> QED
  BY <1>2, <1>3

-----------------------------------------------------------------------------
(* What the actors of core do of their own accord.                         *)

\* A letter is put in the mail of a state of the same nursery.
LEMMA OneMore ==
  ASSUME NEW v, Minded(v), NEW e
  PROVE  /\ Append(v.mail, e) = v.mail \o <<e>> /\ <<e>> \in Seq(ToSet(<<e>>)) /\ ToSet(<<e>>) = {e}
         /\ \A t : Has(Append(v.mail, e), t) <=> Has(v.mail, t) \/ t = e
<1>1. v.mail \in Seq(ToSet(v.mail))
  BY NurseryFacts
<1>2. Append(v.mail, e) = v.mail \o <<e>> /\ <<e>> \in Seq(ToSet(<<e>>)) /\ ToSet(<<e>>) = {e}
  BY <1>1 DEF ToSet
<1>3. \A t : Has(Append(v.mail, e), t) <=> Has(v.mail, t) \/ t = e
  <2> DEFINE S == ToSet(v.mail) \cup {e}
             m == v.mail
  <2>1. m \in Seq(S) /\ e \in S
    BY <1>1, SeqWiden
  <2> HIDE DEF S, m
  <2>2. \A t : Has(Append(m, e), t) <=> Has(m, t) \/ t = e
    BY <2>1, OrderAppend
  <2> QED
    BY <2>2 DEF m
<1> QED
  BY <1>2, <1>3

\* The asks a thread has are not of the plain state.
LEMMA PlainAsked ==
  ASSUME NEW w, Sound(w), NEW u, IsRecord(u), DOMAIN u = DOMAIN w,
         \A f \in DOMAIN w \ {"asked"} : u[f] = w[f]
  PROVE  Plain(u) = Plain(w) /\ Sound(u)
<1>1. IsRecord(w) /\ IsWarm(Plain(w)) /\ w.mail \in Seq(ToSet(w.mail))
  BY DEF Sound
<1>2. /\ IsRecord(Plain(w)) /\ DOMAIN Plain(w) = DOMAIN w
      /\ Plain(w).relays = {} /\ Plain(w).asked = {}
      /\ Plain(w).callee = [j \in Inner |-> Simple(w.callee[j])]
      /\ Plain(w).mail = [n \in DOMAIN w.mail |-> Hushed(w.mail[n])]
      /\ \A f \in DOMAIN w \ {"relays", "asked", "callee", "mail"} : Plain(w)[f] = w[f]
  BY <1>1, PlainFacts
<1>3. u.callee = w.callee /\ u.mail = w.mail
  BY <1>1 DEF IsRecord, Fields
<1>4. Plain(w) = Plain(u)
  <2>1. \A f \in DOMAIN u \ {"relays", "asked", "callee", "mail"} : Plain(w)[f] = u[f]
    BY <1>2
  <2> QED
    BY <1>2, <1>3, <2>1, PlainIs
<1> QED
  BY <1>1, <1>3, <1>4 DEF Sound

LEMMA CalleeReturnsKeeps ==
  ASSUME NEW w, NEW batch, Good(w, batch), NEW i \in Inner, w.callee[i] \in {"running", "answered"}
  PROVE  Good(Send([w EXCEPT !.callee[i] = "done"], "delegateAck", i, Own), batch)
<1> DEFINE z == [w EXCEPT !.callee[i] = "done"]
           e == Event("delegateAck", i, Own)
           u == Send(z, "delegateAck", i, Own)
<1>1. /\ Minded(w) /\ Routed(w) /\ WorkOk(w) /\ Due(w) /\ BatchOk(w, batch) /\ AsksKept(w)
      /\ Consistent(Plain(w)) /\ Sound(w)
  BY GoodPoised DEF Good
<1>2. w.callee \in [Inner -> Callees \cup {"failed"}] /\ IsRecord(w)
  BY <1>1, NurseryFacts
<1>3. /\ IsRecord(u) /\ DOMAIN u = DOMAIN w /\ u.callee = [w.callee EXCEPT ![i] = "done"]
      /\ u.mail = Append(w.mail, e) /\ \A f \in DOMAIN w \ {"callee", "mail"} : u[f] = w[f]
  BY <1>2 DEF Send, IsRecord, Fields
<1>4. Plain(z) = [Plain(w) EXCEPT !.callee[i] = "done"] /\ Sound(z)
  <2>1. "done" \in Callees \cup {"failed"} /\ Simple("done") = "done" /\ z = Became(w, i, "done")
    BY DEF Callees, Simple, Became
  <2> HIDE DEF z
  <2>2. Plain(z) = Became(Plain(w), i, "done") /\ Sound(z)
    BY <1>1, <1>2, <2>1, PlainCallee
  <2> QED
    BY <2>2 DEF Became
<1> HIDE DEF z
<1>5. Consistent(Plain(u))
  <2>1. Hushed(e) = e
    BY Spoken DEF Asking
  <2>2. Plain(u) = Send(Plain(z), "delegateAck", i, Own)
    <3>1. Sound(z)
      BY <1>4
    <3> QED
      BY <2>1, <3>1, PlainSend
  <2>3. Plain(w).callee = [j \in Inner |-> Simple(w.callee[j])]
    BY <1>2, PlainFacts
  <2>4. Plain(w).callee[i] \in {"running", "answered"}
    BY <2>3 DEF Simple
  <2> QED
    BY <1>1, <1>4, <2>2, <2>4, InstanceReturns
<1>6. IsEvent(e) /\ e.k \notin Asking
  BY EventFacts DEF EventKind, Asking
<1> HIDE DEF e, u
<1>7. /\ u.callee \in [Inner -> Callees \cup {"failed"}] /\ u.callee[i] # "asking"
      /\ \A j \in Inner : j # i => u.callee[j] = w.callee[j]
  BY <1>2, <1>3 DEF Callees
<1>8. \A j \in Fiber : w.callee[j] = "asking" /\ w.edge[j] = "running" => Heard(w, j)
  BY <1>1 DEF AsksKept
<1>9. Good(u, batch)
  BY <1>1, <1>3, <1>5, <1>6, <1>7, <1>8, CalleeSends
<1> QED
  BY <1>9 DEF u, z

\* A word of an instance, of which no call hears.
LEMMA CalleeSays ==
  ASSUME NEW w, NEW batch, Good(w, batch), NEW i \in Inner, w.callee[i] \in {"running", "answered"},
         NEW e, e \in Speeches, ~IsEvent(Hushed(e)),
         NEW u, IsRecord(u), DOMAIN u = DOMAIN w, u.callee \in [Inner -> Callees \cup {"failed"}],
         \A j \in Inner : j # i => u.callee[j] = w.callee[j],
         u.mail = Append(w.mail, e), \A f \in DOMAIN w \ {"callee", "mail"} : u[f] = w[f],
         u.callee[i] = "failed" \/ (u.callee[i] = "asking" /\ e = Event("escalate", i, Own))
  PROVE  Good(u, batch)
<1>1. /\ Minded(w) /\ Routed(w) /\ WorkOk(w) /\ Due(w) /\ BatchOk(w, batch) /\ AsksKept(w)
      /\ Consistent(Plain(w)) /\ Sound(w)
  BY GoodPoised DEF Good
<1>2. /\ w.callee \in [Inner -> Callees \cup {"failed"}] /\ IsRecord(w)
      /\ DOMAIN w = Fields \cup RegionFields
  BY <1>1, NurseryFacts
<1>3. Consistent(Plain(u))
  <2> DEFINE q == <<e>>
  <2>1. q \in Seq(ToSet(q)) /\ (\A t \in ToSet(q) : t = e) /\ u.mail = w.mail \o q
    BY <1>1, OneMore
  <2> HIDE DEF q
  <2>2. /\ u.status = w.status /\ u.settled = w.settled /\ u.held = w.held /\ u.edge = w.edge
        /\ u.raised = w.raised /\ u.proxy = w.proxy
    BY <1>2 DEF Fields
  <2>3. \A j \in Inner : Simple(u.callee[j]) = Simple(w.callee[j])
    BY <1>2 DEF Simple
  <2>4. \A t \in ToSet(q) : ~IsEvent(Hushed(t))
    BY <2>1
  <2> QED
    BY <1>1, <2>1, <2>2, <2>3, <2>4, QuietKeeps
<1>4. IsEvent(e)
  BY SpeechFacts
<1>5. \A j \in Fiber : w.callee[j] = "asking" /\ w.edge[j] = "running" => Heard(w, j)
  BY <1>1 DEF AsksKept
<1> QED
  BY <1>1, <1>3, <1>4, <1>5, CalleeSends

LEMMA CalleeAsksKeeps ==
  ASSUME NEW w, NEW batch, Good(w, batch), NEW i \in Inner, w.callee[i] = "running"
  PROVE  Good(Send([w EXCEPT !.callee[i] = "asking"], "escalate", i, Own), batch)
<1> DEFINE e == Event("escalate", i, Own)
           u == Send([w EXCEPT !.callee[i] = "asking"], "escalate", i, Own)
<1>1. IsRecord(w) /\ w.callee \in [Inner -> Callees \cup {"failed"}]
  BY GoodPoised, NurseryFacts
<1>2. /\ IsRecord(u) /\ DOMAIN u = DOMAIN w /\ u.callee = [w.callee EXCEPT ![i] = "asking"]
      /\ u.mail = Append(w.mail, e) /\ \A f \in DOMAIN w \ {"callee", "mail"} : u[f] = w[f]
  BY <1>1 DEF Send, IsRecord, Fields
<1>3. e \in Speeches /\ ~IsEvent(Hushed(e))
  BY SpeechFacts DEF Asking
<1> HIDE DEF u
<1>4. /\ u.callee \in [Inner -> Callees \cup {"failed"}] /\ u.callee[i] = "asking"
      /\ \A j \in Inner : j # i => u.callee[j] = w.callee[j]
  BY <1>1, <1>2 DEF Callees
<1>5. Good(u, batch)
  BY <1>2, <1>3, <1>4, CalleeSays
<1> QED
  BY <1>5 DEF u

LEMMA FiberFailsKeeps ==
  ASSUME NEW w, NEW batch, Good(w, batch), NEW i \in Fiber, w.callee[i] \in {"running", "answered"}
  PROVE  Good([w EXCEPT !.callee[i] = "failed", !.mail = Append(@, Failure(i))], batch)
<1> DEFINE u == [w EXCEPT !.callee[i] = "failed", !.mail = Append(@, Failure(i))]
           e == Failure(i)
<1>1. IsRecord(w) /\ w.callee \in [Inner -> Callees \cup {"failed"}]
  BY GoodPoised, NurseryFacts
<1>2. e \in Speeches /\ ~IsEvent(Hushed(e)) /\ i \in Inner
  BY SpeechFacts DEF Fiber
<1>3. /\ IsRecord(u) /\ DOMAIN u = DOMAIN w /\ u.callee = [w.callee EXCEPT ![i] = "failed"]
      /\ u.mail = Append(w.mail, e) /\ \A f \in DOMAIN w \ {"callee", "mail"} : u[f] = w[f]
  BY <1>1 DEF IsRecord, Fields
<1> HIDE DEF u, e
<1>4. /\ u.callee \in [Inner -> Callees \cup {"failed"}] /\ u.callee[i] = "failed"
      /\ \A j \in Inner : j # i => u.callee[j] = w.callee[j]
  BY <1>1, <1>2, <1>3
<1>5. Good(u, batch)
  BY <1>2, <1>3, <1>4, CalleeSays
<1> QED
  BY <1>5 DEF u

\* A handler answers an ask its thread has.
LEMMA ThreadAnswersKeeps ==
  ASSUME NEW w, NEW batch, Good(w, batch), NEW c, NEW x, <<c, x>> \in w.asked
  PROVE  Good(Send([w EXCEPT !.asked = @ \ {<<c, x>>}], "escalateAck", c, x), batch)
<1> DEFINE z == [w EXCEPT !.asked = @ \ {<<c, x>>}]
           e == Event("escalateAck", c, x)
           u == Send(z, "escalateAck", c, x)
           q == <<e>>
<1>1. /\ Minded(w) /\ Routed(w) /\ WorkOk(w) /\ Due(w) /\ BatchOk(w, batch) /\ AsksKept(w)
      /\ Consistent(Plain(w)) /\ Sound(w) /\ Tended(w)
  BY GoodPoised DEF Good
<1>2. /\ IsRecord(w) /\ DOMAIN w = Fields \cup RegionFields /\ w.mail \in Seq(ToSet(w.mail))
      /\ w.asked \subseteq Call \X (Asks \cup {Own})
  BY <1>1, NurseryFacts
<1>3. c \in Call /\ x \in Asks \cup {Own}
  BY <1>2
<1>4. /\ IsRecord(u) /\ DOMAIN u = DOMAIN w /\ u.asked = w.asked \ {<<c, x>>}
      /\ u.mail = Append(w.mail, e) /\ \A f \in DOMAIN w \ {"asked", "mail"} : u[f] = w[f]
  BY <1>2 DEF Send, IsRecord, Fields
<1>5. /\ IsRecord(z) /\ DOMAIN z = DOMAIN w /\ \A f \in DOMAIN w \ {"asked"} : z[f] = w[f]
  BY <1>2 DEF IsRecord, Fields
<1> HIDE DEF z
<1>6. Plain(z) = Plain(w) /\ Sound(z)
  BY <1>1, <1>5, PlainAsked
<1>7. x = Own => Plain(u) = Send(Plain(w), "escalateAck", c, Own)
  <2> SUFFICES ASSUME x = Own PROVE Plain(u) = Send(Plain(w), "escalateAck", c, Own)
    OBVIOUS
  <2>1. Hushed(Event("escalateAck", c, Own)) = Event("escalateAck", c, Own)
    <3>1. c \in Call
      BY <1>3
    <3> QED
      BY <3>1, CallAssumption DEF Hushed, Event
  <2>2. Sound(z)
    BY <1>6
  <2>3. Plain(Send(z, "escalateAck", c, Own)) = Send(Plain(z), "escalateAck", c, Own)
    BY <2>1, <2>2, PlainSend
  <2> QED
    BY <1>6, <2>3
<1>8. u.mail = w.mail \o q /\ q \in Seq(ToSet(q)) /\ \A t \in ToSet(q) : t = e
  <2>1. q \in Seq(ToSet(q)) /\ ToSet(q) = {e} /\ u.mail = w.mail \o q
    BY <1>2, <1>4 DEF ToSet
  <2> QED
    BY <2>1
<1>9. \A t : Has(u.mail, t) <=> Has(w.mail, t) \/ t = e
  <2>1. Minded(w) /\ u.mail = Append(w.mail, e)
    BY <1>1, <1>4
  <2> HIDE DEF u, e
  <2>2. \A t : Has(Append(w.mail, e), t) <=> Has(w.mail, t) \/ t = e
    BY <2>1, OneMore
  <2> QED
    BY <2>1, <2>2
<1>10. e \in Speeches /\ IsEvent(e) /\ (x # Own => ~IsEvent(Hushed(e)))
  BY <1>3, SpeechFacts DEF Asking
<1> HIDE DEF u, q
<1>11. /\ u.status = w.status /\ u.settled = w.settled /\ u.held = w.held /\ u.edge = w.edge
       /\ u.raised = w.raised /\ u.proxy = w.proxy /\ u.callee = w.callee /\ u.unstarted = w.unstarted
       /\ u.mailbox = w.mailbox /\ u.emitted = w.emitted /\ u.relays = w.relays
  BY <1>2, <1>4 DEF Fields, RegionFields
<1>12. Consistent(Plain(u))
  <2>1. CASE x = Own
    <3>1. Event("escalateAck", c, Own) \in Letters
      BY <1>3, SomeLetters DEF EventKind
    <3>2. Consistent(Send(Plain(w), "escalateAck", c, Own))
      BY <1>1, <3>1, SendKeeps
    <3> QED
      BY <1>7, <2>1, <3>2
  <2>2. CASE x # Own
    <3>1. \A t \in ToSet(q) : ~IsEvent(Hushed(t))
      BY <1>8, <1>10, <2>2
    <3> QED
      BY <1>1, <1>4, <1>8, <1>11, <3>1, QuietKeeps
  <2> QED
    BY <2>1, <2>2
<1>13. Named(u)
  BY <1>1, <1>11 DEF Tended, Named
<1>14. AsksKept(u)
  <2> SUFFICES ASSUME NEW j \in Fiber, u.callee[j] = "asking", u.edge[j] = "running" PROVE Heard(u, j)
    BY DEF AsksKept
  <2>1. Heard(w, j)
    BY <1>1, <1>11 DEF AsksKept
  <2>2. \A y \in Watch : Raised(w, j, y) => Raised(u, j, y)
    <3> SUFFICES ASSUME NEW y \in Watch, Raised(w, j, y), <<y, j>> \in w.asked PROVE Raised(u, j, y)
      BY <1>9, <1>11 DEF Raised
    <3>1. CASE y = c /\ j = x
      BY <1>9, <1>11, <3>1 DEF Raised, Asking
    <3>2. CASE ~(y = c /\ j = x)
      BY <1>4, <1>9, <1>11, <3>2 DEF Raised
    <3> QED
      BY <3>1, <3>2
  <2> QED
    BY <1>9, <1>11, <2>1, <2>2 DEF Heard
<1>15. Good(u, batch)
  <2>1. /\ \A f \in DOMAIN w \ {"proxy", "asked", "mail"} : u[f] = w[f]
        /\ u.asked \subseteq Call \X (Asks \cup {Own})
        /\ \A t \in ToSet(q) : IsEvent(t) /\ (t.k \in Asking => t \in Speeches)
    BY <1>2, <1>4, <1>8, <1>10
  <2> QED
    BY <1>1, <1>4, <1>8, <1>11, <1>12, <1>13, <1>14, <2>1, ThreadKeeps
<1> QED
  BY <1>15 DEF u, z

\* A thread moves and writes one letter.
LEMMA ThreadSends ==
  ASSUME NEW w, NEW batch, Good(w, batch), NEW c \in Call, NEW s \in Proxies, NEW A, A \subseteq w.asked,
         NEW k \in EventKind \ Asking, NEW u, u = Send(Thread(w, c, s, A), k, c, Own),
         Consistent(Send(Thread(Plain(w), c, s, {}), k, c, Own)),
         w.proxy[c] \in {"cancelling", "done"} => s \in {"cancelling", "done"},
         \A r \in w.asked : r \in A \/ (r[1] = c /\ s \in {"cancelling", "done"}),
         Named(u)
  PROVE  Good(u, batch)
<1> DEFINE z == Thread(w, c, s, A)
           e == Event(k, c, Own)
           q == <<e>>
<1>1. /\ Minded(w) /\ Routed(w) /\ WorkOk(w) /\ Due(w) /\ BatchOk(w, batch) /\ AsksKept(w)
      /\ Consistent(Plain(w)) /\ Sound(w)
  BY GoodPoised DEF Good
<1>2. /\ IsRecord(w) /\ DOMAIN w = Fields \cup RegionFields /\ w.mail \in Seq(ToSet(w.mail))
      /\ w.asked \subseteq Call \X (Asks \cup {Own}) /\ w.proxy \in [Call -> Proxies]
  BY <1>1, NurseryFacts
<1>3. /\ IsRecord(u) /\ DOMAIN u = DOMAIN w /\ u.asked = A /\ u.proxy = [w.proxy EXCEPT ![c] = s]
      /\ u.mail = Append(w.mail, e) /\ \A f \in DOMAIN w \ {"proxy", "asked", "mail"} : u[f] = w[f]
  BY <1>2 DEF Send, Thread, IsRecord, Fields
<1>4. Plain(u) = Send(Thread(Plain(w), c, s, {}), k, c, Own)
  <2>1. Plain(z) = Thread(Plain(w), c, s, {}) /\ Sound(z)
    BY <1>1, PlainProxy
  <2>2. Hushed(e) = e
    BY Spoken
  <2> HIDE DEF z
  <2>3. Plain(Send(z, k, c, Own)) = Send(Plain(z), k, c, Own)
    <3>1. Sound(z)
      BY <2>1
    <3> QED
      BY <2>2, <3>1, PlainSend
  <2> QED
    BY <2>1, <2>3 DEF z
<1>5. /\ u.mail = w.mail \o q /\ q \in Seq(ToSet(q)) /\ (\A t \in ToSet(q) : t = e)
      /\ \A t : Has(u.mail, t) <=> Has(w.mail, t) \/ t = e
  <2> HIDE DEF e
  <2> QED
    BY <1>1, <1>3, OneMore
<1>6. IsEvent(e) /\ e.k \notin Asking
  BY EventFacts
<1> HIDE DEF q, e
<1>7. /\ u.edge = w.edge /\ u.callee = w.callee /\ u.mailbox = w.mailbox /\ u.emitted = w.emitted
      /\ u.relays = w.relays
  BY <1>2, <1>3 DEF Fields, RegionFields
<1>8. \A d \in Call : w.proxy[d] \in {"cancelling", "done"} => u.proxy[d] \in {"cancelling", "done"}
  BY <1>2, <1>3
<1>9. AsksKept(u)
  <2> SUFFICES ASSUME NEW j \in Fiber, u.callee[j] = "asking", u.edge[j] = "running" PROVE Heard(u, j)
    BY DEF AsksKept
  <2>1. Heard(w, j)
    BY <1>1, <1>7 DEF AsksKept
  <2>2. \A y \in Watch : Raised(w, j, y) => Raised(u, j, y)
    <3> SUFFICES ASSUME NEW y \in Watch, Raised(w, j, y) PROVE Raised(u, j, y)
      OBVIOUS
    <3>1. y \in Call
      BY RegionParts
    <3>2. CASE y = c /\ s \in {"cancelling", "done"}
      BY <1>2, <1>3, <1>7, <3>2 DEF Raised
    <3>3. CASE ~(y = c /\ s \in {"cancelling", "done"})
      <4>1. <<y, j>> \in w.asked => <<y, j>> \in A
        BY <3>3
      <4> QED
        BY <1>3, <1>5, <1>7, <1>8, <3>1, <4>1 DEF Raised
    <3> QED
      BY <3>2, <3>3
  <2> QED
    BY <1>5, <1>7, <2>1, <2>2 DEF Heard
<1>10. /\ u.asked \subseteq Call \X (Asks \cup {Own})
       /\ \A t \in ToSet(q) : IsEvent(t) /\ (t.k \in Asking => t \in Speeches)
  BY <1>2, <1>3, <1>5, <1>6
<1>11. Consistent(Plain(u))
  BY <1>4
<1> QED
  <2> HIDE DEF z
  <2> QED
    BY <1>1, <1>3, <1>5, <1>8, <1>9, <1>10, <1>11, ThreadKeeps

LEMMA ThreadCancelsKeeps ==
  ASSUME NEW w, NEW batch, Good(w, batch), NEW c \in Call, w.proxy[c] = "calling"
  PROVE  Good(Send([w EXCEPT !.proxy[c] = "cancelling", !.asked = {a \in @ : a[1] # c}],
                   "terminate", c, Own), batch)
<1> DEFINE A == {a \in w.asked : a[1] # c}
           u == Send([w EXCEPT !.proxy[c] = "cancelling", !.asked = {a \in @ : a[1] # c}],
                     "terminate", c, Own)
<1>1. Consistent(Plain(w)) /\ Sound(w) /\ Tended(w) /\ Minded(w)
  BY GoodPoised
<1>2. /\ IsRecord(w) /\ DOMAIN w = Fields \cup RegionFields /\ w.proxy \in [Call -> Proxies]
  BY <1>1, NurseryFacts
<1>3. u = Send(Thread(w, c, "cancelling", A), "terminate", c, Own)
  BY DEF Thread
<1>4. A \subseteq w.asked /\ \A r \in w.asked : r \in A \/ r[1] = c
  OBVIOUS
<1> HIDE DEF A
<1>5. Consistent(Send(Thread(Plain(w), c, "cancelling", {}), "terminate", c, Own))
  <2> DEFINE p == Plain(w)
  <2>1. p.proxy = w.proxy /\ p.asked = {} /\ Consistent(p)
    BY <1>1, <1>2, PlainFacts
  <2> HIDE DEF p
  <2>2. Consistent(Send([p EXCEPT !.proxy[c] = "cancelling", !.asked = {a \in @ : a[1] # c}],
                        "terminate", c, Own))
    BY <2>1, ThreadCancels
  <2>3. [p EXCEPT !.proxy[c] = "cancelling", !.asked = {a \in @ : a[1] # c}] = Thread(p, c, "cancelling", {})
    <3>1. {a \in p.asked : a[1] # c} = {}
      BY <2>1
    <3> QED
      BY <3>1 DEF Thread
  <2> QED
    BY <2>2, <2>3 DEF p
<1>6. /\ u.proxy = [w.proxy EXCEPT ![c] = "cancelling"] /\ u.unstarted = w.unstarted
      /\ u.edge = w.edge /\ u.status = w.status
  BY <1>2 DEF Send, Fields, RegionFields
<1> HIDE DEF u
<1>7. Named(u)
  <2>1. \A d \in Call : /\ u.proxy[d] # "idle" <=> w.proxy[d] # "idle"
                        /\ w.proxy[d] = "done" => u.proxy[d] = "done"
    BY <1>2, <1>6
  <2> QED
    BY <1>1, <1>6, <2>1, RegionParts DEF Tended, Named
<1>8. Good(u, batch)
  <2>1. "cancelling" \in Proxies /\ "terminate" \in EventKind \ Asking
    BY DEF Proxies, EventKind, Asking
  <2> DEFINE s == "cancelling"
             k == "terminate"
  <2>2. s \in {"cancelling", "done"}
    OBVIOUS
  <2> HIDE DEF s, k
  <2> QED
    BY <1>3, <1>4, <1>5, <1>7, <2>1, <2>2, ThreadSends DEF s, k
<1> QED
  BY <1>8 DEF u

LEMMA ThreadCallsKeeps ==
  ASSUME NEW w, NEW batch, Good(w, batch), NEW c \in Call, w.proxy[c] = "idle",
         c # Provide => w.callee[Continuation] # "none",
         c \in Cancel => \E f \in Fork : FiberOf[f] = Target[c] /\ w.proxy[f] = "done"
  PROVE  Good(Send([w EXCEPT !.proxy[c] = "calling"], "delegate", c, Own), batch)
<1> DEFINE u == Send([w EXCEPT !.proxy[c] = "calling"], "delegate", c, Own)
<1>1. Consistent(Plain(w)) /\ Sound(w) /\ Tended(w) /\ Minded(w)
  BY GoodPoised
<1>2. /\ IsRecord(w) /\ DOMAIN w = Fields \cup RegionFields /\ w.proxy \in [Call -> Proxies]
  BY <1>1, NurseryFacts
<1>3. u = Send(Thread(w, c, "calling", w.asked), "delegate", c, Own)
  <2>1. [w EXCEPT !.proxy[c] = "calling"] = Thread(w, c, "calling", w.asked)
    BY <1>2 DEF IsRecord, Fields, Thread
  <2> QED
    BY <2>1
<1>4. Consistent(Send(Thread(Plain(w), c, "calling", {}), "delegate", c, Own))
  <2> DEFINE p == Plain(w)
  <2>1. p.proxy = w.proxy /\ p.asked = {} /\ Consistent(p) /\ IsRecord(p)
    BY <1>1, <1>2, PlainFacts
  <2> HIDE DEF p
  <2>2. Consistent(Send([p EXCEPT !.proxy[c] = "calling"], "delegate", c, Own))
    BY <2>1, ThreadCalls
  <2>3. [p EXCEPT !.proxy[c] = "calling"] = Thread(p, c, "calling", {})
    BY <2>1 DEF IsRecord, Fields, Thread
  <2> QED
    BY <2>2, <2>3 DEF p
<1>5. c # Provide => w.edge[Continuation] # "none"
  <2>1. Plain(w).edge = w.edge /\ Plain(w).callee = [j \in Inner |-> Simple(w.callee[j])]
    BY <1>2, PlainFacts
  <2>2. w.edge[Continuation] = "none" => Plain(w).callee[Continuation] = "none"
    BY <1>1, <2>1, RegionParts DEF Consistent, InnerOk
  <2> QED
    BY <2>1, <2>2, RegionParts DEF Simple
<1>6. /\ u.proxy = [w.proxy EXCEPT ![c] = "calling"] /\ u.unstarted = w.unstarted
      /\ u.edge = w.edge /\ u.status = w.status
  BY <1>2 DEF Send, Fields, RegionFields
<1> HIDE DEF u
<1>7. Named(u)
  <2>1. \A d \in Call : /\ u.proxy[d] # "idle" => d = c \/ w.proxy[d] # "idle"
                        /\ w.proxy[d] = "done" => u.proxy[d] = "done"
    BY <1>2, <1>6
  <2>2. Named(w)
    BY <1>1 DEF Tended
  <2>3. \A d \in Call : d # Provide /\ u.proxy[d] # "idle" => u.edge[Continuation] # "none"
    BY <1>5, <1>6, <2>1, <2>2 DEF Named
  <2>4. \A k \in Cancel : u.proxy[k] # "idle" =>
          \E f \in Fork : FiberOf[f] = Target[k] /\ u.proxy[f] = "done"
    <3> SUFFICES ASSUME NEW k \in Cancel, u.proxy[k] # "idle"
                 PROVE  \E f \in Fork : FiberOf[f] = Target[k] /\ u.proxy[f] = "done"
      OBVIOUS
    <3>1. \E f \in Fork : FiberOf[f] = Target[k] /\ w.proxy[f] = "done"
      BY <2>1, <2>2, RegionParts DEF Named
    <3> QED
      BY <2>1, <3>1, RegionParts
  <2> QED
    BY <1>6, <2>2, <2>3, <2>4 DEF Named
<1>8. Good(u, batch)
  <2> DEFINE s == "calling"
             k == "delegate"
             A == w.asked
  <2>1. s \in Proxies /\ k \in EventKind \ Asking /\ w.proxy[c] \notin {"cancelling", "done"}
    BY DEF Proxies, EventKind, Asking
  <2>2. A \subseteq w.asked /\ \A r \in w.asked : r \in A
    OBVIOUS
  <2>3. u = Send(Thread(w, c, s, A), k, c, Own) /\ Consistent(Send(Thread(Plain(w), c, s, {}), k, c, Own))
    BY <1>3, <1>4
  <2> HIDE DEF s, k, A
  <2> QED
    BY <1>7, <2>1, <2>2, <2>3, ThreadSends
<1> QED
  BY <1>8 DEF u

-----------------------------------------------------------------------------
(* The outcome of a call is delivered.                                     *)

\* Who is dropped is a matter of the calls only.
LEMMA DropSame ==
  ASSUME NEW w, NEW z, z.status = w.status, NEW v
  PROVE  OnDropCall(z, v) = OnDropCall(w, v)
BY DEF OnDropCall, Dropped, Live

LEMMA CompleteGood ==
  ASSUME NEW w, NEW batch, Good(w, batch), NEW c \in Call, NEW o \in Outcomes,
         c \in Watch => w.status[c] \in {"cancelling", "gone"} \/ w.status[Provide] # "running"
  PROVE  Good(OnDropCall(w, Complete(w, c, o)), batch)
<1> DEFINE u == Complete(w, c, o)
<1>1. /\ Poised(w, batch) /\ Sound(w) /\ Consistent(Plain(w)) /\ Tended(w) /\ Minded(w)
      /\ w.status \in [Call -> Statuses]
  BY GoodPoised, SoundFacts
<1>2. /\ Plain(u) = Complete(Plain(w), c, o) /\ Works(w, u, c)
      /\ u.held[c] # "nothing" => w.held[c] # "nothing" \/ Draining(w, c)
  BY <1>1, WorksComplete
<1>3. Consistent(Plain(u))
  BY <1>1, <1>2, CompleteKeeps
<1> HIDE DEF u
<1>4. \A d \in Call : d # Provide => w.held[d] = "nothing"
  BY <1>1 DEF Tended, Childless
<1>5. \A d \in Call : d # Provide => u.held[d] = "nothing"
  <2>1. CASE c = Provide
    BY <1>2, <1>4, <2>1 DEF Works
  <2>2. CASE c # Provide
    <3>1. ~Draining(w, c)
      BY <2>2, RegionParts DEF Draining
    <3> QED
      BY <1>2, <1>4, <3>1, WorksHeld
  <2> QED
    BY <2>1, <2>2
<1>6. WatchesStay(w, u)
  <2>1. CASE c \notin Watch
    BY <1>2, <2>1, OthersStay
  <2>2. CASE c \in Watch
    <3> SUFFICES ASSUME w.status[Provide] = "running", NEW x \in Watch, Watching(w, x)
                 PROVE  /\ u.status[x] # "awaitingAnswer"
                        /\ u.status[x] = "gone" => w.proxy[x] \in {"cancelling", "done"}
      BY DEF WatchesStay
    <3>1. x \in Call
      BY RegionParts
    <3>2. CASE x = c
      <4>1. w.status[x] = "cancelling"
        BY <2>2, <3>2 DEF Watching
      <4> QED
        BY <1>1, <1>2, <3>1, <4>1 DEF Works, Steps, Ages, Tended, Childless
    <3>3. CASE x # c
      BY <1>2, <3>1, <3>3 DEF Works, Watching
    <3> QED
      BY <3>2, <3>3
  <2> QED
    BY <2>1, <2>2
<1>7. Good(OnDropCall(w, u), batch)
  BY <1>1, <1>2, <1>3, <1>5, <1>6, WorksTurns
<1> QED
  BY <1>7 DEF u

\* Before its scope is open a nursery that runs has no other call.
LEMMA ClosedScope ==
  ASSUME NEW w, NEW batch, Good(w, batch), ~w.open, NEW c \in Call, c # Provide, Live(w, c)
  PROVE  w.status[Provide] # "running"
<1> SUFFICES ASSUME w.status[Provide] = "running" PROVE FALSE
  OBVIOUS
<1>1. \A i \in Inner : w.edge[i] = "none"
  BY GoodPoised DEF Routed
<1>2. w.proxy[c] = "idle"
  BY <1>1, GoodPoised, RegionParts DEF Tended, Named
<1>3. CallOk(Plain(w), c) /\ Plain(w).proxy = w.proxy /\ Plain(w).status = w.status
  BY GoodPoised, PlainFacts, NurseryFacts DEF Consistent
<1> QED
  BY <1>2, <1>3 DEF CallOk, Live

\* The turn of an outcome that was scheduled.
LEMMA CompleteTurns ==
  ASSUME NEW w, NEW batch, Good(w, batch), w.mail # << >>, NEW t, t = Head(w.mail), t.k = "complete"
  PROVE  Good(OnDropCall(Rest(w), Complete(Rest(w), t.d, t.o)), batch)
<1> DEFINE v == Rest(w)
<1>1. Good(v, batch)
  BY TakenGood DEF Asking, PumpDue, Work
<1>2. ~IsEvent(t) /\ Originated(w, t) /\ v.status = w.status
  <2>1. t \in ToSet(w.mail) /\ v.status = w.status
    BY TakenKeeps, GoodPoised, NurseryFacts DEF Good, Fields
  <2>2. ~IsEvent(t)
    BY DEF IsEvent, EventKind
  <2> QED
    BY <2>1, <2>2, GoodPoised DEF WorkOk
<1>3. PICK c \in Call, o \in Outcomes :
        t = Completion(c, o) /\ (c # Provide => w.status[c] \in {"cancelling", "gone"})
  <2>1. /\ t # Work("pump", Provide) /\ \A c : t # Work("start", c)
        /\ \A i : t # Work("retire", i)
    BY DEF Work
  <2> QED
    BY <1>2, <2>1 DEF Originated
<1>4. t.d = c /\ t.o = o
  BY <1>3 DEF Completion
<1> HIDE DEF v
<1>5. c \in Watch => v.status[c] \in {"cancelling", "gone"}
  BY <1>2, <1>3, RegionAssumption
<1>6. Good(OnDropCall(v, Complete(v, c, o)), batch)
  BY <1>1, <1>5, CompleteGood
<1> QED
  BY <1>4, <1>6 DEF v

-----------------------------------------------------------------------------
(* What the reactor records in memory.                                     *)

Memory == {"running", "names", "waiter", "told", "watches"}

LEMMA OwnKeeps ==
  ASSUME NEW w, NEW batch, Minded(w), Consistent(Plain(w)), AsksKept(w), WorkOk(w), BatchOk(w, batch),
         NEW u, IsRecord(u), DOMAIN u = DOMAIN w, \A f \in DOMAIN w \ Memory : u[f] = w[f],
         u.running \subseteq Fiber, u.waiter \in [Fiber -> Cancel \cup {None}],
         u.told \in [Cancel -> Answers], u.watches \in Seq(Watch), Truthful(u)
  PROVE  Minded(u) /\ Kept(u) /\ AsksKept(u) /\ WorkOk(u) /\ BatchOk(u, batch)
<1>1. /\ IsRecord(w) /\ DOMAIN w = Fields \cup RegionFields /\ w.mail \in Seq(ToSet(w.mail))
      /\ Sound(w) /\ IsNursery(w) /\ Tended(w)
  BY NurseryFacts DEF Minded
<1>2. /\ u.status = w.status /\ u.settled = w.settled /\ u.held = w.held /\ u.relays = w.relays
      /\ u.edge = w.edge /\ u.bridge = w.bridge /\ u.staged = w.staged /\ u.raised = w.raised
      /\ u.proxy = w.proxy /\ u.asked = w.asked /\ u.callee = w.callee /\ u.mail = w.mail
      /\ u.mailbox = w.mailbox /\ u.unstarted = w.unstarted /\ u.arrived = w.arrived
      /\ u.emitted = w.emitted /\ u.open = w.open
  BY <1>1 DEF Fields, RegionFields, Memory
<1>3. Consistent(Plain(u)) /\ Sound(u)
  <2>1. u.mail = w.mail \o << >> /\ << >> \in Seq(ToSet(<< >>)) /\ ToSet(<< >>) = {}
    BY <1>1, <1>2, ToSetEmpty
  <2> QED
    BY <1>1, <1>2, <2>1, QuietKeeps
<1>4. IsNursery(u)
  <2>1. u = [f \in DOMAIN u |-> u[f]]
    BY DEF IsRecord
  <2> QED
    BY <1>1, <1>2, <2>1 DEF IsNursery
<1>5. Tended(u)
  <2>1. Bridged(u) /\ Named(u) /\ Childless(u)
    BY <1>1, <1>2 DEF Tended, Bridged, Alive, Named, Childless
  <2>2. InPlace(u) /\ Raising(u)
    BY <1>1, <1>2 DEF Tended, InPlace, Raising, Live
  <2> QED
    BY <2>1, <2>2 DEF Tended
<1>6. AsksKept(u)
  BY <1>2, MoreMail
<1>7. WorkOk(u) /\ BatchOk(u, batch)
  BY <1>2 DEF WorkOk, StagedOk, Originated, BatchOk
<1> QED
  BY <1>3, <1>4, <1>5, <1>6, <1>7, MindedKept

-----------------------------------------------------------------------------
(* A cancel is answered, or waits for its fiber.                           *)

LEMMA TellGood ==
  ASSUME NEW w, NEW batch, Good(w, batch), NEW k \in Cancel, NEW answer \in Answers,
         w.status[k] # "none", w.edge[Target[k]] # "running"
  PROVE  Good(OnDropCall(w, Tell(w, k, answer)), batch)
<1> DEFINE z == [w EXCEPT !.told[k] = answer]
<1>1. /\ Minded(w) /\ Consistent(Plain(w)) /\ AsksKept(w) /\ Routed(w) /\ Due(w) /\ WorkOk(w)
      /\ BatchOk(w, batch) /\ IsNursery(w) /\ Tended(w)
  BY GoodPoised DEF Good
<1>2. /\ IsRecord(z) /\ DOMAIN z = DOMAIN w /\ z.told = [w.told EXCEPT ![k] = answer]
      /\ \A f \in DOMAIN w \ {"told"} : z[f] = w[f]
  BY <1>1 DEF IsNursery, IsRecord, Fields, RegionFields
<1>3. /\ z.status = w.status /\ z.edge = w.edge /\ z.held = w.held /\ z.open = w.open
      /\ z.running = w.running /\ z.waiter = w.waiter /\ z.watches = w.watches
      /\ z.mailbox = w.mailbox /\ z.mail = w.mail
  BY <1>1, <1>2 DEF IsNursery, Fields, RegionFields
<1>4. Tell(w, k, answer) = Complete(z, k, "result")
  BY DEF Tell
<1> HIDE DEF z
<1>5. z.told \in [Cancel -> Answers] /\ Truthful(z)
  <2>1. w.told \in [Cancel -> Answers]
    BY <1>1 DEF IsNursery
  <2>2. z.told \in [Cancel -> Answers] /\ \A j \in Cancel : j # k => z.told[j] = w.told[j]
    BY <1>2, <2>1
  <2> QED
    BY <1>1, <1>3, <2>2 DEF Truthful, Tended
<1>6. Kept(z) /\ WorkOk(z) /\ BatchOk(z, batch)
  <2>1. \A f \in DOMAIN w \ Memory : z[f] = w[f]
    BY <1>2 DEF Memory
  <2>2. z.running \subseteq Fiber /\ z.waiter \in [Fiber -> Cancel \cup {None}] /\ z.watches \in Seq(Watch)
    BY <1>1, <1>3 DEF IsNursery
  <2> QED
    BY <1>1, <1>2, <1>5, <2>1, <2>2, OwnKeeps
<1>7. Routed(z) /\ Due(z)
  BY <1>1, <1>3 DEF Routed, Due, Live, Alive, Relays
<1>8. Good(OnDropCall(z, Complete(z, k, "result")), batch)
  <2>1. Good(z, batch)
    BY <1>6, <1>7 DEF Good, Runs
  <2>2. k \in Call /\ k \notin Watch
    BY RegionParts, RegionAssumption
  <2>3. "result" \in Outcomes
    BY DEF Outcomes
  <2> QED
    BY <2>1, <2>2, <2>3, CompleteGood
<1> QED
  BY <1>3, <1>4, <1>8, DropSame

\* To tell a fiber to stop changes nothing of who waits for it.
LEMMA StopCommutes ==
  ASSUME NEW a, IsRecord(a), DOMAIN a = Fields \cup RegionFields, a.edge \in [Inner -> Edges],
         NEW b, IsRecord(b), DOMAIN b = DOMAIN a, \A f \in DOMAIN a \ {"waiter"} : b[f] = a[f],
         NEW i \in Inner
  PROVE  LET s == TerminateFiber(a, i)
             u == TerminateFiber(b, i)
         IN /\ IsRecord(u) /\ DOMAIN u = DOMAIN s /\ u.waiter = b.waiter
            /\ DOMAIN s = DOMAIN a /\ \A f \in DOMAIN s \ {"waiter"} : u[f] = s[f]
<1> DEFINE s == TerminateFiber(a, i)
           u == TerminateFiber(b, i)
           e == Event("terminate", i, Own)
<1>1. b.edge = a.edge /\ b.mail = a.mail
  BY DEF Fields, RegionFields
<1>2. CASE a.edge[i] = "running"
  <2> DEFINE g == [a.edge EXCEPT ![i] = "cancelling"]
             m == Append(a.mail, e)
  <2>1. s = [a EXCEPT !.mail = m, !.edge = g] /\ u = [b EXCEPT !.mail = m, !.edge = g]
    BY <1>1, <1>2 DEF TerminateFiber, Send, IsRecord, Fields
  <2> HIDE DEF s, u, g, m
  <2>2. /\ DOMAIN s = DOMAIN a /\ s.mail = m /\ s.edge = g /\ \A f \in DOMAIN a \ {"mail", "edge"} : s[f] = a[f]
    BY <2>1 DEF IsRecord, Fields
  <2>3. /\ IsRecord(u) /\ DOMAIN u = DOMAIN b /\ u.mail = m /\ u.edge = g
        /\ \A f \in DOMAIN b \ {"mail", "edge"} : u[f] = b[f]
    BY <2>1 DEF IsRecord, Fields
  <2>4. ASSUME NEW f \in DOMAIN s \ {"waiter"} PROVE u[f] = s[f]
    <3>1. CASE f \in {"mail", "edge"}
      BY <2>2, <2>3, <3>1
    <3>2. CASE f \notin {"mail", "edge"}
      BY <2>2, <2>3, <3>2
    <3> QED
      BY <3>1, <3>2
  <2>5. u.waiter = b.waiter
    BY <2>3 DEF RegionFields
  <2> QED
    BY <2>2, <2>3, <2>4, <2>5 DEF s, u
<1>3. CASE a.edge[i] # "running"
  BY <1>1, <1>3 DEF TerminateFiber
<1> QED
  BY <1>2, <1>3

LEMMA CancelGood ==
  ASSUME NEW w, NEW batch, Good(w, batch), NEW k \in Cancel, Live(w, k),
         w.open, Target[k] \in w.running
  PROVE  LET i == Target[k]
         IN Good(TerminateFiber([DropFiberMailbox(w, i) EXCEPT !.waiter[i] = k], i), batch)
<1> DEFINE i == Target[k]
           a == DropFiberMailbox(w, i)
           b == [a EXCEPT !.waiter[i] = k]
           s == TerminateFiber(a, i)
           u == TerminateFiber(b, i)
<1>1. /\ Minded(w) /\ Consistent(Plain(w)) /\ AsksKept(w) /\ Routed(w) /\ Due(w) /\ WorkOk(w)
      /\ BatchOk(w, batch) /\ IsNursery(w) /\ Tended(w)
      /\ IsRecord(w) /\ DOMAIN w = Fields \cup RegionFields /\ w.edge \in [Inner -> Edges]
  BY GoodPoised, NurseryFacts DEF Good
<1>2. i \in Fiber /\ i \in Inner
  BY RegionAssumption DEF Fiber
<1>3. /\ Minded(s) /\ Consistent(Plain(s)) /\ Routed(s) /\ WorkOk(s) /\ BatchOk(s, batch) /\ Due(s)
      /\ s.callee = w.callee /\ s.status = w.status /\ s.told = w.told
      /\ s.waiter = w.waiter /\ s.open = w.open
      /\ \A j \in Inner : /\ s.edge[j] = "none" <=> w.edge[j] = "none"
                          /\ s.edge[j] = "running" => w.edge[j] = "running" /\ j # i
      /\ \A j \in Fiber : Heard(w, j) /\ s.edge[j] = "running" => Heard(s, j)
  <2> HIDE DEF i
  <2> QED
    BY <1>1, <1>2, StopKeeps
<1>4. /\ IsRecord(u) /\ DOMAIN u = DOMAIN s /\ u.waiter = b.waiter
      /\ \A f \in DOMAIN s \ {"waiter"} : u[f] = s[f]
  <2> DEFINE m == Without(w.mailbox, {i})
  <2>1. a = [w EXCEPT !.mailbox = m]
    BY DEF DropFiberMailbox
  <2> HIDE DEF a, m
  <2>2. IsRecord(a) /\ DOMAIN a = DOMAIN w /\ a.edge = w.edge
    BY <1>1, <2>1 DEF IsRecord, Fields
  <2>3. IsRecord(b) /\ DOMAIN b = DOMAIN a /\ \A f \in DOMAIN a \ {"waiter"} : b[f] = a[f]
    BY <1>1, <2>2 DEF IsRecord, Fields, RegionFields
  <2> HIDE DEF b
  <2> QED
    BY <1>1, <1>2, <2>2, <2>3, StopCommutes
<1>5. u.waiter = [w.waiter EXCEPT ![i] = k]
  <2>1. b.waiter = [w.waiter EXCEPT ![i] = k]
    BY <1>1 DEF DropFiberMailbox, Fields, RegionFields
  <2> QED
    BY <1>4, <2>1
<1> HIDE DEF a, b, s, u, i
<1>6. /\ DOMAIN s = Fields \cup RegionFields /\ IsNursery(s) /\ Tended(s) /\ s.edge \in [Inner -> Edges]
  BY <1>3, NurseryFacts DEF Minded
<1>7. /\ u.status = s.status /\ u.edge = s.edge /\ u.held = s.held /\ u.open = s.open
      /\ u.running = s.running /\ u.told = s.told /\ u.watches = s.watches
      /\ u.mailbox = s.mailbox /\ u.mail = s.mail
  BY <1>4, <1>6 DEF Fields, RegionFields
<1>8. AsksKept(s)
  BY <1>1, <1>3 DEF AsksKept, Fiber
<1>9. u.waiter \in [Fiber -> Cancel \cup {None}]
  BY <1>1, <1>2, <1>5 DEF IsNursery
<1>10. Kept(u) /\ WorkOk(u) /\ BatchOk(u, batch)
  <2>1. \A f \in DOMAIN s \ Memory : u[f] = s[f]
    BY <1>4 DEF Memory
  <2>2. u.running \subseteq Fiber /\ u.told \in [Cancel -> Answers] /\ u.watches \in Seq(Watch)
    BY <1>6, <1>7 DEF IsNursery
  <2>3. Truthful(u)
    BY <1>6, <1>7 DEF Tended, Truthful
  <2> QED
    BY <1>3, <1>4, <1>8, <1>9, <2>1, <2>2, <2>3, OwnKeeps
<1>11. Routed(u)
  <2>1. s.edge[i] \in {"cancelling", "retired"}
    <3>1. w.edge[i] # "none"
      BY <1>1, <1>2 DEF Routed, Alive, i
    <3> QED
      BY <1>2, <1>3, <1>6, <3>1 DEF Edges
  <2>2. ASSUME NEW j \in Fiber, u.waiter[j] # None
        PROVE  Target[u.waiter[j]] = j /\ Live(u, u.waiter[j]) /\ u.edge[j] \in {"cancelling", "retired"}
    <3>1. CASE j = i
      <4>1. u.waiter[j] = k
        BY <1>1, <1>5, <3>1 DEF IsNursery
      <4>2. Live(u, k)
        BY <1>3, <1>7 DEF Live
      <4> QED
        BY <1>7, <2>1, <3>1, <4>1, <4>2 DEF i
    <3>2. CASE j # i
      <4>1. u.waiter[j] = s.waiter[j]
        BY <1>1, <1>3, <1>5, <3>2 DEF IsNursery
      <4> QED
        BY <1>3, <1>7, <2>2, <4>1 DEF Routed, Live
    <3> QED
      BY <3>1, <3>2
  <2>3. /\ u.open => /\ Live(u, Provide)
                     /\ \A j \in Fiber : Alive(u, j) <=> j \in u.running /\ u.edge[j] # "retired"
        /\ u.status[Provide] = "running" /\ ~u.open => \A j \in Inner : u.edge[j] = "none"
        /\ \A y \in ToSet(u.watches) : Live(u, y)
        /\ ~u.open => u.running = {}
    BY <1>3, <1>7 DEF Routed, Live, Alive
  <2> QED
    BY <2>2, <2>3 DEF Routed
<1>12. Due(u)
  BY <1>3, <1>7 DEF Due, Relays
<1>13. Good(u, batch)
  BY <1>10, <1>11, <1>12 DEF Good, Runs
<1> QED
  BY <1>13 DEF u, b, a, i

LEMMA CancelStart ==
  ASSUME NEW w, NEW batch, Good(w, batch), NEW k \in Cancel, Live(w, k)
  PROVE  Good(OnDropCall(w, StartCancelById(w, k)), batch)
<1> DEFINE i == Target[k]
<1>1. k \in Call /\ k \notin Watch /\ w.status[k] # "none" /\ i \in Fiber
  BY RegionParts, RegionAssumption DEF Live
<1>2. Routed(w)
  BY GoodPoised
<1>3. CASE ~w.open
  BY <1>1, <1>3, CompleteGood DEF StartCancelById, Outcomes
<1>4. CASE w.open /\ i \notin w.running
  <2>1. w.edge[i] # "running" /\ "unknown_fiber" \in Answers
    BY <1>1, <1>2, <1>4 DEF Routed, Alive, Answers
  <2>2. StartCancelById(w, k) = Tell(w, k, "unknown_fiber")
    BY <1>4 DEF StartCancelById
  <2> QED
    BY <1>1, <2>1, <2>2, TellGood
<1>5. CASE w.open /\ i \in w.running /\ w.waiter[i] # None
  <2>1. w.edge[i] # "running" /\ "cancelled" \in Answers
    BY <1>1, <1>2, <1>5 DEF Routed, Answers
  <2>2. StartCancelById(w, k) = Tell(w, k, "cancelled")
    BY <1>5 DEF StartCancelById
  <2> QED
    BY <1>1, <2>1, <2>2, TellGood
<1>6. CASE w.open /\ i \in w.running /\ w.waiter[i] = None
  <2>1. StartCancelById(w, k) = TerminateFiber([DropFiberMailbox(w, i) EXCEPT !.waiter[i] = k], i)
    BY <1>6 DEF StartCancelById
  <2>2. Good(StartCancelById(w, k), batch)
    BY <1>6, <2>1, CancelGood
  <2> QED
    BY <2>2, TurnEnds
<1> QED
  BY <1>3, <1>4, <1>5, <1>6

-----------------------------------------------------------------------------
(* A watch begins; a fiber retires; the mailbox is pumped.                 *)

LEMMA WatchStart ==
  ASSUME NEW w, NEW batch, Good(w, batch), NEW y \in Watch, Live(w, y)
  PROVE  Good(OnDropCall(w, StartWatch(w, y)), batch)
<1> DEFINE z == RegisterWatch(w, y)
<1>1. /\ Minded(w) /\ Consistent(Plain(w)) /\ AsksKept(w) /\ Routed(w) /\ WorkOk(w)
      /\ BatchOk(w, batch) /\ IsNursery(w) /\ Tended(w)
      /\ IsRecord(w) /\ DOMAIN w = Fields \cup RegionFields
  BY GoodPoised, NurseryFacts DEF Good
<1>2. y \in Call /\ y # Provide
  BY RegionParts, RegionAssumption
<1>3. CASE ~w.open
  <2>1. w.status[Provide] # "running"
    BY <1>2, <1>3, ClosedScope
  <2>2. StartWatch(w, y) = Complete(w, y, "failure") /\ "failure" \in Outcomes
    BY <1>3 DEF StartWatch, Outcomes
  <2> QED
    BY <1>2, <2>1, <2>2, CompleteGood
<1>4. CASE w.open
  <2> DEFINE s == IF y \in ToSet(w.watches) THEN w.watches ELSE Append(w.watches, y)
  <2>1. s \in Seq(Watch) /\ ToSet(s) = ToSet(w.watches) \cup {y}
    <3>1. w.watches \in Seq(Watch)
      BY <1>1 DEF IsNursery
    <3> QED
      BY <3>1, ToSetAppend
  <2>2. z = [w EXCEPT !.watches = s]
    BY DEF RegisterWatch
  <2> HIDE DEF s, z
  <2>3. /\ IsRecord(z) /\ DOMAIN z = DOMAIN w /\ z.watches = s
        /\ \A f \in DOMAIN w \ {"watches"} : z[f] = w[f]
    BY <1>1, <2>2 DEF IsRecord, Fields, RegionFields
  <2>4. /\ z.status = w.status /\ z.edge = w.edge /\ z.open = w.open
        /\ z.running = w.running /\ z.waiter = w.waiter /\ z.told = w.told
    BY <1>1, <2>3 DEF Fields, RegionFields
  <2>5. Minded(z) /\ Kept(z) /\ AsksKept(z) /\ WorkOk(z) /\ BatchOk(z, batch)
    <3>1. \A f \in DOMAIN w \ Memory : z[f] = w[f]
      BY <2>3 DEF Memory
    <3>2. /\ z.running \subseteq Fiber /\ z.waiter \in [Fiber -> Cancel \cup {None}]
          /\ z.told \in [Cancel -> Answers] /\ z.watches \in Seq(Watch)
      BY <1>1, <2>1, <2>3, <2>4 DEF IsNursery
    <3>3. Truthful(z)
      BY <1>1, <2>4 DEF Tended, Truthful
    <3> QED
      BY <1>1, <2>3, <3>1, <3>2, <3>3, OwnKeeps
  <2>6. Routed(z)
    BY <1>1, <2>1, <2>3, <2>4 DEF Routed, Live, Alive
  <2>7. Good(Pump(z), batch)
    BY <2>5, <2>6, PumpKeeps DEF Kept
  <2>8. StartWatch(w, y) = Pump(z)
    BY <1>4 DEF StartWatch, z
  <2> QED
    BY <2>7, <2>8, TurnEnds
<1> QED
  BY <1>3, <1>4

LEMMA RosterStart ==
  ASSUME NEW w, NEW batch, Good(w, batch), NEW y \in Roster
  PROVE  Good(OnDropCall(w, StartRoster(w, y)), batch)
<1>1. y \in Call /\ y \notin Watch
  BY RegionParts, RegionAssumption
<1> QED
  BY <1>1, CompleteGood DEF StartRoster, Outcomes

LEMMA RetireGood ==
  ASSUME NEW w, NEW batch, Good(w, batch), NEW i \in Fiber, w.edge[i] = "retired"
  PROVE  Good(OnDropCall(w, RetireFiber(w, i)), batch)
<1> DEFINE k == w.waiter[i]
           z == [w EXCEPT !.running = @ \ {i}, !.names = @ \ {i}, !.waiter[i] = None]
<1>1. /\ Minded(w) /\ Consistent(Plain(w)) /\ AsksKept(w) /\ Routed(w) /\ WorkOk(w) /\ Due(w)
      /\ BatchOk(w, batch) /\ IsNursery(w) /\ Tended(w)
      /\ IsRecord(w) /\ DOMAIN w = Fields \cup RegionFields
  BY GoodPoised, NurseryFacts DEF Good
<1>2. CASE ~Live(w, Provide)
  BY <1>2, TurnEnds DEF RetireFiber
<1>3. CASE Live(w, Provide)
  <2>1. /\ IsRecord(z) /\ DOMAIN z = DOMAIN w /\ z.running = w.running \ {i}
        /\ z.waiter = [w.waiter EXCEPT ![i] = None]
        /\ \A f \in DOMAIN w \ {"running", "names", "waiter"} : z[f] = w[f]
    BY <1>1 DEF IsRecord, Fields, RegionFields
  <2>2. RetireFiber(w, i) = IF k = None THEN z ELSE Tell(z, k, "cancelled")
    BY <1>3 DEF RetireFiber
  <2> HIDE DEF z
  <2>3. /\ z.status = w.status /\ z.edge = w.edge /\ z.open = w.open /\ z.held = w.held
        /\ z.watches = w.watches /\ z.told = w.told /\ z.mailbox = w.mailbox /\ z.mail = w.mail
    BY <1>1, <2>1 DEF Fields, RegionFields
  <2>4. /\ z.waiter \in [Fiber -> Cancel \cup {None}] /\ z.waiter[i] = None
        /\ \A j \in Fiber : j # i => z.waiter[j] = w.waiter[j]
    BY <1>1, <2>1 DEF IsNursery
  <2>5. Kept(z) /\ WorkOk(z) /\ BatchOk(z, batch)
    <3>1. \A f \in DOMAIN w \ Memory : z[f] = w[f]
      BY <2>1 DEF Memory
    <3>2. /\ z.running \subseteq Fiber /\ z.told \in [Cancel -> Answers] /\ z.watches \in Seq(Watch)
      BY <1>1, <2>1, <2>3 DEF IsNursery
    <3>3. Truthful(z)
      BY <1>1, <2>3 DEF Tended, Truthful
    <3> QED
      BY <1>1, <2>1, <2>4, <3>1, <3>2, <3>3, OwnKeeps
  <2>6. Routed(z)
    <3>1. \A j \in Fiber : z.waiter[j] # None => z.waiter[j] = w.waiter[j]
      BY <2>4
    <3>2. \A j \in Fiber : z.waiter[j] # None =>
            Target[z.waiter[j]] = j /\ Live(z, z.waiter[j]) /\ z.edge[j] \in {"cancelling", "retired"}
      BY <1>1, <2>3, <3>1 DEF Routed, Live
    <3>3. z.open => /\ Live(z, Provide)
                    /\ \A j \in Fiber : Alive(z, j) <=> j \in z.running /\ z.edge[j] # "retired"
      BY <1>1, <2>1, <2>3 DEF Routed, Live, Alive
    <3>4. /\ z.status[Provide] = "running" /\ ~z.open => \A j \in Inner : z.edge[j] = "none"
          /\ \A y \in ToSet(z.watches) : Live(z, y)
          /\ ~z.open => z.running = {}
      BY <1>1, <2>1, <2>3 DEF Routed, Live
    <3> QED
      BY <3>2, <3>3, <3>4 DEF Routed
  <2>7. Due(z)
    BY <1>1, <2>3 DEF Due, Relays
  <2>8. Good(z, batch)
    BY <2>5, <2>6, <2>7 DEF Good, Runs
  <2>9. CASE k = None
    BY <2>2, <2>8, <2>9, TurnEnds
  <2>10. CASE k # None
    <3>1. k \in Cancel /\ Target[k] = i /\ Live(w, k)
      BY <1>1, <2>10, RegionParts DEF Routed, IsNursery
    <3>2. z.status[k] # "none" /\ z.edge[Target[k]] # "running" /\ "cancelled" \in Answers
      BY <2>3, <3>1 DEF Live, Answers
    <3>3. Good(OnDropCall(z, Tell(z, k, "cancelled")), batch)
      BY <2>8, <3>1, <3>2, TellGood
    <3> QED
      BY <2>2, <2>3, <2>10, <3>3, DropSame
  <2> QED
    BY <2>9, <2>10
<1> QED
  BY <1>2, <1>3

LEMMA RetireTurns ==
  ASSUME NEW w, NEW batch, Good(w, batch), w.mail # << >>, NEW t, t = Head(w.mail), t.k = "retire"
  PROVE  Good(OnDropCall(Rest(w), RetireFiber(Rest(w), t.d)), batch)
<1> DEFINE v == Rest(w)
<1>1. Good(v, batch)
  BY TakenGood DEF Asking, PumpDue, Work
<1>2. Originated(w, t) /\ v.edge = w.edge
  <2>1. t \in ToSet(w.mail) /\ v.edge = w.edge
    BY TakenKeeps, GoodPoised, NurseryFacts DEF Good, Fields
  <2>2. ~IsEvent(t)
    BY DEF IsEvent, EventKind
  <2> QED
    BY <2>1, <2>2, GoodPoised DEF WorkOk
<1>3. PICK i \in Fiber : t = Work("retire", i) /\ w.edge[i] = "retired"
  <2>1. /\ t # Work("pump", Provide) /\ \A c : t # Work("start", c)
        /\ \A c, o : t # Completion(c, o)
    BY DEF Work, Completion
  <2> QED
    BY <1>2, <2>1 DEF Originated
<1>4. t.d = i
  BY <1>3 DEF Work
<1> HIDE DEF v
<1>5. Good(OnDropCall(v, RetireFiber(v, i)), batch)
  BY <1>1, <1>2, <1>3, RetireGood
<1> QED
  BY <1>4, <1>5 DEF v

LEMMA PumpTurns ==
  ASSUME NEW w, NEW batch, Good(w, batch), w.mail # << >>, NEW t, t = Head(w.mail), t.k = "pump"
  PROVE  Good(OnDropCall(Rest(w), Pump(Rest(w))), batch)
<1> DEFINE v == Rest(w)
<1>1. t.k \notin Asking /\ t.k # "delegate" /\ ~IsEvent(t) /\ Hushed(t) = t
  BY DEF Asking, IsEvent, EventKind, Hushed
<1>2. Minded(v) /\ Routed(v) /\ WorkOk(v) /\ BatchOk(v, batch) /\ AsksKept(v)
  BY <1>1, TakenKeeps DEF Good
<1>3. Consistent(Plain(v))
  BY <1>1, PlainTaken DEF Good
<1> HIDE DEF v
<1>4. Good(OnDropCall(v, Pump(v)), batch)
  BY <1>2, <1>3, PumpKeeps, TurnEnds
<1> QED
  BY <1>4 DEF v

-----------------------------------------------------------------------------
(* A delegation is opened in the nursery.                                  *)

LEMMA PlainOpen ==
  ASSUME NEW w, Sound(w), NEW i \in Inner
  PROVE  LET z == OpenInner(w, i, i)
         IN /\ Plain(z) = OpenInner(Plain(w), i, i) /\ Sound(z)
            /\ IsRecord(z) /\ DOMAIN z = DOMAIN w
            /\ z.mail = w.mail \o <<Event("delegate", i, Own)>>
            /\ z.bridge = w.bridge \cup {<<i, i>>}
            /\ z.edge \in [Inner -> Edges] /\ z.edge[i] = "running"
            /\ \A j \in Inner : j # i => z.edge[j] = w.edge[j]
            /\ \A f \in DOMAIN w \ {"edge", "bridge", "mail"} : z[f] = w[f]
<1> DEFINE e == Event("delegate", i, Own)
           z == OpenInner(w, i, i)
           g == [w.edge EXCEPT ![i] = "running"]
           y == OpenInner(Plain(w), i, i)
<1>1. /\ IsRecord(w) /\ w.mail \in Seq(ToSet(w.mail)) /\ w.edge \in [Inner -> Edges] /\ IsWarm(Plain(w))
  BY SoundFacts DEF Sound
<1>2. /\ IsRecord(Plain(w)) /\ DOMAIN Plain(w) = DOMAIN w
      /\ Plain(w).relays = {} /\ Plain(w).asked = {}
      /\ Plain(w).callee = [j \in Inner |-> Simple(w.callee[j])]
      /\ Plain(w).mail = Hush(w.mail)
      /\ Plain(w).edge = w.edge /\ Plain(w).bridge = w.bridge
      /\ \A f \in DOMAIN w \ {"relays", "asked", "callee", "mail"} : Plain(w)[f] = w[f]
  BY <1>1, PlainFacts DEF Hush
<1>3. /\ IsRecord(z) /\ DOMAIN z = DOMAIN w /\ z.mail = Append(w.mail, e)
      /\ z.bridge = w.bridge \cup {<<i, i>>} /\ z.edge = g
      /\ \A f \in DOMAIN w \ {"edge", "bridge", "mail"} : z[f] = w[f]
  BY <1>1 DEF OpenInner, Send, IsRecord, Fields
<1>4. /\ IsRecord(y) /\ DOMAIN y = DOMAIN w /\ y.mail = Append(Plain(w).mail, e)
      /\ y.bridge = w.bridge \cup {<<i, i>>} /\ y.edge = g
      /\ \A f \in DOMAIN w \ {"edge", "bridge", "mail"} : y[f] = Plain(w)[f]
  BY <1>1, <1>2 DEF OpenInner, Send, IsRecord, Fields
<1>5. IsWarm(y)
  BY <1>1, OpenFacts
<1>6. Hushed(e) = e
  BY Spoken DEF Asking
<1>7. g \in [Inner -> Edges] /\ g[i] = "running" /\ \A j \in Inner : j # i => g[j] = w.edge[j]
  BY <1>1 DEF Edges
<1> HIDE DEF z, y, g, e
<1>8. Hush(Append(w.mail, e)) = Append(Plain(w).mail, e)
  <2> DEFINE S == ToSet(w.mail)
             m == w.mail
  <2>1. m \in Seq(S) /\ Hush(m) = Plain(w).mail
    BY <1>1, <1>2
  <2> HIDE DEF S, m
  <2>2. Hush(Append(m, e)) = Append(Hush(m), Hushed(e))
    BY <2>1, HushFacts
  <2> QED
    BY <1>6, <2>1, <2>2 DEF m
<1>9. y = Plain(z)
  <2>1. z.callee = w.callee /\ y.callee = Plain(w).callee /\ y.relays = {} /\ y.asked = {}
    BY <1>1, <1>2, <1>3, <1>4 DEF IsRecord, Fields
  <2>2. y.mail = [n \in DOMAIN z.mail |-> Hushed(z.mail[n])]
    BY <1>3, <1>4, <1>8 DEF Hush
  <2>3. \A f \in DOMAIN z \ {"relays", "asked", "callee", "mail"} : y[f] = z[f]
    <3> TAKE f \in DOMAIN z \ {"relays", "asked", "callee", "mail"}
    <3>1. CASE f \in {"edge", "bridge"}
      BY <1>3, <1>4, <3>1
    <3>2. CASE f \notin {"edge", "bridge"}
      BY <1>2, <1>3, <1>4, <3>2
    <3> QED
      BY <3>1, <3>2
  <2>4. y.callee = [j \in Inner |-> Simple(z.callee[j])]
    BY <1>2, <2>1
  <2> QED
    BY <1>3, <1>4, <2>1, <2>2, <2>3, <2>4, PlainIs
<1>10. z.mail = w.mail \o <<e>> /\ z.mail \in Seq(ToSet(z.mail))
  <2> DEFINE S == ToSet(w.mail) \cup {e}
  <2>1. w.mail \in Seq(S) /\ e \in S
    BY <1>1, SeqWiden
  <2> HIDE DEF S
  <2>2. Append(w.mail, e) \in Seq(S) /\ Append(w.mail, e) = w.mail \o <<e>>
    BY <2>1
  <2> QED
    BY <1>3, <2>2, SeqOfOwn
<1>11. Sound(z)
  BY <1>3, <1>5, <1>9, <1>10 DEF Sound
<1> QED
  BY <1>3, <1>7, <1>9, <1>10, <1>11 DEF z, y, e, g

LEMMA OpenedKeeps ==
  ASSUME NEW w, NEW batch, Good(w, batch), w.open, AcceptsWork(w, Provide),
         NEW i \in Inner, w.edge[i] = "none",
         \A f \in Fork : FiberOf[f] = i => w.status[f] = "gone" /\ w.proxy[f] # "done",
         NEW u, IsRecord(u), DOMAIN u = DOMAIN w,
         u.edge = OpenInner(w, i, i).edge, u.bridge = OpenInner(w, i, i).bridge,
         u.mail = OpenInner(w, i, i).mail,
         u.running = w.running \cup ({i} \ {Continuation}),
         u.unstarted = (w.unstarted /\ i # Continuation),
         \A f \in DOMAIN w \ {"edge", "bridge", "mail", "running", "names", "unstarted"} : u[f] = w[f]
  PROVE  Good(u, batch)
<1> DEFINE z == OpenInner(w, i, i)
           e == Event("delegate", i, Own)
           q == <<e>>
<1>1. /\ Minded(w) /\ Consistent(Plain(w)) /\ AsksKept(w) /\ Routed(w) /\ Due(w) /\ WorkOk(w)
      /\ BatchOk(w, batch) /\ IsNursery(w) /\ Tended(w) /\ Sound(w)
      /\ IsRecord(w) /\ DOMAIN w = Fields \cup RegionFields
  BY GoodPoised, NurseryFacts DEF Good
<1>2. /\ Plain(z) = OpenInner(Plain(w), i, i) /\ Sound(z)
      /\ z.mail = w.mail \o q /\ z.bridge = w.bridge \cup {<<i, i>>}
      /\ z.edge \in [Inner -> Edges] /\ z.edge[i] = "running"
      /\ DOMAIN z = DOMAIN w /\ \A f \in DOMAIN w \ {"edge", "bridge", "mail"} : z[f] = w[f]
  <2>1. Plain(z) = OpenInner(Plain(w), i, i) /\ Sound(z)
    BY <1>1, PlainOpen
  <2>2. z.mail = w.mail \o q
    BY <1>1, PlainOpen
  <2>3. z.bridge = w.bridge \cup {<<i, i>>} /\ DOMAIN z = DOMAIN w
    BY <1>1, PlainOpen
  <2>4. z.edge \in [Inner -> Edges] /\ z.edge[i] = "running"
    <3>1. w.edge \in [Inner -> Edges] /\ z.edge = [w.edge EXCEPT ![i] = "running"]
      BY <1>1, SoundFacts DEF OpenInner, Send, IsRecord, Fields
    <3> QED
      BY <3>1 DEF Edges
  <2>5. \A f \in DOMAIN w \ {"edge", "bridge", "mail"} : z[f] = w[f]
    BY <1>1 DEF OpenInner, Send, IsRecord, Fields
  <2> QED
    BY <2>1, <2>2, <2>3, <2>4, <2>5
<1>3. \A j \in Inner : j # i => z.edge[j] = w.edge[j]
  <2>1. w.edge \in [Inner -> Edges] /\ z.edge = [w.edge EXCEPT ![i] = "running"]
    BY <1>1, SoundFacts DEF OpenInner, Send, IsRecord, Fields
  <2> QED
    BY <2>1 DEF Edges
<1>4. Consistent(Plain(z))
  <2>1. /\ Plain(w).edge = w.edge /\ Plain(w).status = w.status /\ Plain(w).held = w.held
    BY <1>1, PlainFacts
  <2>2. Plain(w).edge[i] = "none" /\ AcceptsWork(Plain(w), ParentOf[i])
    BY <2>1, RegionParts DEF AcceptsWork
  <2> QED
    BY <1>1, <1>2, <2>2, OpenKeeps
<1>5. w.callee[i] = "none"
  <2>1. Plain(w).edge = w.edge /\ Plain(w).callee = [j \in Inner |-> Simple(w.callee[j])] /\ InnerOk(Plain(w), i)
    BY <1>1, PlainFacts DEF Consistent
  <2> QED
    BY <2>1 DEF InnerOk, Simple
<1>6. /\ u.edge = z.edge /\ u.bridge = z.bridge /\ u.mail = z.mail
  OBVIOUS
<1>7. e.k \notin Asking /\ IsEvent(e) /\ q \in Seq(ToSet(q)) /\ ToSet(q) = {e}
  <2>1. e.k \notin Asking /\ IsEvent(e)
    BY EventFacts DEF Asking, EventKind
  <2>2. q \in Seq(ToSet(q)) /\ ToSet(q) = {e}
    BY DEF ToSet
  <2> QED
    BY <2>1, <2>2
<1> HIDE DEF z, q, e
<1>8. /\ u.status = w.status /\ u.settled = w.settled /\ u.held = w.held /\ u.relays = w.relays
      /\ u.staged = w.staged /\ u.raised = w.raised
      /\ u.proxy = w.proxy /\ u.asked = w.asked /\ u.callee = w.callee
      /\ u.mailbox = w.mailbox /\ u.told = w.told /\ u.arrived = w.arrived
      /\ u.emitted = w.emitted /\ u.open = w.open /\ u.watches = w.watches /\ u.waiter = w.waiter
  BY <1>1 DEF Fields, RegionFields
<1>9. /\ z.status = w.status /\ z.settled = w.settled /\ z.held = w.held
      /\ z.raised = w.raised /\ z.proxy = w.proxy /\ z.callee = w.callee
  BY <1>1, <1>2 DEF Fields
<1>10. /\ u.mail \in Seq(ToSet(u.mail)) /\ ToSet(u.mail) = ToSet(w.mail) \cup {e}
       /\ \A t : Has(w.mail, t) => Has(u.mail, t)
  <2> DEFINE S == ToSet(w.mail) \cup {e}
  <2>1. w.mail \in Seq(S) /\ q \in Seq(S)
    BY <1>1, <1>7, SeqWiden DEF IsNursery
  <2> HIDE DEF S
  <2>2. w.mail \o q \in Seq(S) /\ ToSet(w.mail \o q) = ToSet(w.mail) \cup ToSet(q)
    BY <2>1, ToSetConcat
  <2>3. u.mail \in Seq(ToSet(u.mail))
    BY <1>2, <1>6, <2>2, SeqOfOwn
  <2>4. \A t : Has(w.mail, t) => Has(u.mail, t)
    BY <1>2, <1>6, <2>2, HasIsIn
  <2> QED
    BY <1>2, <1>6, <1>7, <2>2, <2>3, <2>4
<1>11. Consistent(Plain(u)) /\ Sound(u)
  <2> DEFINE q0 == << >>
  <2>1. u.mail = z.mail \o q0 /\ q0 \in Seq(ToSet(q0)) /\ \A t \in ToSet(q0) : ~IsEvent(Hushed(t))
    BY <1>6, <1>10, ToSetEmpty
  <2>2. \A j \in Inner : Simple(u.callee[j]) = Simple(z.callee[j])
    BY <1>8, <1>9
  <2>3. Consistent(Plain(z)) /\ Sound(z) /\ IsRecord(u)
    BY <1>2, <1>4
  <2>4. /\ u.status = z.status /\ u.settled = z.settled /\ u.held = z.held /\ u.edge = z.edge
        /\ u.raised = z.raised /\ u.proxy = z.proxy
    BY <1>6, <1>8, <1>9
  <2> HIDE DEF q0
  <2> QED
    BY <2>1, <2>2, <2>3, <2>4, QuietKeeps
<1>12. IsNursery(u)
  <2>1. u = [f \in DOMAIN u |-> u[f]]
    BY DEF IsRecord
  <2>2. \A t \in ToSet(u.mail) : t.k \in Asking => t \in Speeches
    BY <1>1, <1>7, <1>10 DEF IsNursery
  <2>3. u.running \subseteq Fiber /\ u.unstarted \in BOOLEAN
    BY <1>1 DEF IsNursery, Fiber
  <2> QED
    BY <1>1, <1>8, <1>10, <2>1, <2>2, <2>3 DEF IsNursery
<1>13. /\ Alive(u, i) /\ u.edge[i] = "running"
       /\ \A j \in Inner : j # i => u.edge[j] = w.edge[j]
       /\ \A j \in Inner : w.edge[j] # "none" => j # i /\ u.edge[j] = w.edge[j]
  BY <1>2, <1>3, <1>6 DEF Alive
<1>14. Bridged(u)
  <2>1. \A b \in u.bridge : \E j \in Inner : b = <<j, j>>
    BY <1>1, <1>2, <1>6 DEF Tended, Bridged
  <2>2. ASSUME NEW j \in Inner PROVE <<j, j>> \in u.bridge <=> Alive(u, j)
    <3>1. CASE j = i
      BY <1>2, <1>6, <1>13, <3>1
    <3>2. CASE j # i
      <4>1. <<j, j>> # <<i, i>>
        BY <3>2
      <4> QED
        BY <1>1, <1>2, <1>6, <1>13, <3>2, <4>1 DEF Tended, Bridged, Alive
    <3> QED
      BY <3>1, <3>2
  <2> QED
    BY <2>1, <2>2 DEF Bridged
<1>15. Named(u)
  <2>1. Named(w)
    BY <1>1 DEF Tended
  <2>2. u.unstarted => u.edge[Continuation] = "none"
    BY <1>13, <2>1, RegionParts DEF Named
  <2>3. \A c \in Call : c # Provide /\ u.proxy[c] # "idle" => u.edge[Continuation] # "none"
    BY <1>8, <1>13, <2>1, RegionParts DEF Named
  <2>4. ASSUME NEW f \in Fork, u.edge[FiberOf[f]] # "none" PROVE u.status[f] = "gone"
    <3>1. FiberOf[f] \in Inner
      BY RegionAssumption DEF Fiber
    <3> QED
      BY <1>8, <1>13, <2>1, <2>4, <3>1 DEF Named
  <2> QED
    BY <1>8, <2>1, <2>2, <2>3, <2>4 DEF Named
<1>16. Truthful(u)
  <2> SUFFICES ASSUME NEW k \in Cancel, u.told[k] # None
               PROVE  u.status[k] # "none" /\ u.edge[Target[k]] # "running"
    BY DEF Truthful
  <2>1. w.status[k] # "none" /\ w.edge[Target[k]] # "running" /\ Target[k] \in Inner /\ k \in Call
    BY <1>1, <1>8, RegionParts, RegionAssumption DEF Tended, Truthful
  <2>2. Target[k] # i
    <3> SUFFICES ASSUME Target[k] = i PROVE FALSE
      OBVIOUS
    <3>1. w.proxy[k] # "idle"
      <4>1. CallOk(Plain(w), k) /\ Plain(w).proxy = w.proxy /\ Plain(w).status = w.status
        BY <1>1, <2>1, PlainFacts DEF Consistent
      <4> QED
        BY <2>1, <4>1 DEF CallOk
    <3>2. PICK f \in Fork : FiberOf[f] = Target[k] /\ w.proxy[f] = "done"
      BY <1>1, <3>1 DEF Tended, Named
    <3> QED
      BY <3>2
  <2> QED
    BY <1>8, <1>13, <2>1, <2>2
<1>17. InPlace(u)
  <2>1. \A x \in ToSet(u.arrived) : \E j \in Fiber : x \in {j, -j} /\ u.edge[j] # "none"
    BY <1>1, <1>8, <1>13 DEF Tended, InPlace, Fiber
  <2> QED
    BY <1>1, <1>8, <2>1 DEF Tended, InPlace
<1>18. Tended(u)
  <2>1. Childless(u) /\ Raising(u)
    BY <1>1, <1>8 DEF Tended, Childless, Raising, Live
  <2> QED
    BY <1>14, <1>15, <1>16, <1>17, <2>1 DEF Tended
<1>19. AsksKept(u)
  <2> SUFFICES ASSUME NEW j \in Fiber, u.callee[j] = "asking", u.edge[j] = "running" PROVE Heard(u, j)
    BY DEF AsksKept
  <2>1. j # i
    BY <1>5, <1>8
  <2>2. Heard(w, j)
    BY <1>1, <1>8, <1>13, <2>1 DEF AsksKept, Fiber
  <2>3. \A y \in Watch : Raised(w, j, y) => Raised(u, j, y)
    BY <1>8, <1>10 DEF Raised
  <2> QED
    BY <1>8, <1>10, <2>2, <2>3 DEF Heard
<1>20. Routed(u)
  <2>1. ASSUME NEW j \in Fiber PROVE Alive(u, j) <=> j \in u.running /\ u.edge[j] # "retired"
    <3>1. CASE j = i
      BY <1>13, <3>1 DEF Fiber
    <3>2. CASE j # i
      BY <1>1, <1>13, <3>2 DEF Routed, Alive, Fiber
    <3> QED
      BY <3>1, <3>2
  <2>2. ASSUME NEW j \in Fiber, u.waiter[j] # None
        PROVE  Target[u.waiter[j]] = j /\ Live(u, u.waiter[j]) /\ u.edge[j] \in {"cancelling", "retired"}
    <3>1. Target[w.waiter[j]] = j /\ Live(w, w.waiter[j]) /\ w.edge[j] \in {"cancelling", "retired"}
      BY <1>1, <1>8, <2>2 DEF Routed
    <3> QED
      BY <1>8, <1>13, <3>1 DEF Live, Fiber
  <2>3. /\ Live(u, Provide) /\ \A y \in ToSet(u.watches) : Live(u, y)
    BY <1>1, <1>8 DEF Routed, Live
  <2> QED
    BY <1>8, <2>1, <2>2, <2>3 DEF Routed
<1>21. Due(u)
  BY <1>1, <1>8, <1>10 DEF Due, Relays
<1>22. WorkOk(u)
  <2>1. StagedOk(u)
    <3>1. StagedOk(w)
      BY <1>1 DEF WorkOk
    <3> QED
      BY <1>8, <1>13, <3>1 DEF StagedOk
  <2>2. ASSUME NEW t \in ToSet(u.mail), ~IsEvent(t) PROVE Originated(u, t)
    <3>1. Originated(w, t)
      BY <1>1, <1>7, <1>10, <2>2 DEF WorkOk
    <3>2. \A j \in Fiber : w.edge[j] = "retired" => u.edge[j] = "retired"
      BY <1>13 DEF Fiber
    <3> QED
      BY <1>8, <3>1, <3>2 DEF Originated
  <2> QED
    BY <2>1, <2>2 DEF WorkOk
<1>23. BatchOk(u, batch)
  BY <1>1, <1>8 DEF BatchOk
<1>24. Kept(u)
  BY <1>11, <1>12, <1>18, <1>19, MindedKept
<1> QED
  BY <1>20, <1>21, <1>22, <1>23, <1>24 DEF Good, Runs

-----------------------------------------------------------------------------
(* A call without children ends at once.                                   *)

\* Whatever was recorded of a call, its drop forgets.
LEMMA DropForgets ==
  ASSUME NEW w, NEW v, IsRecord(w), IsRecord(v), DOMAIN v = DOMAIN w, NEW c \in Call,
         w.settled \in [Call -> BOOLEAN], v.settled \in [Call -> BOOLEAN],
         w.held \in [Call -> Outcomes \cup {"nothing"}], v.held \in [Call -> Outcomes \cup {"nothing"}],
         \A d \in Call : d # c => v.settled[d] = w.settled[d] /\ v.held[d] = w.held[d],
         \A f \in DOMAIN w \ {"settled", "held"} : v[f] = w[f]
  PROVE  Drop(v, c) = Drop(w, c)
<1> DEFINE y == Drop(w, c)
           z == Drop(v, c)
           changed == {"status", "settled", "held", "relays", "bridge"}
<1>1. /\ IsRecord(y) /\ DOMAIN y = DOMAIN w /\ y.status = [w.status EXCEPT ![c] = "gone"]
      /\ y.settled = [w.settled EXCEPT ![c] = FALSE] /\ y.held = [w.held EXCEPT ![c] = "nothing"]
      /\ y.relays = {r \in w.relays : r[1] # c} /\ y.bridge = {b \in w.bridge : ParentOf[b[1]] # c}
      /\ \A f \in DOMAIN w \ changed : y[f] = w[f]
  BY DEF IsRecord, Fields, Drop
<1>2. /\ IsRecord(z) /\ DOMAIN z = DOMAIN v /\ z.status = [v.status EXCEPT ![c] = "gone"]
      /\ z.settled = [v.settled EXCEPT ![c] = FALSE] /\ z.held = [v.held EXCEPT ![c] = "nothing"]
      /\ z.relays = {r \in v.relays : r[1] # c} /\ z.bridge = {b \in v.bridge : ParentOf[b[1]] # c}
      /\ \A f \in DOMAIN v \ changed : z[f] = v[f]
  BY DEF IsRecord, Fields, Drop
<1>3. v.status = w.status /\ v.relays = w.relays /\ v.bridge = w.bridge
  BY DEF IsRecord, Fields
<1> HIDE DEF y, z
<1>4. z.settled = y.settled /\ z.held = y.held
  <2>1. [v.settled EXCEPT ![c] = FALSE] = [w.settled EXCEPT ![c] = FALSE]
    OBVIOUS
  <2>2. [v.held EXCEPT ![c] = "nothing"] = [w.held EXCEPT ![c] = "nothing"]
    OBVIOUS
  <2> QED
    BY <1>1, <1>2, <2>1, <2>2
<1>5. z.status = y.status /\ z.relays = y.relays /\ z.bridge = y.bridge
  BY <1>1, <1>2, <1>3
<1>6. \A f \in DOMAIN z : z[f] = y[f]
  <2> SUFFICES ASSUME NEW f \in DOMAIN w PROVE z[f] = y[f]
    BY <1>2
  <2>1. CASE f \in changed
    BY <1>4, <1>5, <2>1
  <2>2. CASE f \notin changed
    <3>1. z[f] = v[f] /\ y[f] = w[f]
      BY <1>1, <1>2, <2>2
    <3> QED
      BY <2>2, <3>1
  <2> QED
    BY <2>1, <2>2
<1>7. z = y
  BY <1>1, <1>2, <1>6, SameRecord
<1> QED
  BY <1>7 DEF z, y

\* Nobody has to be told.
LEMMA NoneToStop ==
  ASSUME NEW w, IsRecord(w), w.mail \in Seq(ToSet(w.mail)), w.edge \in [Inner -> Edges],
         NEW c \in Call, Children(c) = {}
  PROVE  TerminateChildren(w, c) = w
<1> DEFINE R == {i \in Children(c) : w.edge[i] = "running"}
           q == [n \in 1..Cardinality(R) |-> Event("terminate", Ascending(R)[n], Own)]
           g == [i \in Inner |-> IF i \in R THEN "cancelling" ELSE w.edge[i]]
           u == TerminateChildren(w, c)
<1>1. R = {}
  OBVIOUS
<1>2. g = w.edge
  BY <1>1
<1>3. q = << >>
  <2>1. Cardinality(R) = 0
    BY <1>1, FS_EmptySet
  <2>2. DOMAIN q = {}
    BY <2>1
  <2> QED
    BY <2>2
<1>4. u = [w EXCEPT !.edge = g, !.mail = w.mail \o q]
  BY DEF TerminateChildren, IsRecord, Fields
<1> HIDE DEF u, g, q
<1>5. w.mail \o q = w.mail
  <2>1. w.mail \o << >> = w.mail
    OBVIOUS
  <2> QED
    BY <1>3, <2>1
<1>6. [w EXCEPT !.edge = w.edge, !.mail = w.mail] = w
  BY DEF IsRecord, Fields
<1>7. u = w
  BY <1>2, <1>4, <1>5, <1>6
<1> QED
  BY <1>7 DEF u

LEMMA AloneEnds ==
  ASSUME NEW w, IsRecord(w), w.mail \in Seq(ToSet(w.mail)), w.edge \in [Inner -> Edges],
         w.status \in [Call -> Statuses], w.settled \in [Call -> BOOLEAN],
         w.held \in [Call -> Outcomes \cup {"nothing"}],
         NEW c \in Call, Children(c) = {}, Live(w, c)
  PROVE  Complete(w, c, "result")
           = Send(Drop(w, c), IF w.status[c] = "cancelling" THEN "terminateAck" ELSE "delegateAck", c, Own)
<1>1. ASSUME NEW k, NEW v, IsRecord(v), DOMAIN v = DOMAIN w,
             v.settled \in [Call -> BOOLEAN], v.held \in [Call -> Outcomes \cup {"nothing"}],
             \A d \in Call : d # c => v.settled[d] = w.settled[d] /\ v.held[d] = w.held[d],
             \A f \in DOMAIN w \ {"settled", "held"} : v[f] = w[f]
      PROVE  Drop(Send(v, k, c, Own), c) = Send(Drop(w, c), k, c, Own)
  <2> DEFINE a == Send(v, k, c, Own)
             b == Send(w, k, c, Own)
             e == Event(k, c, Own)
  <2>1. /\ IsRecord(a) /\ DOMAIN a = DOMAIN v /\ a.mail = Append(v.mail, e)
        /\ \A f \in DOMAIN v \ {"mail"} : a[f] = v[f]
    BY <1>1 DEF IsRecord, Fields, Send
  <2>2. /\ IsRecord(b) /\ DOMAIN b = DOMAIN w /\ b.mail = Append(w.mail, e)
        /\ \A f \in DOMAIN w \ {"mail"} : b[f] = w[f]
    BY DEF IsRecord, Fields, Send
  <2>3. v.mail = w.mail
    BY <1>1 DEF IsRecord, Fields
  <2> HIDE DEF a, b, e
  <2>4. /\ a.settled = v.settled /\ a.held = v.held /\ b.settled = w.settled /\ b.held = w.held
        /\ a.mail = b.mail
    BY <1>1, <2>1, <2>2, <2>3 DEF IsRecord, Fields
  <2>5. \A f \in DOMAIN b \ {"settled", "held"} : a[f] = b[f]
    BY <1>1, <2>1, <2>2, <2>4
  <2>6. Drop(a, c) = Drop(b, c)
    BY <1>1, <2>1, <2>2, <2>4, <2>5, DropForgets
  <2>7. Drop(Send(w, k, c, Own), c) = Send(Drop(w, c), k, c, Own)
    BY DEF Drop, Send, IsRecord, Fields
  <2> QED
    BY <2>6, <2>7 DEF a, b
<1>2. CASE w.status[c] = "cancelling"
  <2> DEFINE v == [w EXCEPT !.settled[c] = TRUE]
  <2>1. /\ IsRecord(v) /\ DOMAIN v = DOMAIN w /\ v.settled = [w.settled EXCEPT ![c] = TRUE]
        /\ v.held = w.held /\ v.status = w.status /\ v.edge = w.edge
        /\ \A f \in DOMAIN w \ {"settled", "held"} : v[f] = w[f]
    BY DEF IsRecord, Fields
  <2>2. Complete(w, c, "result") = MaybeSettle(v, c)
    BY <1>2 DEF Complete, Live
  <2> HIDE DEF v
  <2>3. v.settled \in [Call -> BOOLEAN] /\ v.settled[c] /\ \A d \in Call : d # c => v.settled[d] = w.settled[d]
    BY <2>1
  <2>4. MaybeSettle(v, c) = Drop(Send(v, "terminateAck", c, Own), c)
    BY <1>2, <2>1, <2>3 DEF MaybeSettle, Live, Draining
  <2>5. Drop(Send(v, "terminateAck", c, Own), c) = Send(Drop(w, c), "terminateAck", c, Own)
    BY <1>1, <2>1, <2>3
  <2> QED
    BY <1>2, <2>2, <2>4, <2>5
<1>3. CASE w.status[c] # "cancelling"
  <2> DEFINE v == [w EXCEPT !.held[c] = "result"]
             y == [v EXCEPT !.held[c] = "nothing"]
  <2>1. /\ IsRecord(v) /\ DOMAIN v = DOMAIN w /\ v.held = [w.held EXCEPT ![c] = "result"]
        /\ v.settled = w.settled /\ v.status = w.status /\ v.edge = w.edge /\ v.mail = w.mail
        /\ \A f \in DOMAIN w \ {"settled", "held"} : v[f] = w[f]
    BY DEF IsRecord, Fields
  <2>2. Complete(w, c, "result") = MaybeSettle(TerminateChildren(v, c), c)
    BY <1>3 DEF Complete, Live
  <2> HIDE DEF v
  <2>3. /\ IsRecord(y) /\ DOMAIN y = DOMAIN v /\ y.held = [v.held EXCEPT ![c] = "nothing"]
        /\ y.settled = v.settled /\ \A f \in DOMAIN v \ {"settled", "held"} : y[f] = v[f]
    BY <2>1 DEF IsRecord, Fields
  <2>4. TerminateChildren(v, c) = v
    BY <2>1, NoneToStop
  <2>5. MaybeSettle(v, c) = Settled(v, c)
    BY <1>3, <2>1 DEF MaybeSettle, Live, Draining
  <2>6. v.held[c] = "result" /\ \A d \in Call : d # c => v.held[d] = w.held[d]
    BY <2>1
  <2>7. Settled(v, c) = Drop(Send(y, "delegateAck", c, Own), c)
    BY <2>6 DEF Settled
  <2> HIDE DEF y
  <2>8. /\ y.held \in [Call -> Outcomes \cup {"nothing"}] /\ y.settled \in [Call -> BOOLEAN]
        /\ \A d \in Call : d # c => y.settled[d] = w.settled[d] /\ y.held[d] = w.held[d]
    BY <2>1, <2>3, <2>6
  <2>9. \A f \in DOMAIN w \ {"settled", "held"} : y[f] = w[f]
    BY <2>1, <2>3
  <2>10. Drop(Send(y, "delegateAck", c, Own), c) = Send(Drop(w, c), "delegateAck", c, Own)
    BY <1>1, <2>1, <2>3, <2>8, <2>9
  <2> QED
    BY <1>3, <2>2, <2>4, <2>5, <2>7, <2>10
<1> QED
  BY <1>2, <1>3

LEMMA DropAlone ==
  ASSUME NEW p, Consistent(p), NEW c \in Call, Children(c) = {}, Live(p, c)
  PROVE  Consistent(Drop(p, c))
<1> DEFINE u == Drop(p, c)
<1>1. IsWarm(p) /\ p.status \in [Call -> Statuses] /\ p.held \in [Call -> Outcomes \cup {"nothing"}]
  BY DEF Consistent, IsWarm
<1>2. /\ IsWarm(u) /\ u.status = [p.status EXCEPT ![c] = "gone"]
      /\ u.held = [p.held EXCEPT ![c] = "nothing"]
      /\ u.edge = p.edge /\ u.proxy = p.proxy /\ u.callee = p.callee
      /\ u.asked = p.asked /\ u.mail = p.mail
  BY <1>1, DropFacts
<1>3. \A r : r \in u.relays <=> r \in p.relays /\ r[1] # c
  BY <1>1, DropRelays
<1> HIDE DEF u
<1>4. \A i \in Inner : ParentOf[i] # c
  BY DEF Children
<1>5. ASSUME NEW d \in Call PROVE CallOk(u, d) /\ HeldOk(u, d)
  <2>1. CallOk(p, d) /\ HeldOk(p, d)
    BY DEF Consistent
  <2>2. CASE d = c
    BY <1>1, <1>2, <2>1, <2>2 DEF CallOk, HeldOk, Live
  <2>3. CASE d # c
    BY <1>1, <1>2, <2>1, <2>3 DEF CallOk, HeldOk
  <2> QED
    BY <2>2, <2>3
<1>6. ASSUME NEW i \in Inner PROVE InnerOk(u, i) /\ Wound(u, i) /\ AskOk(u, i)
  <2>1. InnerOk(p, i) /\ Wound(p, i) /\ AskOk(p, i) /\ ParentOf[i] \in Call /\ ParentOf[i] # c
    BY <1>4, SomeLetters DEF Consistent
  <2>2. InnerOk(u, i)
    BY <1>2, <2>1 DEF InnerOk
  <2>3. Wound(u, i)
    BY <1>1, <1>2, <2>1 DEF Wound
  <2>4. AskOk(u, i)
    BY <1>2, <1>3, <2>1 DEF AskOk, AskMoves
  <2> QED
    BY <2>2, <2>3, <2>4
<1>7. Consistent(u)
  BY <1>2, <1>5, <1>6 DEF Consistent
<1> QED
  BY <1>7 DEF u

\* A fork is dropped when its fiber is there.
LEMMA ForkDropped ==
  ASSUME NEW w, NEW batch, Good(w, batch), NEW f \in Fork, Live(w, f)
  PROVE  Good(Drop(w, f), batch)
<1> DEFINE u == Drop(w, f)
<1>1. /\ Poised(w, batch) /\ Sound(w) /\ Consistent(Plain(w)) /\ Tended(w) /\ Minded(w)
      /\ w.status \in [Call -> Statuses] /\ w.held \in [Call -> Outcomes \cup {"nothing"}]
  BY GoodPoised, SoundFacts
<1>2. /\ f \in Call /\ f # Provide /\ f \notin Watch /\ Children(f) = {} /\ w.status[f] # "none"
  BY RegionParts, RegionAssumption DEF Live
<1>3. Plain(u) = Drop(Plain(w), f) /\ Sound(u) /\ Steps(w, u)
  BY <1>1, <1>2, StepsDrop
<1>4. ~Draining(w, f)
  BY <1>2 DEF Draining
<1>5. Bridged(w) => Bridged(u)
  BY <1>1, <1>2, <1>4, DropBridged
<1>6. /\ u.status = [w.status EXCEPT ![f] = "gone"] /\ u.held = [w.held EXCEPT ![f] = "nothing"]
  BY <1>1, SoundFacts DEF Drop, IsRecord, Fields
<1>7. Live(Plain(w), f)
  <2>1. Plain(w).status = w.status
    BY <1>1, PlainFacts, SoundFacts
  <2> QED
    BY <2>1 DEF Live
<1>8. Consistent(Drop(Plain(w), f))
  BY <1>1, <1>2, <1>7, DropAlone
<1> HIDE DEF u
<1>9. Works(w, u, f)
  BY <1>1, <1>2, <1>3, <1>5, <1>6 DEF Works
<1>10. WatchesStay(w, u)
  BY <1>2, <1>9, OthersStay
<1>11. \A d \in Call : d # Provide => u.held[d] = "nothing"
  BY <1>1, <1>2, <1>6 DEF Tended, Childless
<1>12. Dropped(w, u) \subseteq Fork \cup Roster
  BY <1>1, <1>2, <1>6 DEF Dropped, Live
<1>13. Good(u, batch)
  BY <1>1, <1>2, <1>3, <1>8, <1>9, <1>10, <1>11, <1>12, WorksGood
<1> QED
  BY <1>13 DEF u

-----------------------------------------------------------------------------
(* The continuation begins.                                                *)

LEMMA ContinuationStart ==
  ASSUME NEW w, NEW batch, Good(w, batch), w.status[Provide] = "running" => w.open
  PROVE  Good(OnDropCall(w, StartContinuation(w)), batch)
<1>1. /\ Tended(w) /\ IsNursery(w) /\ IsRecord(w) /\ DOMAIN w = Fields \cup RegionFields
      /\ Provide \in Call /\ Provide \notin Watch /\ Continuation \in Inner
  BY GoodPoised, NurseryFacts, RegionParts, RegionAssumption
<1>2. CASE ~w.unstarted
  <2>1. StartContinuation(w) = w
    BY <1>2 DEF StartContinuation
  <2> QED
    BY <2>1, TurnEnds
<1>3. CASE w.unstarted /\ Provide \in Malformed
  <2>1. StartContinuation(w) = Complete(w, Provide, "failure")
    BY <1>3 DEF StartContinuation
  <2> QED
    BY <1>1, <2>1, CompleteGood DEF Outcomes
<1>4. CASE w.unstarted /\ Provide \notin Malformed /\ ~AcceptsWork(w, Provide)
  <2>1. StartContinuation(w) = w
    BY <1>4 DEF StartContinuation
  <2> QED
    BY <2>1, TurnEnds
<1>5. CASE w.unstarted /\ Provide \notin Malformed /\ AcceptsWork(w, Provide)
  <2> DEFINE i == Continuation
             z == OpenInner(w, i, i)
             u == StartContinuation(w)
  <2>1. u = [z EXCEPT !.unstarted = FALSE]
    BY <1>5 DEF StartContinuation
  <2>2. /\ IsRecord(z) /\ DOMAIN z = DOMAIN w
        /\ \A f \in DOMAIN w \ {"edge", "bridge", "mail"} : z[f] = w[f]
    BY <1>1 DEF OpenInner, Send, IsRecord, Fields
  <2> HIDE DEF z
  <2>3. /\ IsRecord(u) /\ DOMAIN u = DOMAIN w /\ u.unstarted = FALSE
        /\ \A f \in DOMAIN w \ {"unstarted"} : u[f] = z[f]
    <3>1. "unstarted" \in DOMAIN z
      BY <1>1, <2>2 DEF RegionFields
    <3> HIDE DEF u
    <3> QED
      BY <2>1, <2>2, <3>1 DEF IsRecord
  <2>4. /\ u.edge = z.edge /\ u.bridge = z.bridge /\ u.mail = z.mail
        /\ u.running = w.running /\ \A f \in DOMAIN w \ {"edge", "bridge", "mail", "unstarted"} : u[f] = w[f]
    BY <1>1, <2>2, <2>3 DEF Fields, RegionFields
  <2> HIDE DEF u
  <2>5. /\ w.open /\ w.edge[i] = "none"
    BY <1>1, <1>5 DEF AcceptsWork, Tended, Named
  <2>6. \A f \in Fork : FiberOf[f] # i
    BY RegionAssumption DEF Fiber
  <2>7. u.running = w.running \cup ({i} \ {Continuation}) /\ u.unstarted = (w.unstarted /\ i # Continuation)
    BY <2>3, <2>4
  <2>8. Good(u, batch)
    BY <1>1, <1>5, <2>3, <2>4, <2>5, <2>6, <2>7, OpenedKeeps DEF z
  <2> QED
    BY <2>8, TurnEnds DEF u
<1> QED
  BY <1>2, <1>3, <1>4, <1>5

-----------------------------------------------------------------------------
(* A fiber is forked.                                                      *)

\* The fiber of a fork that is there, running and named.
Forked(w, i) == [OpenInner(w, i, i) EXCEPT !.running = @ \cup {i}, !.names = @ \cup {i}]

LEMMA ForkedFacts ==
  ASSUME NEW w, IsRecord(w), DOMAIN w = Fields \cup RegionFields, NEW i
  PROVE  LET u == Forked(w, i)
         IN /\ IsRecord(u) /\ DOMAIN u = DOMAIN w
            /\ u.edge = OpenInner(w, i, i).edge /\ u.bridge = OpenInner(w, i, i).bridge
            /\ u.mail = OpenInner(w, i, i).mail
            /\ u.running = w.running \cup {i} /\ u.names = w.names \cup {i}
            /\ \A f \in DOMAIN w \ {"edge", "bridge", "mail", "running", "names"} : u[f] = w[f]
<1> DEFINE z == OpenInner(w, i, i)
           u == Forked(w, i)
<1>1. /\ IsRecord(z) /\ DOMAIN z = DOMAIN w
      /\ z.edge = [w.edge EXCEPT ![i] = "running"] /\ z.bridge = w.bridge \cup {<<i, i>>}
      /\ z.mail = Append(w.mail, Event("delegate", i, Own))
      /\ \A f \in DOMAIN w \ {"edge", "bridge", "mail"} : z[f] = w[f]
  BY DEF OpenInner, Send, IsRecord, Fields
<1>2. u = [z EXCEPT !.running = @ \cup {i}, !.names = @ \cup {i}]
  BY DEF Forked
<1> HIDE DEF z, u
<1>3. "running" \in DOMAIN z /\ "names" \in DOMAIN z /\ z.running = w.running /\ z.names = w.names
  BY <1>1 DEF RegionFields
<1>4. /\ IsRecord(u) /\ DOMAIN u = DOMAIN w /\ u.running = w.running \cup {i} /\ u.names = w.names \cup {i}
      /\ \A f \in DOMAIN w \ {"running", "names"} : u[f] = z[f]
  BY <1>1, <1>2, <1>3 DEF IsRecord
<1>5. u.edge = z.edge /\ u.bridge = z.bridge /\ u.mail = z.mail
  BY <1>1, <1>4 DEF Fields
<1>6. \A f \in DOMAIN w \ {"edge", "bridge", "mail", "running", "names"} : u[f] = w[f]
  BY <1>1, <1>4
<1> QED
  BY <1>1, <1>4, <1>5, <1>6 DEF z, u

\* The fork is answered when its fiber is there, and is then no more.
LEMMA ForkedDropped ==
  ASSUME NEW w, Minded(w), NEW i \in Inner, NEW c \in Call, c # Provide
  PROVE  Drop(Forked(w, i), c) = Forked(Drop(w, c), i)
<1> DEFINE a == Forked(w, i)
           b == Drop(w, c)
           y == Drop(a, c)
           z == Forked(b, i)
           own == {"edge", "mail", "running", "names"}
           other == {"status", "settled", "held", "relays", "bridge"}
<1>1. IsRecord(w) /\ DOMAIN w = Fields \cup RegionFields /\ ParentOf[i] # c
  BY NurseryFacts, RegionParts
<1>2. /\ IsRecord(a) /\ DOMAIN a = DOMAIN w
      /\ a.edge = [w.edge EXCEPT ![i] = "running"] /\ a.bridge = w.bridge \cup {<<i, i>>}
      /\ a.mail = Append(w.mail, Event("delegate", i, Own))
      /\ a.running = w.running \cup {i} /\ a.names = w.names \cup {i}
      /\ \A f \in DOMAIN w \ {"edge", "bridge", "mail", "running", "names"} : a[f] = w[f]
  <2>1. IsRecord(w) /\ DOMAIN w = Fields \cup RegionFields
    BY <1>1
  <2>2. LET o == OpenInner(w, i, i)
        IN /\ o.edge = [w.edge EXCEPT ![i] = "running"] /\ o.bridge = w.bridge \cup {<<i, i>>}
           /\ o.mail = Append(w.mail, Event("delegate", i, Own))
    BY <2>1 DEF OpenInner, Send, IsRecord, Fields
  <2>3. /\ IsRecord(a) /\ DOMAIN a = DOMAIN w
        /\ a.edge = OpenInner(w, i, i).edge /\ a.bridge = OpenInner(w, i, i).bridge
        /\ a.mail = OpenInner(w, i, i).mail
        /\ a.running = w.running \cup {i} /\ a.names = w.names \cup {i}
        /\ \A f \in DOMAIN w \ {"edge", "bridge", "mail", "running", "names"} : a[f] = w[f]
    BY <2>1, ForkedFacts
  <2> QED
    BY <2>2, <2>3
<1>3. /\ IsRecord(b) /\ DOMAIN b = DOMAIN w /\ b.status = [w.status EXCEPT ![c] = "gone"]
      /\ b.settled = [w.settled EXCEPT ![c] = FALSE] /\ b.held = [w.held EXCEPT ![c] = "nothing"]
      /\ b.relays = {r \in w.relays : r[1] # c} /\ b.bridge = {x \in w.bridge : ParentOf[x[1]] # c}
      /\ \A f \in DOMAIN w \ other : b[f] = w[f]
  BY <1>1 DEF IsRecord, Fields, Drop
<1> HIDE DEF a, b
<1>4. /\ IsRecord(y) /\ DOMAIN y = DOMAIN a /\ y.status = [a.status EXCEPT ![c] = "gone"]
      /\ y.settled = [a.settled EXCEPT ![c] = FALSE] /\ y.held = [a.held EXCEPT ![c] = "nothing"]
      /\ y.relays = {r \in a.relays : r[1] # c} /\ y.bridge = {x \in a.bridge : ParentOf[x[1]] # c}
      /\ \A f \in DOMAIN a \ other : y[f] = a[f]
  BY <1>2 DEF IsRecord, Fields, Drop
<1>5. /\ IsRecord(z) /\ DOMAIN z = DOMAIN b
      /\ z.edge = [b.edge EXCEPT ![i] = "running"] /\ z.bridge = b.bridge \cup {<<i, i>>}
      /\ z.mail = Append(b.mail, Event("delegate", i, Own))
      /\ z.running = b.running \cup {i} /\ z.names = b.names \cup {i}
      /\ \A f \in DOMAIN b \ {"edge", "bridge", "mail", "running", "names"} : z[f] = b[f]
  <2>1. IsRecord(b) /\ DOMAIN b = Fields \cup RegionFields
    BY <1>1, <1>3
  <2>2. LET o == OpenInner(b, i, i)
        IN /\ o.edge = [b.edge EXCEPT ![i] = "running"] /\ o.bridge = b.bridge \cup {<<i, i>>}
           /\ o.mail = Append(b.mail, Event("delegate", i, Own))
    BY <2>1 DEF OpenInner, Send, IsRecord, Fields
  <2>3. /\ IsRecord(z) /\ DOMAIN z = DOMAIN b
        /\ z.edge = OpenInner(b, i, i).edge /\ z.bridge = OpenInner(b, i, i).bridge
        /\ z.mail = OpenInner(b, i, i).mail
        /\ z.running = b.running \cup {i} /\ z.names = b.names \cup {i}
        /\ \A f \in DOMAIN b \ {"edge", "bridge", "mail", "running", "names"} : z[f] = b[f]
    BY <2>1, ForkedFacts
  <2> QED
    BY <2>2, <2>3
<1> HIDE DEF y, z
<1>6. /\ a.status = w.status /\ a.settled = w.settled /\ a.held = w.held /\ a.relays = w.relays
      /\ b.edge = w.edge /\ b.mail = w.mail /\ b.running = w.running /\ b.names = w.names
  BY <1>1, <1>2, <1>3 DEF Fields, RegionFields
<1>7. /\ y.edge = a.edge /\ y.mail = a.mail /\ y.running = a.running /\ y.names = a.names
      /\ z.status = b.status /\ z.settled = b.settled /\ z.held = b.held /\ z.relays = b.relays
  BY <1>1, <1>2, <1>3, <1>4, <1>5 DEF Fields, RegionFields
<1>8. y.bridge = z.bridge
  <2>1. \A x : x \in y.bridge <=> x \in w.bridge \cup {<<i, i>>} /\ ParentOf[x[1]] # c
    BY <1>2, <1>4
  <2>2. \A x : x \in z.bridge <=> (x \in w.bridge /\ ParentOf[x[1]] # c) \/ x = <<i, i>>
    BY <1>3, <1>5
  <2>3. ParentOf[(<<i, i>>)[1]] # c
    BY <1>1
  <2>4. \A x : x \in y.bridge <=> x \in z.bridge
    BY <2>1, <2>2, <2>3
  <2> QED
    BY <2>4
<1>9. \A f \in DOMAIN y : y[f] = z[f]
  <2> SUFFICES ASSUME NEW f \in DOMAIN w PROVE y[f] = z[f]
    BY <1>2, <1>4
  <2>1. CASE f \in own \cup other
    <3>1. /\ y.edge = z.edge /\ y.mail = z.mail /\ y.running = z.running /\ y.names = z.names
      BY <1>2, <1>5, <1>6, <1>7
    <3>2. /\ y.status = z.status /\ y.settled = z.settled /\ y.held = z.held /\ y.relays = z.relays
      BY <1>3, <1>4, <1>6, <1>7
    <3> QED
      BY <1>8, <2>1, <3>1, <3>2
  <2>2. CASE f \notin own \cup other
    <3>1. y[f] = a[f] /\ z[f] = b[f]
      BY <1>2, <1>3, <1>4, <1>5, <2>2
    <3>2. a[f] = w[f] /\ b[f] = w[f]
      BY <1>2, <1>3, <2>2
    <3> QED
      BY <3>1, <3>2
  <2> QED
    BY <2>1, <2>2
<1>10. y = z
  BY <1>2, <1>3, <1>4, <1>5, <1>9, SameRecord
<1> QED
  BY <1>10 DEF y, z, a, b

\* The answer of a call that is gone.
LEMMA GoneAnswers ==
  ASSUME NEW v, NEW batch, Good(v, batch), NEW c \in Call, v.status[c] = "gone",
         NEW k \in {"delegateAck", "terminateAck"}
  PROVE  Good(Send(v, k, c, Own), batch)
<1> DEFINE e == Event(k, c, Own)
           u == Send(v, k, c, Own)
           q == <<e>>
<1>1. /\ Minded(v) /\ Routed(v) /\ WorkOk(v) /\ Due(v) /\ BatchOk(v, batch) /\ Sound(v)
      /\ Consistent(Plain(v)) /\ AsksKept(v) /\ Tended(v) /\ IsNursery(v)
      /\ IsRecord(v) /\ DOMAIN v = Fields \cup RegionFields
      /\ v.callee \in [Inner -> Callees \cup {"failed"}] /\ v.asked \subseteq Call \X (Asks \cup {Own})
  BY GoodPoised, NurseryFacts DEF Good
<1>2. IsEvent(e) /\ e.k \notin Asking /\ Hushed(e) = e /\ e \in Letters
  BY EventFacts, SomeLetters, Spoken DEF Asking, EventKind
<1>3. /\ Plain(u) = Send(Plain(v), k, c, Own) /\ IsRecord(u) /\ DOMAIN u = DOMAIN v
      /\ u.mail = Append(v.mail, e) /\ \A f \in DOMAIN v \ {"mail"} : u[f] = v[f]
  BY <1>1, <1>2, PlainSend
<1>4. Consistent(Send(Plain(v), k, c, Own))
  <2>1. Plain(v).status[c] = "gone" /\ c \notin Inner
    BY <1>1, PlainFacts, OwnFacts
  <2> QED
    BY <1>1, <1>2, <2>1, SendKeeps
<1>5. /\ Append(v.mail, e) = v.mail \o q /\ q \in Seq(ToSet(q)) /\ ToSet(q) = {e}
      /\ \A t : Has(Append(v.mail, e), t) <=> Has(v.mail, t) \/ t = e
  BY <1>1, OneMore
<1> HIDE DEF e, u, q
<1>6. /\ u.status = v.status /\ u.edge = v.edge /\ u.proxy = v.proxy /\ u.unstarted = v.unstarted
      /\ u.callee = v.callee /\ u.asked = v.asked /\ u.relays = v.relays
      /\ u.mailbox = v.mailbox /\ u.emitted = v.emitted
  BY <1>1, <1>3 DEF Fields, RegionFields
<1>7. Named(u)
  BY <1>1, <1>6 DEF Tended, Named
<1>8. AsksKept(u)
  <2>1. \A t : Has(v.mail, t) => Has(u.mail, t)
    BY <1>3, <1>5
  <2> QED
    BY <1>1, <1>6, <2>1, MoreMail
<1>9. \A t \in ToSet(q) : IsEvent(t) /\ (t.k \in Asking => t \in Speeches)
  BY <1>2, <1>5
<1>10. u.mail = v.mail \o q /\ Consistent(Plain(u))
  BY <1>3, <1>4, <1>5
<1>11. \A f \in DOMAIN v \ {"proxy", "asked", "mail"} : u[f] = v[f]
  BY <1>3
<1>12. Good(u, batch)
  BY <1>1, <1>3, <1>5, <1>6, <1>7, <1>8, <1>9, <1>10, <1>11, ThreadKeeps
<1> QED
  BY <1>12 DEF u

LEMMA ForkStart ==
  ASSUME NEW w, NEW batch, Good(w, batch), NEW f \in Fork, Live(w, f)
  PROVE  Good(OnDropCall(w, StartFork(w, f)), batch)
<1> DEFINE i == FiberOf[f]
           k == IF w.status[f] = "cancelling" THEN "terminateAck" ELSE "delegateAck"
           d == Drop(w, f)
           o == Forked(d, i)
           a == Forked(w, i)
<1>1. /\ Minded(w) /\ Tended(w) /\ Sound(w) /\ Consistent(Plain(w))
      /\ IsRecord(w) /\ DOMAIN w = Fields \cup RegionFields
      /\ w.status \in [Call -> Statuses] /\ w.edge \in [Inner -> Edges] /\ w.mail \in Seq(ToSet(w.mail))
      /\ w.settled \in [Call -> BOOLEAN] /\ w.held \in [Call -> Outcomes \cup {"nothing"}]
  BY GoodPoised, NurseryFacts
<1>2. /\ f \in Call /\ f # Provide /\ f \notin Watch /\ Children(f) = {} /\ i \in Fiber /\ i \in Inner
      /\ i # Continuation
  BY RegionParts, RegionAssumption DEF Fiber
<1>3. CASE ~w.open \/ f \in Malformed \/ ~AcceptsWork(w, Provide)
  <2>1. StartFork(w, f) = Complete(w, f, "failure")
    BY <1>3 DEF StartFork
  <2> QED
    BY <1>2, <2>1, CompleteGood DEF Outcomes
<1>4. CASE w.open /\ f \notin Malformed /\ AcceptsWork(w, Provide)
  <2>1. StartFork(w, f) = Complete(a, f, "result")
    BY <1>4 DEF StartFork, Forked
  <2>2. Good(d, batch)
    BY <1>2, ForkDropped
  <2>3. /\ IsRecord(d) /\ DOMAIN d = DOMAIN w /\ d.status = [w.status EXCEPT ![f] = "gone"]
        /\ d.held = [w.held EXCEPT ![f] = "nothing"] /\ d.edge = w.edge /\ d.proxy = w.proxy
        /\ d.open = w.open /\ d.unstarted = w.unstarted
    BY <1>1 DEF Drop, IsRecord, Fields, RegionFields
  <2> HIDE DEF d
  <2>4. d.status[f] = "gone" /\ d.open /\ AcceptsWork(d, Provide)
    BY <1>1, <1>2, <1>4, <2>3 DEF AcceptsWork
  <2>5. d.edge[i] = "none" /\ w.proxy[f] # "done"
    <3>1. CallOk(Plain(w), f) /\ Plain(w).proxy = w.proxy /\ Plain(w).status = w.status
      BY <1>1, <1>2, PlainFacts DEF Consistent
    <3> QED
      BY <1>1, <2>3, <3>1 DEF Tended, Named, Live, CallOk
  <2>6. \A g \in Fork : FiberOf[g] = i => d.status[g] = "gone" /\ d.proxy[g] # "done"
    BY <2>3, <2>4, <2>5, RegionAssumption
  <2>7. /\ IsRecord(o) /\ DOMAIN o = DOMAIN d
        /\ o.edge = OpenInner(d, i, i).edge /\ o.bridge = OpenInner(d, i, i).bridge
        /\ o.mail = OpenInner(d, i, i).mail /\ o.running = d.running \cup {i}
        /\ \A g \in DOMAIN d \ {"edge", "bridge", "mail", "running", "names"} : o[g] = d[g]
    <3>1. IsRecord(d) /\ DOMAIN d = Fields \cup RegionFields
      BY <1>1, <2>3
    <3> HIDE DEF i
    <3> QED
      BY <3>1, ForkedFacts
  <2> HIDE DEF o
  <2>8. Good(o, batch)
    <3>1. o.unstarted = d.unstarted /\ d.unstarted \in BOOLEAN
      BY <1>1, <2>2, <2>3, <2>7, GoodPoised DEF RegionFields, IsNursery
    <3>2. /\ o.running = d.running \cup ({i} \ {Continuation})
          /\ o.unstarted = (d.unstarted /\ i # Continuation)
      BY <1>2, <2>7, <3>1
    <3>3. \A g \in DOMAIN d \ {"edge", "bridge", "mail", "running", "names", "unstarted"} : o[g] = d[g]
      BY <2>7
    <3> HIDE DEF i
    <3> QED
      BY <1>2, <2>2, <2>4, <2>5, <2>6, <2>7, <3>2, <3>3, OpenedKeeps
  <2>9. o.status[f] = "gone" /\ k \in {"delegateAck", "terminateAck"}
    BY <1>1, <2>3, <2>4, <2>7 DEF Fields
  <2>10. Good(Send(o, k, f, Own), batch)
    <3> HIDE DEF k
    <3> QED
      BY <1>2, <2>8, <2>9, GoneAnswers
  <2>11. Complete(a, f, "result") = Send(o, k, f, Own)
    <3>1. /\ IsRecord(a) /\ DOMAIN a = DOMAIN w /\ a.edge = OpenInner(w, i, i).edge
          /\ a.mail = OpenInner(w, i, i).mail
          /\ \A g \in DOMAIN w \ {"edge", "bridge", "mail", "running", "names"} : a[g] = w[g]
      <4>1. IsRecord(w) /\ DOMAIN w = Fields \cup RegionFields
        BY <1>1
      <4> HIDE DEF i
      <4> QED
        BY <4>1, ForkedFacts
    <3> HIDE DEF a
    <3>2. a.status = w.status /\ a.settled = w.settled /\ a.held = w.held
      BY <1>1, <3>1 DEF Fields
    <3>3. /\ OpenInner(w, i, i).edge = [w.edge EXCEPT ![i] = "running"]
          /\ OpenInner(w, i, i).mail = Append(w.mail, Event("delegate", i, Own))
      BY <1>1 DEF OpenInner, Send, IsRecord, Fields
    <3>4. a.edge \in [Inner -> Edges]
      BY <1>1, <3>1, <3>3 DEF Edges
    <3>5. a.mail \in Seq(ToSet(a.mail))
      <4> DEFINE e == Event("delegate", i, Own)
                 S == ToSet(w.mail) \cup {e}
      <4>1. w.mail \in Seq(S) /\ e \in S
        BY <1>1, SeqWiden
      <4> HIDE DEF S, e
      <4>2. Append(w.mail, e) \in Seq(S)
        BY <4>1
      <4>3. a.mail \in Seq(S)
        BY <3>1, <3>3, <4>2 DEF e
      <4> QED
        BY <4>3, SeqOfOwn
    <3>6. Live(a, f)
      BY <3>2 DEF Live
    <3>7. Complete(a, f, "result")
            = Send(Drop(a, f), IF a.status[f] = "cancelling" THEN "terminateAck" ELSE "delegateAck", f, Own)
      BY <1>1, <1>2, <3>1, <3>2, <3>4, <3>5, <3>6, AloneEnds
    <3>8. Drop(a, f) = o
      BY <1>1, <1>2, ForkedDropped DEF a, o, d
    <3> QED
      BY <3>2, <3>7, <3>8
  <2>12. Good(StartFork(w, f), batch)
    BY <2>1, <2>10, <2>11
  <2> QED
    BY <2>12, TurnEnds
<1> QED
  BY <1>3, <1>4

-----------------------------------------------------------------------------
(* The turn that starts a call.                                            *)

LEMMA StartGood ==
  ASSUME NEW w, NEW batch, Good(w, batch), NEW c \in Call,
         c = Provide /\ w.status[c] = "running" => w.open
  PROVE  Good(OnDropCall(w, Start(w, c)), batch)
<1>1. CASE ~Live(w, c)
  <2>1. Start(w, c) = w
    BY <1>1 DEF Start
  <2> QED
    BY <2>1, TurnEnds
<1>2. CASE Live(w, c) /\ c = Provide
  <2>1. Start(w, c) = StartContinuation(w)
    BY <1>2, RegionAssumption DEF Start
  <2> QED
    BY <1>2, <2>1, ContinuationStart
<1>3. CASE Live(w, c) /\ c \in Fork
  <2>1. Start(w, c) = StartFork(w, c)
    BY <1>3, RegionAssumption DEF Start
  <2> QED
    BY <1>3, <2>1, ForkStart
<1>4. CASE Live(w, c) /\ c \in Cancel
  <2>1. Start(w, c) = StartCancelById(w, c)
    BY <1>4, RegionAssumption DEF Start
  <2> QED
    BY <1>4, <2>1, CancelStart
<1>5. CASE Live(w, c) /\ c \in Watch
  <2>1. Start(w, c) = StartWatch(w, c)
    BY <1>5, RegionAssumption DEF Start
  <2> QED
    BY <1>5, <2>1, WatchStart
<1>6. CASE Live(w, c) /\ c \in Roster
  <2>1. Start(w, c) = StartRoster(w, c)
    BY <1>6, RegionAssumption DEF Start
  <2> QED
    BY <1>6, <2>1, RosterStart
<1> QED
  BY <1>1, <1>2, <1>3, <1>4, <1>5, <1>6, RegionAssumption

LEMMA StartTurns ==
  ASSUME NEW w, NEW batch, Good(w, batch), w.mail # << >>, NEW t, t = Head(w.mail), t.k = "start"
  PROVE  Good(OnDropCall(Rest(w), Start(Rest(w), t.d)), batch)
<1> DEFINE v == Rest(w)
<1>1. Good(v, batch)
  BY TakenGood DEF Asking, PumpDue, Work
<1>2. ~IsEvent(t) /\ Originated(w, t) /\ v.status = w.status /\ v.open = w.open
  <2>1. t \in ToSet(w.mail) /\ v.status = w.status /\ v.open = w.open
    BY TakenKeeps, GoodPoised, NurseryFacts DEF Good, Fields, RegionFields
  <2>2. ~IsEvent(t)
    BY DEF IsEvent, EventKind
  <2> QED
    BY <2>1, <2>2, GoodPoised DEF WorkOk
<1>3. PICK c \in Call : t = Work("start", c) /\ (c = Provide /\ w.status[c] = "running" => w.open)
  <2>1. /\ t # Work("pump", Provide) /\ (\A c, o : t # Completion(c, o)) /\ \A i : t # Work("retire", i)
    BY DEF Work, Completion
  <2> QED
    BY <1>2, <2>1 DEF Originated
<1>4. t.d = c
  BY <1>3 DEF Work
<1> HIDE DEF v
<1>5. Good(OnDropCall(v, Start(v, c)), batch)
  BY <1>1, <1>2, <1>3, StartGood
<1> QED
  BY <1>4, <1>5 DEF v

-----------------------------------------------------------------------------
(* What a commit keeps, and what a load finds.                             *)

\* What the calls hear, they hear in the plain state.
LEMMA HushOrder ==
  ASSUME NEW S, NEW m \in Seq(S)
  PROVE  /\ \A e : IsEvent(e) => (Has(Hush(m), e) <=> Has(m, e) /\ Hushed(e) = e)
         /\ \A e, f : IsEvent(e) /\ IsEvent(f) =>
              (Precedes(Hush(m), e, f) <=> Precedes(m, e, f) /\ Hushed(e) = e /\ Hushed(f) = f)
<1>1. DOMAIN Hush(m) = DOMAIN m /\ \A n \in DOMAIN m : Hush(m)[n] = Hushed(m[n])
  BY DEF Hush
<1>2. \A t, e : IsEvent(e) => (Hushed(t) = e <=> t = e /\ Hushed(e) = e)
  BY DEF Hushed, IsEvent, EventKind, Work
<1> QED
  BY <1>1, <1>2 DEF Has, Precedes

\* The same words in the same order, and less of what memory holds.
SameWords(m, n) ==
  \A e : IsEvent(e) =>
    /\ Has(n, e) <=> Has(m, e)
    /\ \A f : IsEvent(f) => (Precedes(n, e, f) <=> Precedes(m, e, f))

LEMMA SameWordsKeep ==
  ASSUME NEW w, Sound(w), Consistent(Plain(w)), NEW u, IsRecord(u),
         u.status = w.status, u.edge = w.edge, u.raised = w.raised, u.proxy = w.proxy,
         u.callee = w.callee, u.settled \in [Call -> BOOLEAN],
         u.held \in [Call -> Outcomes \cup {"nothing"}],
         \A c \in Call : u.held[c] \in {"nothing", w.held[c]},
         u.mail \in Seq(ToSet(u.mail)), SameWords(w.mail, u.mail)
  PROVE  Consistent(Plain(u)) /\ Sound(u)
<1> DEFINE p == Plain(w)
           q == Plain(u)
<1>1. /\ IsRecord(w) /\ w.mail \in Seq(ToSet(w.mail)) /\ IsWarm(p)
  BY SoundFacts DEF Sound
<1>2. /\ p.relays = {} /\ p.asked = {} /\ p.callee = [i \in Inner |-> Simple(w.callee[i])]
      /\ p.status = w.status /\ p.settled = w.settled /\ p.held = w.held /\ p.edge = w.edge
      /\ p.raised = w.raised /\ p.proxy = w.proxy /\ p.mail = Hush(w.mail)
  BY <1>1, PlainFacts DEF Hush
<1>3. /\ IsRecord(q) /\ q.relays = {} /\ q.asked = {} /\ q.callee = [i \in Inner |-> Simple(u.callee[i])]
      /\ q.status = u.status /\ q.settled = u.settled /\ q.held = u.held /\ q.edge = u.edge
      /\ q.raised = u.raised /\ q.proxy = u.proxy /\ q.mail = Hush(u.mail)
  BY PlainFacts DEF Hush
<1> HIDE DEF p, q
<1>4. /\ \A e : IsEvent(e) => (Has(q.mail, e) <=> Has(p.mail, e))
      /\ \A e, f : IsEvent(e) /\ IsEvent(f) => (Precedes(q.mail, e, f) <=> Precedes(p.mail, e, f))
  <2>1. /\ \A e : IsEvent(e) => (Has(p.mail, e) <=> Has(w.mail, e) /\ Hushed(e) = e)
        /\ \A e, f : IsEvent(e) /\ IsEvent(f) =>
             (Precedes(p.mail, e, f) <=> Precedes(w.mail, e, f) /\ Hushed(e) = e /\ Hushed(f) = f)
    BY <1>1, <1>2, HushOrder
  <2>2. /\ \A e : IsEvent(e) => (Has(q.mail, e) <=> Has(u.mail, e) /\ Hushed(e) = e)
        /\ \A e, f : IsEvent(e) /\ IsEvent(f) =>
             (Precedes(q.mail, e, f) <=> Precedes(u.mail, e, f) /\ Hushed(e) = e /\ Hushed(f) = f)
    BY <1>3, HushOrder
  <2> QED
    BY <2>1, <2>2 DEF SameWords
<1>5. IsMail(q.mail)
  <2>1. q.mail \in Seq({Hushed(t) : t \in ToSet(u.mail)})
    BY <1>3, HushFacts
  <2>2. q.mail \in Seq(ToSet(q.mail))
    BY <2>1, SeqOfOwn
  <2>3. \A t \in ToSet(q.mail) : IsEvent(t) => t \in Letters
    BY <1>1, <1>4, HasIsIn DEF IsWarm, IsMail
  <2> QED
    BY <2>2, <2>3 DEF IsMail
<1>6. IsWarm(q)
  <2>1. q.callee = p.callee
    BY <1>2, <1>3
  <2>2. q = [f \in DOMAIN q |-> q[f]] /\ Fields \subseteq DOMAIN q
    BY <1>3 DEF IsRecord
  <2>3. /\ q.status \in [Call -> Statuses] /\ q.settled \in [Call -> BOOLEAN]
        /\ q.held \in [Call -> Outcomes \cup {"nothing"}] /\ q.edge \in [Inner -> Edges]
        /\ q.raised \in [Call -> Nat] /\ q.proxy \in [Call -> Proxies] /\ q.callee \in [Inner -> Callees]
    BY <1>1, <1>2, <1>3, <2>1 DEF IsWarm
  <2> QED
    BY <1>3, <1>5, <2>2, <2>3 DEF IsWarm
<1>7. Consistent(q)
  <2>1. /\ q.status = p.status /\ q.edge = p.edge /\ q.relays = p.relays /\ q.proxy = p.proxy
        /\ q.asked = p.asked /\ q.callee = p.callee
        /\ \A c \in Call : q.held[c] \in {"nothing", p.held[c]}
    BY <1>2, <1>3
  <2>2. Consistent(p)
    BY DEF p
  <2> QED
    BY <1>4, <1>6, <2>1, <2>2, SameLettersKeep
<1>8. Sound(u)
  BY <1>6 DEF Sound, q
<1> QED
  BY <1>7, <1>8 DEF q

\* What memory holds of a nursery, beside its rows.
Volatile == {"settled", "held", "staged", "mail", "open", "running", "watches", "waiter"}

LEMMA SameNursery ==
  ASSUME NEW w, Kept(w), NEW u, IsRecord(u), DOMAIN u = DOMAIN w,
         \A f \in DOMAIN w \ Volatile : u[f] = w[f],
         u.settled \in [Call -> BOOLEAN], u.held \in [Call -> Outcomes \cup {"nothing"}],
         \A c \in Call : u.held[c] \in {"nothing", w.held[c]},
         u.open \in BOOLEAN, u.running \subseteq Fiber, u.watches \in Seq(Watch),
         u.waiter \in [Fiber -> Cancel \cup {None}],
         u.mail \in Seq(ToSet(u.mail)), SameWords(w.mail, u.mail)
  PROVE  Kept(u)
<1>1. /\ Minded(w) /\ IsNursery(w) /\ Consistent(Plain(w)) /\ Tended(w) /\ AsksKept(w) /\ Sound(w)
      /\ DOMAIN w = Fields \cup RegionFields
  BY KeptMinded, NurseryFacts DEF Kept, Minded
<1>2. /\ u.status = w.status /\ u.relays = w.relays /\ u.edge = w.edge /\ u.bridge = w.bridge
      /\ u.raised = w.raised /\ u.proxy = w.proxy /\ u.asked = w.asked /\ u.callee = w.callee
      /\ u.mailbox = w.mailbox /\ u.names = w.names /\ u.unstarted = w.unstarted
      /\ u.told = w.told /\ u.arrived = w.arrived /\ u.emitted = w.emitted
  BY <1>1 DEF Fields, RegionFields, Volatile
<1>3. Consistent(Plain(u)) /\ Sound(u)
  BY <1>1, <1>2, SameWordsKeep
<1>4. IsNursery(u)
  <2>1. \A t \in ToSet(u.mail) : t.k \in Asking => t \in Speeches
    <3> SUFFICES ASSUME NEW t \in ToSet(u.mail), t.k \in Asking PROVE t \in Speeches
      OBVIOUS
    <3>1. IsEvent(t)
      BY DEF Asking, IsEvent, EventKind
    <3>2. Has(w.mail, t)
      BY <3>1, HasIsIn DEF SameWords
    <3> QED
      BY <1>1, <3>2, HasIsIn DEF IsNursery
  <2>2. u = [f \in DOMAIN u |-> u[f]]
    BY DEF IsRecord
  <2> QED
    BY <1>1, <1>2, <2>1, <2>2 DEF IsNursery
<1>5. Tended(u)
  <2>1. Bridged(u) /\ Named(u) /\ Truthful(u) /\ InPlace(u) /\ Raising(u)
    <3>1. Bridged(u) /\ Named(u) /\ Truthful(u)
      BY <1>1, <1>2 DEF Tended, Bridged, Alive, Named, Truthful
    <3>2. InPlace(u) /\ Raising(u)
      BY <1>1, <1>2 DEF Tended, InPlace, Raising, Live
    <3> QED
      BY <3>1, <3>2
  <2>2. Childless(u)
    BY <1>1, <1>2 DEF Tended, Childless
  <2> QED
    BY <2>1, <2>2 DEF Tended
<1>6. AsksKept(u)
  <2>1. \A t : t.k \in Asking /\ Has(w.mail, t) => Has(u.mail, t)
    BY DEF SameWords, Asking, IsEvent, EventKind
  <2> QED
    BY <1>1, <1>2, <2>1, LessMail
<1> QED
  BY <1>3, <1>4, <1>5, <1>6 DEF Kept

LEMMA CommitKeeps ==
  ASSUME NEW w, Kept(w)
  PROVE  Kept(RegionDurable(w)) /\ Committed(RegionDurable(w))
<1> DEFINE u == RegionDurable(w)
           N == {n \in DOMAIN w.mail : IsEvent(w.mail[n])}
<1>1. /\ IsNursery(w) /\ Minded(w) /\ IsRecord(w) /\ DOMAIN w = Fields \cup RegionFields
      /\ w.mail \in Seq(ToSet(w.mail))
  BY KeptMinded, NurseryFacts DEF Minded
<1>2. /\ IsRecord(u) /\ DOMAIN u = DOMAIN w
      /\ u.settled = [c \in Call |-> FALSE] /\ u.held = [c \in Call |-> "nothing"]
      /\ u.staged = << >> /\ u.mail = EventsOf(w.mail)
      /\ u.open = FALSE /\ u.running = {} /\ u.watches = << >>
      /\ u.waiter = [i \in Fiber |-> None]
      /\ \A f \in DOMAIN w \ Volatile : u[f] = w[f]
  <2> DEFINE a == Durable(w)
  <2>1. /\ IsRecord(a) /\ DOMAIN a = DOMAIN w
        /\ a.settled = [c \in Call |-> FALSE] /\ a.held = [c \in Call |-> "nothing"]
        /\ a.staged = << >> /\ a.mail = EventsOf(w.mail)
        /\ \A f \in DOMAIN w \ {"settled", "held", "staged", "mail"} : a[f] = w[f]
    BY <1>1 DEF Durable, IsRecord, Fields
  <2>2. u = ResetRouting(a)
    BY DEF RegionDurable
  <2> HIDE DEF a, u
  <2>3. /\ IsRecord(u) /\ DOMAIN u = DOMAIN a
        /\ u.open = FALSE /\ u.running = {} /\ u.watches = << >>
        /\ u.waiter = [i \in Fiber |-> None]
        /\ \A f \in DOMAIN a \ {"open", "running", "watches", "waiter"} : u[f] = a[f]
    BY <1>1, <2>1, <2>2 DEF ResetRouting, IsRecord, RegionFields
  <2>4. u.settled = a.settled /\ u.held = a.held /\ u.staged = a.staged /\ u.mail = a.mail
    BY <2>1, <2>3 DEF IsRecord, Fields
  <2>5. \A f \in DOMAIN w \ Volatile : u[f] = w[f]
    BY <2>1, <2>3 DEF Volatile
  <2> QED
    BY <2>1, <2>3, <2>4, <2>5
<1> HIDE DEF u
<1>3. /\ u.mail \in Seq(ToSet(w.mail))
      /\ \A e : Has(u.mail, e) <=> \E n \in N : w.mail[n] = e
      /\ \A e, f : Precedes(u.mail, e, f) <=> \E m, n \in N : m < n /\ w.mail[m] = e /\ w.mail[n] = f
  <2>1. u.mail = Picked(w.mail, N)
    BY <1>2 DEF EventsOf
  <2> HIDE DEF N
  <2>2. N \in SUBSET DOMAIN w.mail
    BY DEF N
  <2> QED
    BY <1>1, <2>1, <2>2, PickedFacts
<1>4. SameWords(w.mail, u.mail)
  <2> SUFFICES ASSUME NEW e, IsEvent(e)
               PROVE  /\ Has(u.mail, e) <=> Has(w.mail, e)
                      /\ \A f : IsEvent(f) => (Precedes(u.mail, e, f) <=> Precedes(w.mail, e, f))
    BY DEF SameWords
  <2>1. Has(u.mail, e) <=> Has(w.mail, e)
    BY <1>3 DEF Has
  <2>2. ASSUME NEW f, IsEvent(f) PROVE Precedes(u.mail, e, f) <=> Precedes(w.mail, e, f)
    <3>1. Precedes(u.mail, e, f) <=> \E m, n \in N : m < n /\ w.mail[m] = e /\ w.mail[n] = f
      BY <1>3
    <3>2. Precedes(w.mail, e, f) <=> \E m, n \in N : m < n /\ w.mail[m] = e /\ w.mail[n] = f
      BY <2>2 DEF Precedes
    <3> QED
      BY <3>1, <3>2
  <2> QED
    BY <2>1, <2>2
<1>5. u.mail \in Seq(ToSet(u.mail)) /\ \A t \in ToSet(u.mail) : IsEvent(t)
  <2>1. \A t \in ToSet(u.mail) : IsEvent(t)
    BY <1>3, HasIsIn
  <2>2. u.mail \in Seq(ToSet(u.mail))
    BY <1>3, SeqOfOwn
  <2> QED
    BY <2>1, <2>2
<1>6. Kept(u)
  <2>1. /\ u.settled \in [Call -> BOOLEAN] /\ u.held \in [Call -> Outcomes \cup {"nothing"}]
        /\ \A c \in Call : u.held[c] \in {"nothing", w.held[c]}
    BY <1>2
  <2>2. u.waiter \in [Fiber -> Cancel \cup {None}]
    <3>1. u.waiter = [i \in Fiber |-> None]
      BY <1>2
    <3> QED
      BY <3>1
  <2>3. u.watches \in Seq(Watch) /\ u.running \subseteq Fiber /\ u.open \in BOOLEAN
    <3>1. u.watches = << >> /\ u.running = {} /\ u.open = FALSE
      BY <1>2
    <3>2. u.open \in BOOLEAN
      BY <3>1
    <3>3. u.watches \in Seq(Watch)
      BY <3>1
    <3> QED
      BY <3>1, <3>2, <3>3
  <2> QED
    BY <1>2, <1>4, <1>5, <2>1, <2>2, <2>3, SameNursery
<1>7. Committed(u)
  BY <1>2, <1>5 DEF Committed
<1> QED
  BY <1>6, <1>7 DEF u

\* Work of the reactor's own changes none of the words.
LEMMA WorkSame ==
  ASSUME NEW A, NEW m \in Seq(A), NEW B, NEW q \in Seq(B), \A t \in B : ~IsEvent(t)
  PROVE  /\ m \o q \in Seq(A \cup B) /\ ToSet(m \o q) = ToSet(m) \cup ToSet(q)
         /\ SameWords(m, m \o q) /\ SameWords(m, q \o m)
<1> DEFINE S == A \cup B
<1>1. m \in Seq(S) /\ q \in Seq(S) /\ ToSet(q) \subseteq B
  BY SeqWiden, SeqOfOwn
<1> HIDE DEF S
<1>2. m \o q \in Seq(S) /\ ToSet(m \o q) = ToSet(m) \cup ToSet(q)
  BY <1>1, ToSetConcat
<1>3. \A e : IsEvent(e) => ~Has(q, e)
  BY <1>1, HasIsIn
<1>4. SameWords(m, m \o q)
  <2> SUFFICES ASSUME NEW e, IsEvent(e)
               PROVE  /\ Has(m \o q, e) <=> Has(m, e)
                      /\ \A f : IsEvent(f) => (Precedes(m \o q, e, f) <=> Precedes(m, e, f))
    BY DEF SameWords
  <2>1. /\ Has(m \o q, e) <=> Has(m, e) \/ Has(q, e)
        /\ \A f : Precedes(m \o q, e, f) <=>
             Precedes(m, e, f) \/ Precedes(q, e, f) \/ (Has(m, e) /\ Has(q, f))
    BY <1>1, OrderConcat
  <2>2. \A f : Precedes(q, e, f) => Has(q, e)
    BY OrderHas
  <2> QED
    BY <1>3, <2>1, <2>2
<1>5. SameWords(m, q \o m)
  <2> SUFFICES ASSUME NEW e, IsEvent(e)
               PROVE  /\ Has(q \o m, e) <=> Has(m, e)
                      /\ \A f : IsEvent(f) => (Precedes(q \o m, e, f) <=> Precedes(m, e, f))
    BY DEF SameWords
  <2>1. /\ Has(q \o m, e) <=> Has(q, e) \/ Has(m, e)
        /\ \A f : Precedes(q \o m, e, f) <=>
             Precedes(q, e, f) \/ Precedes(m, e, f) \/ (Has(q, e) /\ Has(m, f))
    BY <1>1, OrderConcat
  <2>2. \A f : Precedes(q, e, f) => Has(q, e)
    BY OrderHas
  <2> QED
    BY <1>3, <2>1, <2>2
<1> QED
  BY <1>2, <1>4, <1>5 DEF S

-----------------------------------------------------------------------------
(* After a commit.                                                         *)

\* The work that a commit schedules.
Chores(w, batch) ==
  {Work("start", t.d) : t \in {e \in ToSet(batch) : e.k = "delegate" /\ Live(w, e.d)}}
    \cup {Completion(t.d, "cancelled") :
            t \in {e \in ToSet(batch) : e.k = "terminate" /\ w.status[e.d] = "cancelling"}}
    \cup {Delivery(s) : s \in ToSet(w.staged)}

LEMMA ChoresFacts ==
  ASSUME NEW w, NEW batch, Good(w, batch), NEW t \in Chores(w, batch)
  PROVE  /\ ~IsEvent(t)
         /\ \/ \E c \in Call : /\ t = Work("start", c) /\ w.status[c] # "none"
                               /\ c = Provide => Event("delegate", Provide, Own) \in ToSet(batch)
            \/ \E c \in Call, o \in Outcomes :
                 t = Completion(c, o) /\ (c # Provide => w.status[c] \in {"cancelling", "gone"})
            \/ \E i \in Fiber : t = Work("retire", i) /\ w.edge[i] = "retired"
<1>1. BatchOk(w, batch) /\ StagedOk(w)
  BY GoodPoised DEF Good, WorkOk
<1>2. ASSUME NEW e \in ToSet(batch), e.k = "delegate", Live(w, e.d), t = Work("start", e.d)
      PROVE  /\ ~IsEvent(t)
             /\ \E c \in Call : /\ t = Work("start", c) /\ w.status[c] # "none"
                                /\ c = Provide => Event("delegate", Provide, Own) \in ToSet(batch)
  <2>1. e.d \in Call /\ e = Event("delegate", e.d, Own)
    BY <1>1, <1>2 DEF BatchOk
  <2>2. ~IsEvent(t)
    BY <1>2 DEF IsEvent, EventKind, Work
  <2> QED
    BY <1>2, <2>1, <2>2 DEF Live
<1>3. ASSUME NEW e \in ToSet(batch), e.k = "terminate", w.status[e.d] = "cancelling",
             t = Completion(e.d, "cancelled")
      PROVE  /\ ~IsEvent(t)
             /\ \E c \in Call, o \in Outcomes :
                  t = Completion(c, o) /\ (c # Provide => w.status[c] \in {"cancelling", "gone"})
  <2>1. e.d \in Call
    BY <1>1, <1>3 DEF BatchOk
  <2> QED
    BY <1>3, <2>1, CompletionFacts DEF Outcomes
<1>4. ASSUME NEW s \in ToSet(w.staged), t = Delivery(s)
      PROVE  /\ ~IsEvent(t)
             /\ \/ \E c \in Call, o \in Outcomes :
                     t = Completion(c, o) /\ (c # Provide => w.status[c] \in {"cancelling", "gone"})
                \/ \E i \in Fiber : t = Work("retire", i) /\ w.edge[i] = "retired"
  <2>1. s.inner \in Inner /\ w.edge[s.inner] = "retired" /\ s.outcome \in Outcomes
    BY <1>1 DEF StagedOk
  <2>2. CASE s.inner = Continuation
    BY <1>4, <2>1, <2>2, CompletionFacts, RegionParts DEF Delivery
  <2>3. CASE s.inner # Continuation
    BY <1>4, <2>1, <2>3 DEF Delivery, Fiber, IsEvent, EventKind, Work
  <2> QED
    BY <2>2, <2>3
<1> QED
  <2>1. CASE t \in {Work("start", e.d) : e \in {e \in ToSet(batch) : e.k = "delegate" /\ Live(w, e.d)}}
    <3>1. PICK e \in ToSet(batch) : e.k = "delegate" /\ Live(w, e.d) /\ t = Work("start", e.d)
      BY <2>1
    <3> QED
      BY <1>2, <3>1
  <2>2. CASE t \in {Completion(e.d, "cancelled") :
                      e \in {e \in ToSet(batch) : e.k = "terminate" /\ w.status[e.d] = "cancelling"}}
    <3>1. PICK e \in ToSet(batch) : /\ e.k = "terminate" /\ w.status[e.d] = "cancelling"
                                    /\ t = Completion(e.d, "cancelled")
      BY <2>2
    <3> QED
      BY <1>3, <3>1
  <2>3. CASE \E s \in ToSet(w.staged) : t = Delivery(s)
    <3>1. PICK s \in ToSet(w.staged) : t = Delivery(s)
      BY <2>3
    <3> QED
      BY <1>4, <3>1
  <2> QED
    BY <2>1, <2>2, <2>3 DEF Chores

\* Work that comes with a commit, and the scope it may open.
LEMMA ChoresGood ==
  ASSUME NEW w, NEW batch, Good(w, batch), NEW q \in Seq(Chores(w, batch)), NEW opens \in BOOLEAN,
         opens <=> Live(w, Provide) /\ Event("delegate", Provide, Own) \in ToSet(batch),
         NEW u, IsRecord(u), DOMAIN u = DOMAIN w, u.mail = w.mail \o q, u.staged = << >>,
         u.open = (w.open \/ opens), u.running = IF opens THEN {} ELSE w.running,
         \A f \in DOMAIN w \ {"mail", "staged", "open", "running"} : u[f] = w[f]
  PROVE  Good(u, << >>)
<1> DEFINE C == Chores(w, batch)
<1>1. /\ Kept(w) /\ Routed(w) /\ Due(w) /\ WorkOk(w) /\ BatchOk(w, batch) /\ IsNursery(w) /\ Tended(w)
      /\ IsRecord(w) /\ DOMAIN w = Fields \cup RegionFields /\ w.mail \in Seq(ToSet(w.mail))
      /\ w.settled \in [Call -> BOOLEAN] /\ w.held \in [Call -> Outcomes \cup {"nothing"}]
  BY GoodPoised, NurseryFacts DEF Good
<1>2. /\ u.status = w.status /\ u.settled = w.settled /\ u.held = w.held /\ u.edge = w.edge
      /\ u.watches = w.watches /\ u.waiter = w.waiter /\ u.mailbox = w.mailbox
  BY <1>1 DEF Fields, RegionFields
<1>3. \A t \in C : ~IsEvent(t)
  BY ChoresFacts
<1> HIDE DEF C
<1>4. /\ u.mail \in Seq(ToSet(w.mail) \cup C) /\ ToSet(u.mail) = ToSet(w.mail) \cup ToSet(q)
      /\ SameWords(w.mail, u.mail) /\ ToSet(q) \subseteq C
  <2>1. q \in Seq(C)
    BY DEF C
  <2>2. ToSet(q) \subseteq C
    BY <2>1, SeqOfOwn
  <2> DEFINE m == w.mail
             A == ToSet(w.mail)
  <2>3. m \in Seq(A)
    BY <1>1
  <2>4. ToSet(m) = A /\ u.mail = m \o q
    OBVIOUS
  <2> HIDE DEF m, A
  <2>5. SameWords(m, m \o q)
    BY <1>3, <2>1, <2>3, WorkSame
  <2> DEFINE S == A \cup C
  <2>6. m \in Seq(S) /\ q \in Seq(S)
    BY <2>1, <2>3, SeqWiden
  <2> HIDE DEF S
  <2>7. m \o q \in Seq(S) /\ ToSet(m \o q) = ToSet(m) \cup ToSet(q)
    BY <2>6, ToSetConcat
  <2>8. u.mail \in Seq(S) /\ ToSet(u.mail) = ToSet(m) \cup ToSet(q) /\ SameWords(m, u.mail)
    BY <2>4, <2>5, <2>7
  <2> QED
    BY <2>2, <2>4, <2>8 DEF m, A, S
<1>5. u.mail \in Seq(ToSet(u.mail))
  BY <1>4, SeqOfOwn
<1>6. opens => ~w.open /\ \A i \in Inner : w.edge[i] = "none"
  BY <1>1 DEF BatchOk
<1>7. Kept(u)
  <2>1. /\ \A f \in DOMAIN w \ Volatile : u[f] = w[f]
        /\ \A c \in Call : u.held[c] \in {"nothing", w.held[c]}
    BY <1>2 DEF Volatile
  <2>2. u.watches \in Seq(Watch) /\ u.waiter \in [Fiber -> Cancel \cup {None}] /\ u.running \subseteq Fiber
    BY <1>1, <1>2 DEF IsNursery
  <2>3. u.open \in BOOLEAN
    BY <1>1 DEF IsNursery
  <2> QED
    BY <1>1, <1>2, <1>4, <1>5, <2>1, <2>2, <2>3, SameNursery
<1>8. Routed(u)
  <2>1. ASSUME NEW i \in Fiber, u.open PROVE Alive(u, i) <=> i \in u.running /\ u.edge[i] # "retired"
    <3>1. i \in Inner
      BY DEF Fiber
    <3>2. CASE opens
      BY <1>2, <1>6, <3>1, <3>2 DEF Alive
    <3>3. CASE ~opens
      BY <1>1, <1>2, <2>1, <3>3 DEF Alive, Routed
    <3> QED
      BY <3>2, <3>3
  <2>2. u.open => Live(u, Provide)
    BY <1>1, <1>2 DEF Routed, Live
  <2>3. u.status[Provide] = "running" /\ ~u.open => \A i \in Inner : u.edge[i] = "none"
    BY <1>1, <1>2 DEF Routed
  <2>4. ~u.open => u.running = {}
    BY <1>1 DEF Routed
  <2>5. /\ \A i \in Fiber : u.waiter[i] # None =>
             Target[u.waiter[i]] = i /\ Live(u, u.waiter[i]) /\ u.edge[i] \in {"cancelling", "retired"}
        /\ \A x \in ToSet(u.watches) : Live(u, x)
    BY <1>1, <1>2 DEF Routed, Live
  <2> QED
    BY <2>1, <2>2, <2>3, <2>4, <2>5 DEF Routed
<1>9. Due(u)
  <2> SUFFICES ASSUME u.open, u.mailbox # << >>, \E x \in ToSet(u.watches) : Relays(u, x)
               PROVE  Has(u.mail, Work("pump", Provide))
    BY DEF Due
  <2>1. CASE opens
    <3>1. PICK x : x \in ToSet(w.mailbox)
      <4>1. w.mailbox \in Seq(Asks) /\ w.mailbox # << >>
        BY <1>1, <1>2 DEF IsNursery
      <4> QED
        BY <4>1, ToSetHeadTail
    <3>2. x \in ToSet(w.arrived)
      BY <1>1, <3>1 DEF Tended, InPlace
    <3>3. \E i \in Fiber : w.edge[i] # "none"
      BY <1>1, <3>2 DEF Tended, InPlace
    <3> QED
      BY <1>6, <2>1, <3>3 DEF Fiber
  <2>2. CASE ~opens
    <3>1. Has(w.mail, Work("pump", Provide))
      BY <1>1, <1>2, <2>2 DEF Due, Relays
    <3> QED
      BY <1>4, <3>1, HasIsIn
  <2> QED
    BY <2>1, <2>2
<1>10. WorkOk(u)
  <2>1. StagedOk(u)
    BY ToSetEmpty DEF StagedOk
  <2>2. ASSUME NEW t \in ToSet(u.mail), ~IsEvent(t) PROVE Originated(u, t)
    <3>1. CASE t \in ToSet(w.mail)
      <4>1. Originated(w, t)
        BY <1>1, <2>2, <3>1 DEF WorkOk
      <4> QED
        BY <1>2, <4>1 DEF Originated
    <3>2. CASE t \in ToSet(q)
      <4>1. t \in Chores(w, batch)
        BY <1>4, <3>2 DEF C
      <4>2. CASE \E c \in Call : /\ t = Work("start", c) /\ w.status[c] # "none"
                                 /\ c = Provide => Event("delegate", Provide, Own) \in ToSet(batch)
        <5>1. PICK c \in Call : /\ t = Work("start", c) /\ w.status[c] # "none"
                                /\ c = Provide => Event("delegate", Provide, Own) \in ToSet(batch)
          BY <4>2
        <5>2. c = Provide /\ u.status[c] = "running" => u.open
          BY <1>2, <5>1 DEF Live
        <5> QED
          BY <1>2, <5>1, <5>2 DEF Originated
      <4>3. CASE \E c \in Call, o \in Outcomes :
                   t = Completion(c, o) /\ (c # Provide => w.status[c] \in {"cancelling", "gone"})
        BY <1>2, <4>3 DEF Originated
      <4>4. CASE \E i \in Fiber : t = Work("retire", i) /\ w.edge[i] = "retired"
        BY <1>2, <4>4 DEF Originated
      <4> QED
        BY <4>1, <4>2, <4>3, <4>4, ChoresFacts
    <3> QED
      BY <1>4, <2>2, <3>1, <3>2
  <2> QED
    BY <2>1, <2>2 DEF WorkOk
<1>11. BatchOk(u, << >>)
  BY ToSetEmpty DEF BatchOk
<1> QED
  BY <1>7, <1>8, <1>9, <1>10, <1>11 DEF Good, Runs

\* The side effects of some events of the batch are its chores, and so is what
\* the transport is told.
LEMMA SideEffectsFacts ==
  ASSUME Good(warm, after), NEW N \in SUBSET DOMAIN after
  PROVE  SideEffects(N) \in Seq(Chores(warm, after))
<1> DEFINE M == {n \in N : HasSideEffect(after[n])}
           events == Picked(after, M)
<1>1. after \in Seq(ToSet(after)) /\ M \in SUBSET DOMAIN after
  BY DEF Good, BatchOk
<1>2. SideEffects(N) = [k \in DOMAIN events |-> SideEffect(events[k])]
  BY DEF SideEffects
<1>3. /\ events \in Seq(ToSet(after))
      /\ \A e : Has(events, e) <=> \E n \in M : after[n] = e
  <2> HIDE DEF M
  <2> QED
    BY <1>1, PickedFacts
<1> HIDE DEF events
<1>4. ASSUME NEW k \in DOMAIN events PROVE SideEffect(events[k]) \in Chores(warm, after)
  <2> DEFINE t == events[k]
  <2>1. Has(events, t)
    BY DEF Has
  <2>2. t \in ToSet(after) /\ HasSideEffect(t)
    <3>1. PICK n \in M : after[n] = t
      BY <1>3, <2>1
    <3> QED
      BY <1>1, <3>1 DEF ToSet
  <2> HIDE DEF t
  <2>3. ASSUME t.k = "delegate", Live(warm, t.d) PROVE SideEffect(t) \in Chores(warm, after)
    BY <2>2, <2>3 DEF Chores, SideEffect
  <2>4. ASSUME t.k = "terminate", warm.status[t.d] = "cancelling"
        PROVE  SideEffect(t) \in Chores(warm, after)
    BY <2>2, <2>4 DEF Chores, SideEffect
  <2>5. SideEffect(t) \in Chores(warm, after)
    BY <2>2, <2>3, <2>4 DEF HasSideEffect
  <2> QED
    BY <2>5 DEF t
<1>5. Len(events) \in Nat /\ DOMAIN events = 1..Len(events)
  BY <1>3
<1> QED
  BY <1>2, <1>4, <1>5

LEMMA DeliveriesFacts ==
  ASSUME Good(warm, after)
  PROVE  [n \in DOMAIN warm.staged |-> Delivery(warm.staged[n])] \in Seq(Chores(warm, after))
<1> DEFINE s == warm.staged
<1>1. s \in Seq(ToSet(s))
  BY GoodPoised DEF WorkOk, StagedOk
<1>2. ASSUME NEW n \in DOMAIN s PROVE Delivery(s[n]) \in Chores(warm, after)
  BY <1>2 DEF Chores, ToSet
<1> HIDE DEF s
<1>3. Len(s) \in Nat /\ DOMAIN s = 1..Len(s)
  BY <1>1
<1>4. [n \in DOMAIN s |-> Delivery(s[n])] \in Seq(Chores(warm, after))
  BY <1>2, <1>3
<1> QED
  BY <1>4 DEF s

\* The side effects of a commit are scheduled, and the batch is over.
LEMMA AfterCommitGood ==
  ASSUME Good(warm, after), AfterCommit
  PROVE  Good(warm', << >>)
<1> DEFINE w == warm
           C == Chores(warm, after)
           first == DOMAIN after \cap {1}
           x == SideEffects(first)
           y == [n \in DOMAIN warm.staged |-> Delivery(warm.staged[n])]
           z == SideEffects(DOMAIN after \ first)
           q == x \o y \o z
           opens == Live(warm, Provide) /\ Event("delegate", Provide, Own) \in ToSet(after)
           v == Schedule(warm, q)
           next == [v EXCEPT !.staged = << >>]
           u == IF opens THEN OpenScope(next) ELSE next
<1>1. warm' = u
  BY DEF AfterCommit
<1>2. x \in Seq(C) /\ y \in Seq(C) /\ z \in Seq(C)
  BY SideEffectsFacts, DeliveriesFacts
<1>3. opens \in BOOLEAN /\ (opens <=> Live(w, Provide) /\ Event("delegate", Provide, Own) \in ToSet(after))
  OBVIOUS
<1> HIDE DEF x, y, z, C
<1>4. q \in Seq(C)
  BY <1>2
<1> HIDE DEF q, opens
<1>5. IsRecord(w) /\ DOMAIN w = Fields \cup RegionFields
  BY GoodPoised, NurseryFacts
<1>6. /\ IsRecord(v) /\ DOMAIN v = DOMAIN w /\ v.mail = w.mail \o q
      /\ \A f \in DOMAIN w \ {"mail"} : v[f] = w[f]
  BY <1>5 DEF Schedule, IsRecord, Fields
<1> HIDE DEF v
<1>7. /\ IsRecord(next) /\ DOMAIN next = DOMAIN w /\ next.mail = w.mail \o q /\ next.staged = << >>
      /\ \A f \in DOMAIN w \ {"mail", "staged"} : next[f] = w[f]
  BY <1>5, <1>6 DEF IsRecord, Fields
<1> HIDE DEF next
<1>8. next.open = w.open /\ next.running = w.running /\ w.open \in BOOLEAN
  BY <1>5, <1>7, GoodPoised DEF RegionFields, IsNursery
<1>9. /\ IsRecord(u) /\ DOMAIN u = DOMAIN w /\ u.mail = w.mail \o q /\ u.staged = << >>
      /\ u.open = (w.open \/ opens) /\ u.running = (IF opens THEN {} ELSE w.running)
      /\ \A f \in DOMAIN w \ {"mail", "staged", "open", "running"} : u[f] = w[f]
  <2>1. CASE opens
    <3> DEFINE z1 == [next EXCEPT !.open = TRUE, !.running = {}]
    <3>1. u = z1
      BY <2>1 DEF OpenScope
    <3>2. /\ IsRecord(z1) /\ DOMAIN z1 = DOMAIN next /\ z1.open = TRUE /\ z1.running = {}
          /\ \A f \in DOMAIN next \ {"open", "running"} : z1[f] = next[f]
      BY <1>5, <1>7 DEF IsRecord, RegionFields
    <3> HIDE DEF z1, u
    <3>3. z1.mail = next.mail /\ z1.staged = next.staged
      BY <1>5, <1>7, <3>2 DEF Fields
    <3> QED
      BY <1>7, <1>8, <2>1, <3>1, <3>2, <3>3
  <2>2. CASE ~opens
    BY <1>7, <1>8, <2>2
  <2> QED
    BY <2>1, <2>2
<1> HIDE DEF u
<1>10. Good(u, << >>)
  <2>1. q \in Seq(Chores(w, after))
    BY <1>4 DEF C
  <2>2. opens \in BOOLEAN /\ (opens <=> Live(w, Provide) /\ Event("delegate", Provide, Own) \in ToSet(after))
    BY DEF opens
  <2> QED
    BY <1>9, <2>1, <2>2, ChoresGood
<1> QED
  BY <1>1, <1>10

\* The elements of a finite set, in any order.
LEMMA SetToSeqsFacts ==
  ASSUME NEW S, IsFiniteSet(S), NEW s \in SetToSeqs(S)
  PROVE  s \in Seq(S) /\ ToSet(s) = S
<1>1. s \in [1..Cardinality(S) -> S] /\ \A i, j \in 1..Cardinality(S) : s[i] = s[j] => i = j
  BY DEF SetToSeqs
<1> QED
  BY <1>1, InjectiveOnto

\* What a load schedules: finitely many turns, whatever their order.
Restarts == {Work("start", c) : c \in Call}

LEMMA RestartsFinite == IsFiniteSet(Restarts)
<1> DEFINE f == [c \in Call |-> Work("start", c)]
<1>1. f \in Surjection(Call, Restarts)
  <2>1. f \in [Call -> Restarts] /\ \A c \in Call : f[c] = Work("start", c)
    BY DEF Restarts
  <2>2. \A e \in Restarts : \E c \in Call : f[c] = e
    BY <2>1 DEF Restarts
  <2> HIDE DEF f
  <2> QED
    BY <2>1, <2>2 DEF Surjection, Range
<1> HIDE DEF f
<1> QED
  BY <1>1, CallAssumption, FS_Surjection

LEMMA ResumedFacts ==
  ASSUME NEW w, NEW turns \in SetToSeqs(Resumed(w))
  PROVE  /\ turns \in Seq(Resumed(w)) /\ ToSet(turns) = Resumed(w)
         /\ \A t \in Resumed(w) :
              /\ ~IsEvent(t)
              /\ \/ t = Work("pump", Provide)
                 \/ \E c \in Call : /\ t = Work("start", c) /\ w.status[c] = "running"
                 \/ \E c \in Call : t = Completion(c, "cancelled") /\ w.status[c] = "cancelling"
         /\ w.status[Provide] = "running" /\ w.mailbox # << >> => Work("pump", Provide) \in Resumed(w)
<1> DEFINE R == Resumed(w)
           X == {Completion(c, "cancelled") : c \in {d \in Call : w.status[d] = "cancelling"}}
           Y == {Work("start", c) : c \in Restarted(w)}
           Z == IF w.status[Provide] = "running" /\ w.mailbox # << >>
                THEN {Work("pump", Provide)} ELSE {}
<1>1. R = X \cup Y \cup Z
  BY DEF Resumed
<1>2. \A c \in Restarted(w) : c \in Call /\ w.status[c] = "running"
  BY RegionParts DEF Restarted
<1>3. X \subseteq Completions
  BY DEF Completions, Outcomes
<1>4. Y \subseteq Restarts
  BY <1>2 DEF Restarts
<1>5. IsFiniteSet(R)
  <2>1. IsFiniteSet({Work("pump", Provide)})
    BY FS_Singleton
  <2> DEFINE A == Completions \cup Restarts
             B == A \cup {Work("pump", Provide)}
  <2>2. IsFiniteSet(A)
    BY CompletionsFinite, RestartsFinite, FS_Union
  <2> HIDE DEF A
  <2>3. IsFiniteSet(B)
    BY <2>1, <2>2, FS_Union
  <2>4. R \in SUBSET B
    BY <1>1, <1>3, <1>4 DEF A
  <2> HIDE DEF B, R
  <2> QED
    BY <2>3, <2>4, FS_Subset
<1>6. turns \in Seq(R) /\ ToSet(turns) = R
  <2>1. turns \in SetToSeqs(R)
    OBVIOUS
  <2> HIDE DEF R
  <2> QED
    BY <1>5, <2>1, SetToSeqsFacts
<1>7. ASSUME NEW t \in R
      PROVE  /\ ~IsEvent(t)
             /\ \/ t = Work("pump", Provide)
                \/ \E c \in Call : /\ t = Work("start", c) /\ w.status[c] = "running"
                \/ \E c \in Call : t = Completion(c, "cancelled") /\ w.status[c] = "cancelling"
  <2>1. CASE t \in X
    BY <2>1, CompletionFacts
  <2>2. CASE t \in Y
    BY <1>2, <2>2 DEF IsEvent, EventKind, Work
  <2>3. CASE t \in Z
    BY <2>3 DEF IsEvent, EventKind, Work
  <2> QED
    BY <1>1, <2>1, <2>2, <2>3
<1> QED
  BY <1>1, <1>6, <1>7

\* What a load finds in the rows r, whose calls it resumes.
Loaded(r, u, watches, turns) ==
  /\ IsRecord(u) /\ DOMAIN u = DOMAIN r /\ u.mail = turns \o r.mail
  /\ u.open = (r.status[Provide] = "running")
  /\ u.running = IF u.open THEN {i \in Fiber : <<i, i>> \in r.bridge} ELSE {}
  /\ u.watches = watches
  /\ \A f \in DOMAIN r \ {"mail", "open", "running", "watches"} : u[f] = r[f]

LEMMA RecoveredFacts ==
  ASSUME NEW r, Kept(r), Committed(r), NEW watches, NEW turns
  PROVE  LET w == [r EXCEPT !.mail = << >>]
         IN /\ Loaded(r, [Recovered(w, watches) EXCEPT !.mail = turns \o r.mail], watches, turns)
            /\ Recovered(w, watches).mail = << >> /\ Resumed(w) = Resumed(r)
            /\ ReloadedWatches(w) = ReloadedWatches(r)
<1> DEFINE w == [r EXCEPT !.mail = << >>]
           o == IF w.status[Provide] = "running" THEN RepopulateRunning(OpenScope(w)) ELSE w
           v == [o EXCEPT !.watches = watches]
           u == [v EXCEPT !.mail = turns \o r.mail]
<1>1. IsRecord(r) /\ DOMAIN r = Fields \cup RegionFields
  BY KeptMinded, NurseryFacts
<1>2. r.open = FALSE /\ r.running = {}
  BY DEF Committed
<1>3. /\ IsRecord(w) /\ DOMAIN w = DOMAIN r /\ w.mail = << >>
      /\ \A f \in DOMAIN r \ {"mail"} : w[f] = r[f]
  BY <1>1 DEF IsRecord, Fields
<1> HIDE DEF w
<1>4. /\ w.status = r.status /\ w.bridge = r.bridge /\ w.open = FALSE /\ w.running = {}
      /\ w.mailbox = r.mailbox /\ w.unstarted = r.unstarted
  BY <1>1, <1>2, <1>3 DEF Fields, RegionFields
<1>5. /\ IsRecord(o) /\ DOMAIN o = DOMAIN r /\ o.open = (r.status[Provide] = "running")
      /\ o.running = IF o.open THEN {i \in Fiber : <<i, i>> \in r.bridge} ELSE {}
      /\ \A f \in DOMAIN r \ {"open", "running"} : o[f] = w[f]
  <2>1. CASE w.status[Provide] = "running"
    <3> DEFINE a == [w EXCEPT !.open = TRUE, !.running = {}]
    <3>1. /\ IsRecord(a) /\ DOMAIN a = DOMAIN r /\ a.open = TRUE
          /\ \A f \in DOMAIN r \ {"open", "running"} : a[f] = w[f]
      BY <1>1, <1>3 DEF IsRecord, RegionFields
    <3> HIDE DEF a
    <3>2. a.bridge = r.bridge
      BY <1>1, <1>4, <3>1 DEF Fields
    <3> DEFINE R == {i \in Fiber : <<i, i>> \in a.bridge}
               b == [a EXCEPT !.running = R]
    <3>3. R = {i \in Fiber : <<i, i>> \in r.bridge}
      BY <3>2
    <3> HIDE DEF R
    <3>4. /\ IsRecord(b) /\ DOMAIN b = DOMAIN r /\ b.open = TRUE /\ b.running = R
          /\ \A f \in DOMAIN r \ {"open", "running"} : b[f] = w[f]
      BY <1>1, <3>1 DEF IsRecord, RegionFields
    <3>5. o = b
      BY <2>1 DEF OpenScope, RepopulateRunning, a, R
    <3> HIDE DEF b, o
    <3> QED
      BY <1>4, <2>1, <3>3, <3>4, <3>5
  <2>2. CASE w.status[Provide] # "running"
    BY <1>3, <1>4, <2>2
  <2> QED
    BY <2>1, <2>2
<1>6. Recovered(w, watches) = v
  BY DEF Recovered
<1> HIDE DEF o
<1>7. ReloadedWatches(w) = ReloadedWatches(r) /\ Resumed(w) = Resumed(r)
  BY <1>4 DEF ReloadedWatches, Resumed, Restarted
<1>8. /\ IsRecord(v) /\ DOMAIN v = DOMAIN r /\ v.watches = watches
      /\ \A f \in DOMAIN r \ {"watches"} : v[f] = o[f]
  BY <1>1, <1>5 DEF IsRecord, RegionFields
<1> HIDE DEF v
<1>9. v.mail = << >> /\ v.open = o.open /\ v.running = o.running
  BY <1>1, <1>3, <1>5, <1>8 DEF Fields, RegionFields
<1>10. /\ IsRecord(u) /\ DOMAIN u = DOMAIN r /\ u.mail = turns \o r.mail
       /\ \A f \in DOMAIN r \ {"mail"} : u[f] = v[f]
  BY <1>1, <1>8 DEF IsRecord, Fields
<1> HIDE DEF u
<1>11. u.open = o.open /\ u.running = o.running /\ u.watches = v.watches
  BY <1>1, <1>9, <1>10 DEF RegionFields
<1>12. \A f \in DOMAIN r \ {"mail", "open", "running", "watches"} : u[f] = r[f]
  BY <1>3, <1>5, <1>8, <1>10
<1>13. Loaded(r, u, watches, turns)
  BY <1>5, <1>8, <1>10, <1>11, <1>12 DEF Loaded
<1> QED
  BY <1>6, <1>7, <1>9, <1>13 DEF u, w

LEMMA LoadedGood ==
  ASSUME NEW r, Kept(r), Committed(r), NEW turns \in SetToSeqs(Resumed(r)),
         NEW watches \in SetToSeqs(ReloadedWatches(r)), NEW u, Loaded(r, u, watches, turns)
  PROVE  Good(u, << >>)
<1> DEFINE R == Resumed(r)
           m == r.mail
<1>1. /\ turns \in Seq(R) /\ ToSet(turns) = R /\ \A t \in R : ~IsEvent(t)
  BY ResumedFacts
<1>2. /\ Minded(r) /\ Tended(r) /\ IsNursery(r) /\ IsRecord(r) /\ DOMAIN r = Fields \cup RegionFields
      /\ m \in Seq(ToSet(m)) /\ r.settled \in [Call -> BOOLEAN]
      /\ r.held \in [Call -> Outcomes \cup {"nothing"}]
      /\ r.waiter \in [Fiber -> Cancel \cup {None}]
  BY KeptMinded, NurseryFacts DEF Kept
<1>3. /\ IsRecord(u) /\ DOMAIN u = DOMAIN r /\ u.mail = turns \o m
      /\ u.open = (r.status[Provide] = "running")
      /\ u.running = (IF u.open THEN {i \in Fiber : <<i, i>> \in r.bridge} ELSE {})
      /\ u.watches = watches
      /\ \A f \in DOMAIN r \ {"mail", "open", "running", "watches"} : u[f] = r[f]
  BY DEF Loaded, m
<1>4. /\ u.status = r.status /\ u.settled = r.settled /\ u.held = r.held /\ u.edge = r.edge
      /\ u.staged = r.staged /\ u.waiter = r.waiter /\ u.mailbox = r.mailbox
  BY <1>2, <1>3 DEF Fields, RegionFields
<1>5. /\ r.staged = << >> /\ (\A i \in Fiber : r.waiter[i] = None)
      /\ (\A t \in ToSet(m) : IsEvent(t))
  BY DEF Committed, m
<1>6. /\ u.watches \in Seq(Watch) /\ \A v \in ToSet(u.watches) : r.status[v] = "running"
  <2> DEFINE S == {v \in Watch : r.status[v] = "running"}
  <2>1. IsFiniteSet(S)
    <3>1. IsFiniteSet(Call) /\ S \in SUBSET Call
      BY CallAssumption, RegionParts
    <3> HIDE DEF S
    <3> QED
      BY <3>1, FS_Subset
  <2>2. u.watches \in SetToSeqs(S)
    BY <1>3 DEF ReloadedWatches
  <2>3. S \subseteq Watch /\ \A v \in S : r.status[v] = "running"
    OBVIOUS
  <2> HIDE DEF S
  <2>4. u.watches \in Seq(S) /\ ToSet(u.watches) = S
    BY <2>1, <2>2, SetToSeqsFacts
  <2>5. u.watches \in Seq(Watch)
    BY <2>3, <2>4, SeqWiden
  <2> QED
    BY <2>3, <2>4, <2>5
<1> HIDE DEF R, m
<1>7. u.mail \in Seq(ToSet(u.mail)) /\ ToSet(u.mail) = R \cup ToSet(m) /\ SameWords(m, u.mail)
  <2> DEFINE A == ToSet(m)
  <2>1. m \in Seq(A) /\ turns \in Seq(R) /\ ToSet(m) = A
    BY <1>1, <1>2
  <2> HIDE DEF A
  <2>2. SameWords(m, turns \o m)
    BY <1>1, <2>1, WorkSame
  <2> DEFINE S == A \cup R
  <2>3. m \in Seq(S) /\ turns \in Seq(S)
    BY <2>1, SeqWiden
  <2> HIDE DEF S
  <2>4. turns \o m \in Seq(S) /\ ToSet(turns \o m) = ToSet(turns) \cup ToSet(m)
    BY <2>3, ToSetConcat
  <2>5. turns \o m \in Seq(ToSet(turns \o m))
    BY <2>4, SeqOfOwn
  <2> QED
    BY <1>1, <1>3, <2>2, <2>4, <2>5
<1>8. Kept(u)
  <2>1. \A f \in DOMAIN r \ Volatile : u[f] = r[f]
    BY <1>3 DEF Volatile
  <2>2. \A c \in Call : u.held[c] \in {"nothing", r.held[c]}
    BY <1>4
  <2>3. u.open \in BOOLEAN /\ u.running \subseteq Fiber
    BY <1>3
  <2>4. SameWords(r.mail, u.mail)
    BY <1>7 DEF m
  <2> QED
    BY <1>2, <1>3, <1>4, <1>6, <1>7, <2>1, <2>2, <2>3, <2>4, SameNursery
<1>9. Routed(u)
  <2>1. ASSUME NEW i \in Fiber, u.open PROVE Alive(u, i) <=> i \in u.running /\ u.edge[i] # "retired"
    <3>1. i \in Inner /\ (<<i, i>> \in r.bridge <=> Alive(r, i))
      BY <1>2 DEF Fiber, Tended, Bridged
    <3> QED
      BY <1>3, <1>4, <2>1, <3>1 DEF Alive
  <2>2. u.open => Live(u, Provide)
    BY <1>3, <1>4 DEF Live
  <2>3. /\ \A i \in Fiber : u.waiter[i] = None
        /\ \A v \in ToSet(u.watches) : Live(u, v)
        /\ ~u.open => u.running = {}
    BY <1>3, <1>4, <1>5, <1>6 DEF Live
  <2>4. u.status[Provide] = "running" => u.open
    BY <1>3, <1>4
  <2> QED
    BY <2>1, <2>2, <2>3, <2>4 DEF Routed
<1>10. Due(u)
  <2> SUFFICES ASSUME u.open, u.mailbox # << >>
               PROVE  Has(u.mail, Work("pump", Provide))
    BY DEF Due
  <2>1. Work("pump", Provide) \in R
    BY <1>3, <1>4, ResumedFacts DEF R
  <2> QED
    BY <1>7, <2>1, HasIsIn
<1>11. WorkOk(u)
  <2>1. StagedOk(u)
    BY <1>4, <1>5, ToSetEmpty DEF StagedOk
  <2>2. ASSUME NEW t \in ToSet(u.mail), ~IsEvent(t) PROVE Originated(u, t)
    <3>1. t \in R
      BY <1>5, <1>7, <2>2
    <3>2. \/ t = Work("pump", Provide)
          \/ \E c \in Call : /\ t = Work("start", c) /\ r.status[c] = "running"
          \/ \E c \in Call : t = Completion(c, "cancelled") /\ r.status[c] = "cancelling"
      BY <3>1, ResumedFacts DEF R
    <3>3. CASE \E c \in Call : /\ t = Work("start", c) /\ r.status[c] = "running"
      <4>1. PICK c \in Call : /\ t = Work("start", c) /\ r.status[c] = "running"
        BY <3>3
      <4>2. u.status[c] # "none" /\ (c = Provide /\ u.status[c] = "running" => u.open)
        BY <1>3, <1>4, <4>1
      <4> QED
        BY <4>1, <4>2 DEF Originated
    <3>4. CASE \E c \in Call : t = Completion(c, "cancelled") /\ r.status[c] = "cancelling"
      <4>1. PICK c \in Call : t = Completion(c, "cancelled") /\ r.status[c] = "cancelling"
        BY <3>4
      <4>2. u.status[c] \in {"cancelling", "gone"} /\ "cancelled" \in Outcomes
        BY <1>4, <4>1 DEF Outcomes
      <4> QED
        BY <4>1, <4>2 DEF Originated
    <3>5. CASE t = Work("pump", Provide)
      BY <3>5 DEF Originated
    <3> QED
      BY <3>2, <3>3, <3>4, <3>5
  <2> QED
    BY <2>1, <2>2 DEF WorkOk
<1>12. BatchOk(u, << >>)
  BY ToSetEmpty DEF BatchOk
<1> QED
  BY <1>8, <1>9, <1>10, <1>11, <1>12 DEF Good, Runs

-----------------------------------------------------------------------------
(* The first state.                                                        *)

LEMMA FirstFacts ==
  LET w == RegionWarm
  IN /\ IsRecord(w) /\ Consistent(w) /\ DOMAIN w = Fields \cup RegionFields
     /\ w.status = [c \in Call |-> "none"] /\ w.settled = [c \in Call |-> FALSE]
     /\ w.held = [c \in Call |-> "nothing"] /\ w.relays = {} /\ w.edge = [i \in Inner |-> "none"]
     /\ w.bridge = {} /\ w.staged = << >> /\ w.proxy = [c \in Call |-> "idle"] /\ w.asked = {}
     /\ w.callee = [i \in Inner |-> "none"] /\ w.mail = << >>
     /\ w.mailbox = << >> /\ w.unstarted = TRUE /\ w.open = FALSE /\ w.running = {}
     /\ w.watches = << >> /\ w.waiter = [i \in Fiber |-> None] /\ w.told = [k \in Cancel |-> None]
     /\ w.arrived = << >> /\ w.emitted = << >>
<1> DEFINE own == [mailbox |-> << >>, names |-> {}, unstarted |-> TRUE, open |-> FALSE, running |-> {},
                   watches |-> << >>, waiter |-> [i \in Fiber |-> None],
                   told |-> [k \in Cancel |-> None], arrived |-> << >>, emitted |-> << >>]
           w == WarmWith(own)
<1>1. RegionWarm = w
  BY DEF RegionWarm
<1>2. /\ DOMAIN own = RegionFields
      /\ own.mailbox = << >> /\ own.unstarted = TRUE /\ own.open = FALSE /\ own.running = {}
      /\ own.watches = << >> /\ own.waiter = [i \in Fiber |-> None]
      /\ own.told = [k \in Cancel |-> None] /\ own.arrived = << >> /\ own.emitted = << >>
  BY DEF RegionFields
<1> HIDE DEF own
<1>3. RegionFields \cap Fields = {}
  BY DEF RegionFields, Fields
<1>4. /\ Consistent(w) /\ DOMAIN w = Fields \cup RegionFields
      /\ \A f \in RegionFields : w[f] = own[f]
      /\ \A f \in Fields : w[f] = InitialWarm[f]
  BY <1>2, <1>3, WarmWithFacts
<1>5. w = [f \in DOMAIN w |-> w[f]]
  BY DEF WarmWith
<1> HIDE DEF w
<1>6. /\ w.status = [c \in Call |-> "none"] /\ w.settled = [c \in Call |-> FALSE]
      /\ w.held = [c \in Call |-> "nothing"] /\ w.relays = {} /\ w.edge = [i \in Inner |-> "none"]
      /\ w.bridge = {} /\ w.staged = << >> /\ w.proxy = [c \in Call |-> "idle"] /\ w.asked = {}
      /\ w.callee = [i \in Inner |-> "none"] /\ w.mail = << >>
  BY <1>4 DEF Fields, InitialWarm
<1>7. /\ w.mailbox = << >> /\ w.unstarted = TRUE /\ w.open = FALSE /\ w.running = {}
      /\ w.watches = << >> /\ w.waiter = [i \in Fiber |-> None] /\ w.told = [k \in Cancel |-> None]
      /\ w.arrived = << >> /\ w.emitted = << >>
  BY <1>2, <1>4 DEF RegionFields
<1>8. IsRecord(w)
  BY <1>4, <1>5 DEF IsRecord
<1> QED
  BY <1>1, <1>4, <1>6, <1>7, <1>8

LEMMA FirstKept == Kept(RegionWarm) /\ Committed(RegionWarm)
<1> DEFINE w == RegionWarm
<1>1. /\ IsRecord(w) /\ Consistent(w) /\ DOMAIN w = Fields \cup RegionFields
      /\ w.status = [c \in Call |-> "none"] /\ w.held = [c \in Call |-> "nothing"]
      /\ w.relays = {} /\ w.edge = [i \in Inner |-> "none"]
      /\ w.bridge = {} /\ w.staged = << >> /\ w.proxy = [c \in Call |-> "idle"] /\ w.asked = {}
      /\ w.callee = [i \in Inner |-> "none"] /\ w.mail = << >>
  BY FirstFacts
<1>2. /\ w.mailbox = << >> /\ w.unstarted = TRUE /\ w.open = FALSE /\ w.running = {}
      /\ w.watches = << >> /\ w.waiter = [i \in Fiber |-> None] /\ w.told = [k \in Cancel |-> None]
      /\ w.arrived = << >> /\ w.emitted = << >>
  BY FirstFacts
<1> HIDE DEF w
<1>3. ToSet(<< >>) = {} /\ (\A e : ~Has(<< >>, e)) /\ (\A e, f : ~Precedes(<< >>, e, f))
  BY MailNone, ToSetEmpty, OrderHas
<1>4. Continuation \in Inner /\ Provide \in Call /\ (\A i \in Fiber : i \in Inner)
  BY RegionParts
<1>5. IsNursery(w)
  <2>1. w.mail \in Seq(ToSet(w.mail)) /\ ToSet(w.mail) = {}
    BY <1>1, <1>3
  <2>2. /\ w.mailbox \in Seq(Asks) /\ w.arrived \in Seq(Asks) /\ w.emitted \in Seq(Asks)
        /\ w.watches \in Seq(Watch)
    BY <1>2
  <2>3. w.callee \in [Inner -> Callees \cup {"failed"}]
    <3>1. w.callee = [i \in Inner |-> "none"]
      BY <1>1
    <3> QED
      BY <3>1 DEF Callees
  <2>4. w.waiter \in [Fiber -> Cancel \cup {None}] /\ w.told \in [Cancel -> Answers]
    <3>1. w.waiter = [i \in Fiber |-> None] /\ w.told = [k \in Cancel |-> None]
      BY <1>2
    <3>2. [i \in Fiber |-> None] \in [Fiber -> Cancel \cup {None}]
      OBVIOUS
    <3>3. [k \in Cancel |-> None] \in [Cancel -> Answers]
      BY DEF Answers
    <3> QED
      BY <3>1, <3>2, <3>3
  <2>5. w = [f \in DOMAIN w |-> w[f]] /\ DOMAIN w = Fields \cup RegionFields
    BY <1>1 DEF IsRecord
  <2> QED
    BY <1>1, <1>2, <2>1, <2>2, <2>3, <2>4, <2>5 DEF IsNursery
<1>6. Plain(w) = w
  <2>1. w.callee = [i \in Inner |-> Simple(w.callee[i])]
    <3>1. \A i \in Inner : Simple(w.callee[i]) = "none"
      BY <1>1 DEF Simple
    <3>2. w.callee = [i \in Inner |-> "none"]
      BY <1>1
    <3> QED
      BY <3>1, <3>2
  <2>2. w.mail = [n \in DOMAIN w.mail |-> Hushed(w.mail[n])]
    BY <1>1
  <2> QED
    BY <1>1, <2>1, <2>2, PlainIs
<1>7. Tended(w)
  <2>1. Bridged(w)
    BY <1>1 DEF Bridged, Alive
  <2>2. Named(w)
    <3>1. w.edge[Continuation] = "none" /\ (\A c \in Call : w.proxy[c] = "idle")
      BY <1>1, <1>4
    <3>2. \A f \in Fork : w.edge[FiberOf[f]] = "none"
      <4>1. \A f \in Fork : FiberOf[f] \in Inner
        BY <1>4, RegionAssumption
      <4> QED
        BY <1>1, <4>1
    <3> QED
      BY <3>1, <3>2, RegionParts DEF Named
  <2>3. Truthful(w)
    BY <1>2 DEF Truthful
  <2>4. Childless(w)
    BY <1>1 DEF Childless
  <2>5. InPlace(w)
    <3>1. w.emitted \o w.mailbox = << >>
      BY <1>2
    <3> QED
      BY <1>2, <1>3, <3>1 DEF InPlace
  <2>6. Raising(w)
    BY <1>1, <1>4 DEF Raising
  <2> QED
    BY <2>1, <2>2, <2>3, <2>4, <2>5, <2>6 DEF Tended
<1>8. AsksKept(w)
  BY <1>1, <1>4 DEF AsksKept
<1>9. Kept(w)
  BY <1>1, <1>5, <1>6, <1>7, <1>8 DEF Kept
<1>10. Committed(w)
  BY <1>1, <1>2, <1>3 DEF Committed
<1> QED
  BY <1>9, <1>10 DEF w

LEMMA RInvInit == ASSUME Init PROVE RInv
<1>1. warm = RegionWarm /\ rows = RegionWarm /\ phase = "down" /\ after = << >> /\ plan \in Plans
  BY DEF Init, InitFrom
<1>2. warm = [rows EXCEPT !.mail = << >>]
  <2> DEFINE w == RegionWarm
             u == [w EXCEPT !.mail = << >>]
  <2>1. IsRecord(w) /\ w.mail = << >>
    BY FirstFacts
  <2> HIDE DEF w
  <2>2. IsRecord(u) /\ DOMAIN u = DOMAIN w /\ \A f \in DOMAIN w : u[f] = w[f]
    BY <2>1 DEF IsRecord, Fields
  <2> HIDE DEF u
  <2>3. u = w
    BY <2>1, <2>2, SameRecord
  <2> QED
    BY <1>1, <2>3 DEF u, w
<1> QED
  BY <1>1, <1>2, FirstKept DEF RInv

-----------------------------------------------------------------------------
(* Every step keeps the invariant.                                         *)

\* A turn of whichever actor, and the delivery of a commit.
LEMMA TurnKeeps ==
  ASSUME RInv, phase' \in {"idle", "batch"}, UNCHANGED <<rows, plan>>, Good(warm', after')
  PROVE  RInv'
BY DEF RInv, Good

LEMMA UpIsGood == ASSUME RInv, phase # "down" PROVE Good(warm, after)
BY DEF RInv, Good

\* The loop takes the first of its mail.
LEMMA ScheduledKeeps ==
  ASSUME RInv, StartTurn \/ CompleteTurn \/ RetireTurn \/ PumpTurn
  PROVE  RInv'
<1> DEFINE t == Head(warm.mail)
<1>1. PICK next : /\ phase \in {"idle", "batch"} /\ phase' = "batch" /\ warm.mail # << >>
                  /\ warm' = OnDropCall(Taken, next) /\ UNCHANGED <<rows, plan, after>>
                  /\ \/ t.k = "start" /\ next = Start(Taken, t.d)
                     \/ t.k = "complete" /\ next = Complete(Taken, t.d, t.o)
                     \/ t.k = "retire" /\ next = RetireFiber(Taken, t.d)
                     \/ t.k = "pump" /\ next = Pump(Taken)
  BY DEF StartTurn, CompleteTurn, RetireTurn, PumpTurn, ScheduledTurn, Ready, Turn
<1>2. Good(warm, after) /\ Taken = Rest(warm)
  BY <1>1, UpIsGood DEF Taken, Rest
<1> HIDE DEF t
<1>3. Good(OnDropCall(Rest(warm), next), after)
  <2>1. CASE t.k = "start" /\ next = Start(Rest(warm), t.d)
    BY <1>1, <1>2, <2>1, StartTurns DEF t
  <2>2. CASE t.k = "complete" /\ next = Complete(Rest(warm), t.d, t.o)
    BY <1>1, <1>2, <2>2, CompleteTurns DEF t
  <2>3. CASE t.k = "retire" /\ next = RetireFiber(Rest(warm), t.d)
    BY <1>1, <1>2, <2>3, RetireTurns DEF t
  <2>4. CASE t.k = "pump" /\ next = Pump(Rest(warm))
    BY <1>1, <1>2, <2>4, PumpTurns DEF t
  <2> QED
    BY <1>1, <1>2, <2>1, <2>2, <2>3, <2>4
<1>4. Good(warm', after')
  BY <1>1, <1>2, <1>3
<1> QED
  BY <1>1, <1>4, TurnKeeps

LEMMA EventKeeps == ASSUME RInv, EventTurn PROVE RInv'
<1> DEFINE t == Head(warm.mail)
<1>1. /\ phase \in {"idle", "batch"} /\ phase' = "batch" /\ warm.mail # << >> /\ IsEvent(t)
      /\ UNCHANGED <<rows, plan>>
      /\ ToReactor(t) => warm' = OnDropCall(Taken, Reaction(Taken, t)) /\ after' = Append(after, t)
      /\ ~ToReactor(t) => warm' = CoreReact(Taken, t) /\ after' = after
  BY DEF EventTurn, Ready, Turn, Reaction
<1>2. Good(warm, after) /\ Taken = Rest(warm)
  BY <1>1, UpIsGood DEF Taken, Rest
<1>3. Handled(Rest(warm), after, t)
  BY <1>1, <1>2, LetterTurn
<1> HIDE DEF t
<1>4. Good(warm', after')
  BY <1>1, <1>2, <1>3 DEF Handled
<1> QED
  BY <1>1, <1>4, TurnKeeps

LEMMA PeersKeep == ASSUME RInv, Peers PROVE RInv'
<1>1. ASSUME phase \in {"idle", "batch"}, phase' = "batch", UNCHANGED <<rows, plan, after>>,
             Good(warm', after)
      PROVE  RInv'
  <2>1. Good(warm', after')
    BY <1>1
  <2> QED
    BY <1>1, <2>1, TurnKeeps
<1>2. ASSUME phase \in {"idle", "batch"} PROVE Good(warm, after)
  BY <1>2, UpIsGood
<1>3. ASSUME NEW c \in Call, CoreCallsRegion(c) PROVE RInv'
  <2>1. /\ phase \in {"idle", "batch"} /\ phase' = "batch" /\ UNCHANGED <<rows, plan, after>>
        /\ warm.proxy[c] = "idle"
        /\ warm' = Send([warm EXCEPT !.proxy[c] = "calling"], "delegate", c, Own)
        /\ c # Provide => warm.callee[Continuation] # "none"
        /\ c \in Cancel => \E f \in Fork : FiberOf[f] = Target[c] /\ warm.proxy[f] = "done"
    BY <1>3 DEF CoreCallsRegion, CoreCalls, Turn
  <2>2. Good(Send([warm EXCEPT !.proxy[c] = "calling"], "delegate", c, Own), after)
    BY <1>2, <2>1, ThreadCallsKeeps
  <2> QED
    BY <1>1, <2>1, <2>2
<1>4. ASSUME NEW c \in Call, CoreCancels(c) PROVE RInv'
  <2>1. /\ phase \in {"idle", "batch"} /\ phase' = "batch" /\ UNCHANGED <<rows, plan, after>>
        /\ warm.proxy[c] = "calling"
        /\ warm' = Send([warm EXCEPT !.proxy[c] = "cancelling", !.asked = {a \in @ : a[1] # c}],
                        "terminate", c, Own)
    BY <1>4 DEF CoreCancels, Turn
  <2>2. Good(Send([warm EXCEPT !.proxy[c] = "cancelling", !.asked = {a \in @ : a[1] # c}],
                  "terminate", c, Own), after)
    BY <1>2, <2>1, ThreadCancelsKeeps
  <2> QED
    BY <1>1, <2>1, <2>2
<1>5. ASSUME NEW c \in Call, NEW x, CoreAnswers(c, x) PROVE RInv'
  <2>1. /\ phase \in {"idle", "batch"} /\ phase' = "batch" /\ UNCHANGED <<rows, plan, after>>
        /\ <<c, x>> \in warm.asked
        /\ warm' = Send([warm EXCEPT !.asked = @ \ {<<c, x>>}], "escalateAck", c, x)
    BY <1>5 DEF CoreAnswers, Turn
  <2>2. Good(Send([warm EXCEPT !.asked = @ \ {<<c, x>>}], "escalateAck", c, x), after)
    BY <1>2, <2>1, ThreadAnswersKeeps
  <2> QED
    BY <1>1, <2>1, <2>2
<1>6. ASSUME NEW i \in Inner, CalleeReturns(i) PROVE RInv'
  <2>1. /\ phase \in {"idle", "batch"} /\ phase' = "batch" /\ UNCHANGED <<rows, plan, after>>
        /\ warm.callee[i] \in {"running", "answered"}
        /\ warm' = Send([warm EXCEPT !.callee[i] = "done"], "delegateAck", i, Own)
    BY <1>6 DEF CalleeReturns, Turn
  <2>2. Good(Send([warm EXCEPT !.callee[i] = "done"], "delegateAck", i, Own), after)
    BY <1>2, <2>1, CalleeReturnsKeeps
  <2> QED
    BY <1>1, <2>1, <2>2
<1>7. ASSUME NEW i \in Inner, CalleeAsks(i) PROVE RInv'
  <2>1. /\ phase \in {"idle", "batch"} /\ phase' = "batch" /\ UNCHANGED <<rows, plan, after>>
        /\ warm.callee[i] = "running"
        /\ warm' = Send([warm EXCEPT !.callee[i] = "asking"], "escalate", i, Own)
    BY <1>7 DEF CalleeAsks, Turn
  <2>2. Good(Send([warm EXCEPT !.callee[i] = "asking"], "escalate", i, Own), after)
    BY <1>2, <2>1, CalleeAsksKeeps
  <2> QED
    BY <1>1, <2>1, <2>2
<1>8. ASSUME NEW i \in Inner, FiberFails(i) PROVE RInv'
  <2>1. /\ phase \in {"idle", "batch"} /\ phase' = "batch" /\ UNCHANGED <<rows, plan, after>>
        /\ i \in plan.fails /\ warm.callee[i] \in {"running", "answered"}
        /\ warm' = [warm EXCEPT !.callee[i] = "failed", !.mail = Append(@, Failure(i))]
    BY <1>8 DEF FiberFails, Turn, Failure
  <2>2. i \in Fiber
    BY <2>1, RegionAssumption DEF RInv
  <2>3. Good([warm EXCEPT !.callee[i] = "failed", !.mail = Append(@, Failure(i))], after)
    BY <1>2, <2>1, <2>2, FiberFailsKeeps
  <2> QED
    BY <1>1, <2>1, <2>3
<1> QED
  BY <1>3, <1>4, <1>5, <1>6, <1>7, <1>8 DEF Peers

\* What is committed is there again after a failure.
LEMMA ForgetKeeps ==
  ASSUME RInv, NEW r, Kept(r), Committed(r), rows' = r, Forget(r), plan' = plan
  PROVE  RInv'
BY DEF RInv, Forget

LEMMA RInvNext == ASSUME RInv, [Next]_vars PROVE RInv'
<1>1. Kept(rows) /\ Committed(rows)
  BY DEF RInv
<1>2. CASE UNCHANGED vars
  BY <1>2 DEF RInv, vars, callVars
<1>3. CASE EventTurn
  BY <1>3, EventKeeps
<1>4. CASE StartTurn \/ CompleteTurn \/ RetireTurn \/ PumpTurn
  BY <1>4, ScheduledKeeps
<1>5. ASSUME phase = "batch"
      PROVE  Kept(RegionDurable(warm)) /\ Committed(RegionDurable(warm))
  BY <1>5, CommitKeeps DEF RInv
<1>6. CASE CommitAs(RegionDurable(warm))
  <2>1. /\ phase = "batch" /\ phase' = "post" /\ rows' = RegionDurable(warm)
        /\ warm' = warm /\ after' = after /\ plan' = plan
    BY <1>6 DEF CommitAs
  <2>2. Kept(rows') /\ Committed(rows')
    BY <1>5, <2>1
  <2>3. Kept(warm') /\ Runs(warm') /\ BatchOk(warm', after')
    BY <2>1 DEF RInv
  <2> QED
    BY <2>1, <2>2, <2>3 DEF RInv
<1>7. CASE AfterCommit
  <2>1. /\ phase = "post" /\ phase' = "idle" /\ after' = << >> /\ UNCHANGED <<rows, plan>>
    BY <1>7 DEF AfterCommit
  <2>2. Good(warm', << >>)
    BY <1>7, <2>1, UpIsGood, AfterCommitGood
  <2>3. Good(warm', after')
    BY <2>1, <2>2
  <2> QED
    BY <2>1, <2>3, TurnKeeps
<1>8. CASE Reload
  <2>1. PICK turns \in SetToSeqs(Resumed(warm)), watches \in SetToSeqs(ReloadedWatches(warm)) :
               LoadAs(Recovered(warm, watches), turns)
    BY <1>8 DEF Reload
  <2>2. /\ phase = "down" /\ phase' = "idle" /\ UNCHANGED <<rows, after, plan>>
        /\ warm' = [Recovered(warm, watches) EXCEPT !.mail = @ \o turns \o rows.mail]
    BY <2>1 DEF LoadAs
  <2>3. warm = [rows EXCEPT !.mail = << >>] /\ after = << >>
    BY <2>2 DEF RInv
  <2> DEFINE u == [Recovered(warm, watches) EXCEPT !.mail = turns \o rows.mail]
             w == [rows EXCEPT !.mail = << >>]
  <2>4. /\ Loaded(rows, u, watches, turns) /\ Recovered(warm, watches).mail = << >>
        /\ Resumed(warm) = Resumed(rows) /\ ReloadedWatches(warm) = ReloadedWatches(rows)
    <3>1. /\ Loaded(rows, [Recovered(w, watches) EXCEPT !.mail = turns \o rows.mail], watches, turns)
          /\ Recovered(w, watches).mail = << >> /\ Resumed(w) = Resumed(rows)
          /\ ReloadedWatches(w) = ReloadedWatches(rows)
      BY <1>1, RecoveredFacts
    <3> QED
      BY <2>3, <3>1
  <2>5. Good(u, << >>)
    <3> HIDE DEF u
    <3> QED
      BY <1>1, <2>1, <2>4, LoadedGood
  <2>6. warm' = u
    <3>1. turns \in Seq(Resumed(rows)) /\ rows.mail \in Seq(ToSet(rows.mail))
      BY <1>1, <2>1, <2>4, ResumedFacts, KeptMinded, NurseryFacts
    <3>2. << >> \o turns \o rows.mail = turns \o rows.mail
      BY <3>1
    <3>3. warm' = [Recovered(warm, watches) EXCEPT !.mail = << >> \o turns \o rows.mail]
      BY <2>2, <2>4
    <3> QED
      BY <3>2, <3>3
  <2>7. Good(warm', after')
    BY <2>2, <2>3, <2>5, <2>6
  <2> QED
    BY <2>2, <2>7, TurnKeeps
<1>9. CASE Peers
  BY <1>9, PeersKeep
<1>10. CASE Fail \/ Crash
  <2>1. rows' = rows /\ Forget(rows) /\ plan' = plan
    BY <1>10 DEF Fail, Crash
  <2> QED
    BY <1>1, <2>1, ForgetKeeps
<1>11. CASE CommitInDoubtAs(RegionDurable(warm))
  <2>1. /\ phase = "batch" /\ rows' = RegionDurable(warm) /\ Forget(RegionDurable(warm))
        /\ plan' = plan
    BY <1>11 DEF CommitInDoubtAs
  <2> QED
    BY <1>5, <2>1, ForgetKeeps
<1> QED
  BY <1>2, <1>3, <1>4, <1>6, <1>7, <1>8, <1>9, <1>10, <1>11 DEF Next, Loop, Misfortune

-----------------------------------------------------------------------------
(* What the invariant says.                                                *)

\* While the actor is down it is shown as its rows say.
LEMMA Shown ==
  ASSUME RInv
  PROVE  \E w : /\ Kept(w) /\ (phase # "down" => w = warm) /\ (phase = "down" => Committed(w))
                /\ \A f \in DOMAIN w \ {"mail"} : warm[f] = w[f]
<1>1. CASE phase = "down"
  <2>1. Kept(rows) /\ Committed(rows) /\ warm = [rows EXCEPT !.mail = << >>]
    BY <1>1 DEF RInv
  <2>2. IsRecord(rows)
    BY <2>1, KeptMinded, NurseryFacts
  <2>3. \A f \in DOMAIN rows \ {"mail"} : warm[f] = rows[f]
    BY <2>1, <2>2 DEF IsRecord
  <2> QED
    BY <1>1, <2>1, <2>3
<1>2. CASE phase # "down"
  BY <1>2 DEF RInv
<1> QED
  BY <1>1, <1>2

LEMMA ShownFacts ==
  ASSUME RInv, NEW w, Kept(w), \A f \in DOMAIN w \ {"mail"} : warm[f] = w[f]
  PROVE  /\ warm.status = w.status /\ warm.held = w.held /\ warm.relays = w.relays /\ warm.edge = w.edge
         /\ warm.callee = w.callee /\ warm.mailbox = w.mailbox /\ warm.waiter = w.waiter
         /\ warm.told = w.told /\ warm.arrived = w.arrived /\ warm.emitted = w.emitted
         /\ Minded(w) /\ IsNursery(w) /\ Tended(w) /\ Consistent(Plain(w)) /\ IsRecord(w)
<1>1. Minded(w) /\ IsNursery(w) /\ Tended(w) /\ Consistent(Plain(w))
  BY KeptMinded DEF Kept
<1>2. DOMAIN w = Fields \cup RegionFields /\ IsRecord(w)
  BY <1>1, NurseryFacts
<1>3. /\ warm.status = w.status /\ warm.held = w.held /\ warm.relays = w.relays /\ warm.edge = w.edge
      /\ warm.callee = w.callee
  BY <1>2 DEF Fields
<1>4. /\ warm.mailbox = w.mailbox /\ warm.waiter = w.waiter
      /\ warm.told = w.told /\ warm.arrived = w.arrived /\ warm.emitted = w.emitted
  BY <1>2 DEF RegionFields
<1> QED
  BY <1>1, <1>2, <1>3, <1>4

LEMMA RInvTypeOK == ASSUME RInv PROVE TypeOK
<1>1. PICK w : Kept(w) /\ \A f \in DOMAIN w \ {"mail"} : warm[f] = w[f]
  BY Shown
<1>2. /\ warm.status = w.status /\ warm.held = w.held /\ warm.relays = w.relays /\ warm.edge = w.edge
      /\ warm.mailbox = w.mailbox /\ warm.waiter = w.waiter
      /\ Minded(w) /\ IsNursery(w) /\ Consistent(Plain(w)) /\ IsRecord(w)
  BY <1>1, ShownFacts
<1>3. warm.status \in [Call -> {"none", "running", "cancelling", "awaitingAnswer", "gone"}]
  <2>1. w.status \in [Call -> Statuses]
    BY <1>2, NurseryFacts
  <2> QED
    BY <1>2, <2>1 DEF Statuses
<1>4. warm.edge \in [Inner -> {"none", "running", "cancelling", "retired"}]
  <2>1. w.edge \in [Inner -> Edges]
    BY <1>2, NurseryFacts
  <2> QED
    BY <1>2, <2>1 DEF Edges
<1>5. warm.relays \subseteq Call \X Asks
  BY <1>2, NurseryFacts
<1>6. ToSet(warm.mailbox) \subseteq Asks
  <2>1. w.mailbox \in Seq(Asks)
    BY <1>2 DEF IsNursery
  <2> QED
    BY <1>2, <2>1, SeqOfOwn
<1>7. warm.waiter \in [Fiber -> Cancel \cup {None}]
  BY <1>2, NurseryFacts
<1>8. \A c \in Call : warm.held[c] # "nothing" => warm.status[c] = "running"
  <2>1. Plain(w).held = w.held /\ Plain(w).status = w.status
    BY <1>2, PlainFacts
  <2>2. \A c \in Call : HeldOk(Plain(w), c)
    BY <1>2 DEF Consistent
  <2> QED
    BY <1>2, <2>1, <2>2 DEF HeldOk
<1> QED
  BY <1>3, <1>4, <1>5, <1>6, <1>7, <1>8 DEF TypeOK

LEMMA RInvFibers == ASSUME RInv PROVE FibersKept
<1>1. PICK w : /\ Kept(w) /\ (phase # "down" => w = warm) /\ (phase = "down" => Committed(w))
               /\ \A f \in DOMAIN w \ {"mail"} : warm[f] = w[f]
  BY Shown
<1>2. /\ warm.status = w.status /\ warm.edge = w.edge /\ warm.callee = w.callee
      /\ warm.waiter = w.waiter /\ warm.told = w.told
      /\ Minded(w) /\ IsNursery(w) /\ Tended(w) /\ Consistent(Plain(w)) /\ IsRecord(w)
  BY <1>1, ShownFacts
<1>3. NoFiberOutlives
  <2> SUFFICES ASSUME NEW i \in Inner, w.status[Provide] = "gone" PROVE w.callee[i] \in {"none", "done"}
    BY <1>2 DEF NoFiberOutlives
  <2> DEFINE v == Plain(w)
  <2>1. v.status = w.status /\ v.edge = w.edge /\ v.callee = [j \in Inner |-> Simple(w.callee[j])]
    BY <1>2, PlainFacts
  <2>2. Wound(v, i) /\ InnerOk(v, i)
    BY <1>2 DEF Consistent
  <2> HIDE DEF v
  <2>3. w.edge[i] \in {"none", "retired"}
    BY <2>1, <2>2, RegionParts DEF Wound
  <2>4. Simple(w.callee[i]) \in {"none", "done"}
    BY <2>1, <2>2, <2>3 DEF InnerOk
  <2> QED
    BY <2>4 DEF Simple
<1>4. RunningIsBridged
  <2> SUFFICES ASSUME phase # "down", warm.open
               PROVE  {i \in Fiber : <<i, i>> \in warm.bridge}
                        = {i \in warm.running : warm.edge[i] # "retired"}
    BY DEF RunningIsBridged
  <2>1. /\ \A i \in Fiber : Alive(warm, i) <=> i \in warm.running /\ warm.edge[i] # "retired"
        /\ warm.running \subseteq Fiber
    BY <1>1, <1>2 DEF RInv, Runs, Routed, IsNursery
  <2>2. \A i \in Inner : <<i, i>> \in warm.bridge <=> Alive(warm, i)
    BY <1>1, <1>2 DEF Tended, Bridged
  <2>3. \A i \in Fiber : i \in Inner
    BY DEF Fiber
  <2> QED
    BY <2>1, <2>2, <2>3
<1>5. WaiterIsLive
  <2>1. CASE phase = "down"
    BY <1>1, <1>2, <2>1 DEF Committed, WaiterIsLive
  <2>2. CASE phase # "down"
    BY <2>2 DEF RInv, Runs, Routed, WaiterIsLive
  <2> QED
    BY <2>1, <2>2
<1>6. CancelTellsTruth
  BY <1>2 DEF Tended, Truthful, CancelTellsTruth
<1> QED
  BY <1>3, <1>4, <1>5, <1>6 DEF FibersKept

LEMMA RInvMailbox == ASSUME RInv PROVE MailboxKept
<1>1. PICK w : /\ Kept(w) /\ (phase # "down" => w = warm)
               /\ \A f \in DOMAIN w \ {"mail"} : warm[f] = w[f]
  BY Shown
<1>2. /\ warm.mailbox = w.mailbox /\ warm.arrived = w.arrived /\ warm.emitted = w.emitted
      /\ IsNursery(w) /\ Tended(w)
  BY <1>1, ShownFacts
<1>3. MailboxIsDue
  BY HasIsIn DEF RInv, Runs, Due, MailboxIsDue
<1>4. FiberAskKept
  <2> SUFFICES ASSUME NEW i \in Fiber, phase # "down", warm.callee[i] = "asking", warm.edge[i] = "running"
               PROVE  \/ \E t \in {"escalate", "escalateAck"} : Event(t, i, Own) \in ToSet(warm.mail)
                      \/ i \in ToSet(warm.mailbox)
                      \/ \E v \in Watch :
                           /\ i \in ToSet(warm.emitted)
                           /\ \/ warm.proxy[v] \in {"cancelling", "done"}
                              \/ /\ <<v, i>> \in warm.relays
                                 /\ \/ <<v, i>> \in warm.asked
                                    \/ \E t \in {"escalate", "escalateAck"} :
                                         Event(t, v, i) \in ToSet(warm.mail)
    BY DEF FiberAskKept
  <2>1. Heard(warm, i)
    BY DEF RInv, Kept, AsksKept
  <2>2. \A s, x : Has(s, x) <=> x \in ToSet(s)
    BY HasIsIn
  <2> QED
    BY <2>1, <2>2 DEF Heard, Raised, Asking
<1>5. ReportKept
  BY <1>2 DEF Tended, InPlace, ReportKept
<1>6. RaisedInOrder
  <2> SUFFICES ASSUME NEW m \in DOMAIN w.emitted, NEW n \in DOMAIN w.emitted, m < n
               PROVE  \E a, b \in DOMAIN w.arrived :
                        a < b /\ w.arrived[a] = w.emitted[m] /\ w.arrived[b] = w.emitted[n]
    BY <1>2 DEF RaisedInOrder
  <2> DEFINE x == w.emitted[m]
             y == w.emitted[n]
             e == w.emitted
             f == w.mailbox
  <2>1. e \in Seq(Asks) /\ f \in Seq(Asks)
    BY <1>2 DEF IsNursery
  <2>2. Precedes(e, x, y) /\ x \in Asks /\ y \in Asks
    BY <2>1 DEF Precedes
  <2>3. \A p, q \in Asks : Precedes(e \o f, p, q) => Precedes(w.arrived, p, q)
    BY <1>2 DEF Tended, InPlace
  <2> HIDE DEF x, y, e, f
  <2>4. Precedes(e \o f, x, y)
    BY <2>1, <2>2, OrderConcat
  <2>5. Precedes(w.arrived, x, y)
    BY <2>2, <2>3, <2>4
  <2> QED
    BY <2>5 DEF Precedes, x, y
<1> QED
  BY <1>3, <1>4, <1>5, <1>6 DEF MailboxKept

LEMMA RInvAlways == Spec => []RInv
<1>1. Init => RInv
  BY RInvInit
<1>2. RInv /\ [Next]_vars => RInv'
  BY RInvNext
<1> QED
  BY <1>1, <1>2, PTL DEF Spec

\* The rows of the calls and the delegations keep their types through every turn,
\* commit, failure and reload, and a call holds an outcome back only while it runs.
THEOREM RegionTypes == Spec => []TypeOK
<1>1. RInv => TypeOK
  BY RInvTypeOK
<1> QED
  BY <1>1, RInvAlways, PTL

\* No fiber outlives its nursery; the running set in memory is what the rows say;
\* only a cancel that lives is resumed, and what one was told is true.
THEOREM FibersOfNursery == Spec => []FibersKept
<1>1. RInv => FibersKept
  BY RInvFibers
<1> QED
  BY <1>1, RInvAlways, PTL

\* An ask waits beside no watch that would take it, is found somewhere as long as
\* its fiber runs, and goes up in the order of arrival; no report is lost.
THEOREM MailboxOfNursery == Spec => []MailboxKept
<1>1. RInv => MailboxKept
  BY RInvMailbox
<1> QED
  BY <1>1, RInvAlways, PTL
=============================================================================
