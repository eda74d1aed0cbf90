----------------------------- MODULE TimeProofs -----------------------------
(***************************************************************************)
(* The safety of the time reactor, for any calls, any spans, any plan and  *)
(* any misfortune: TInv is inductive, and implies what the run "callers"   *)
(* checks of it.                                                           *)
(***************************************************************************)
EXTENDS Time, CallReactorProofs

Keyed == Sleep \cup Watch
Alarm(c) == Work("timer", c)
Alarms   == {Alarm(c) : c \in Keyed}

Open(u, i) == u.edge[i] \in {"running", "cancelling"}

\* The fields of the reactor's own.
IsTimed(u) ==
  /\ {"due", "opened", "woken", "ticks"} \subseteq DOMAIN u
  /\ u.due \in [Keyed -> Nat] /\ u.opened \in [Keyed -> Nat]
  /\ u.woken \subseteq Sleep \X Nat /\ u.ticks \in [Watch -> Seq(Nat)]
  /\ u.bridge \subseteq Inner \X {"tick"}

\* A sleep that was opened is due when its span is over, and ended no earlier.
SleepOk(u, c) ==
  /\ u.status[c] # "none" => u.due[c] = u.opened[c] + Span[c]
  /\ \A e \in u.woken : e[1] = c => u.status[c] # "none" /\ e[2] >= u.due[c]

\* x is a moment of the schedule that began at `from`.
OnGrid(x, from, period) == \E k \in Nat \ {0} : x = from + period * k

\* What was delivered lies on the grid, in order, and before what is due.
TicksOk(u, v) ==
  /\ u.status[v] = "none" => u.ticks[v] = << >>
  /\ u.status[v] # "none" => OnGrid(u.due[v], u.opened[v], Span[v])
  /\ \A n \in DOMAIN u.ticks[v] :
       /\ OnGrid(u.ticks[v][n], u.opened[v], Span[v]) /\ u.ticks[v][n] < u.due[v]
       /\ n > 1 => u.ticks[v][n - 1] < u.ticks[v][n]

\* A watch holds no outcome and has one delivery open at most; while it runs,
\* nobody tears a delivery down, and the transport knows the one that is open.
WatchOk(u, v) ==
  /\ u.held[v] = "nothing"
  /\ \A i, j \in Children(v) : Open(u, i) /\ Open(u, j) => i = j
  /\ u.status[v] = "running" => \A i \in Children(v) :
       /\ u.edge[i] # "cancelling" /\ ~Told(u, i)
       /\ Open(u, i) => \E b \in u.bridge : b[1] = i

\* What is staged is an occurrence of a watch; of one that runs, it returned.
StagedOk(u) ==
  \A e \in ToSet(u.staged) :
    /\ e.call \in Watch /\ e.call = ParentOf[e.inner]
    /\ u.status[e.call] = "running" => e.outcome = "result"

Lives(u) ==
  /\ Consistent(u) /\ IsTimed(u) /\ Staged(u) /\ StagedOk(u)
  /\ \A i \in Inner : u.edge[i] # "none" => ParentOf[i] \in Watch
  /\ \A c \in Call : SettledOk(u, c)
  /\ \A v \in Watch : WatchOk(u, v)

Timely(u) ==
  /\ Lives(u)
  /\ \A c \in Sleep : SleepOk(u, c)
  /\ \A v \in Watch : TicksOk(u, v)

\* The committed state holds none of what lives in memory.
Committed(u) ==
  /\ u.held = [c \in Call |-> "nothing"] /\ u.settled = [c \in Call |-> FALSE]
  /\ u.staged = << >> /\ \A t \in ToSet(u.mail) : IsEvent(t)

\* What is not an event is an answer of the transport, or an alarm whose call
\* was opened; no sleep's rings early, and no watch is answered that runs.
MailOk(u) ==
  /\ \A t \in ToSet(u.mail) : ~IsEvent(t) => t \in Completions \cup Alarms
  /\ \A c \in Keyed : Has(u.mail, Alarm(c)) =>
       u.status[c] # "none" /\ (c \in Sleep => clock >= u.due[c])
  /\ \A v \in Watch, o \in Outcomes :
       Has(u.mail, Completion(v, o)) => u.status[v] \in {"cancelling", "gone"}

TimersOk ==
  /\ \A t \in timers : /\ t.call \in Keyed /\ Live(warm, t.call) /\ t.deadline \in Nat
                       /\ t.call \in Sleep => t.deadline = warm.due[t.call]
  /\ \A t, u \in timers : t.call = u.call => t = u

\* What will move a watch.
Armed(v)  == \E t \in timers : t.call = v
Rings(v)  == Has(warm.mail, Alarm(v))
Awaits(v) == \E e \in ToSet(warm.staged) : e.call = v
Begins(v) == Has(after, Event("delegate", v, Own))

\* One of four.
OneOf(a, b, c, d) ==
  /\ a \/ b \/ c \/ d
  /\ ~(a /\ b) /\ ~(a /\ c) /\ ~(a /\ d) /\ ~(b /\ c) /\ ~(b /\ d) /\ ~(c /\ d)

\* A watch that runs is moved by one thing, or its start waits for the commit.
MovedOnce(v) ==
  warm.status[v] = "running" =>
    /\ ~Precedes(warm.mail, Alarm(v), Alarm(v))
    /\ Begins(v) => ~Armed(v) /\ ~Rings(v) /\ ~Awaits(v) /\ ~Draining(warm, v)
    /\ ~Begins(v) => OneOf(Armed(v), Rings(v), Awaits(v), Draining(warm, v))

TInv ==
  /\ phase \in {"down", "idle", "batch", "post"}
  /\ clock \in 0..MaxClock
  /\ Timely(rows) /\ Committed(rows)
  /\ IsMail(after) /\ \A t \in ToSet(after) : IsEvent(t)
  /\ phase = "down" => warm = [rows EXCEPT !.mail = << >>] /\ timers = {} /\ after = << >>
  /\ phase # "down" => /\ Timely(warm) /\ MailOk(warm) /\ TimersOk
                       /\ \A v \in Watch : MovedOnce(v)

-----------------------------------------------------------------------------
(* Moments.                                                                *)

\* The next occurrence is a later moment of the same schedule.
LEMMA NextFacts ==
  ASSUME NEW previous \in Nat, NEW period \in Nat, period > 0, NEW now \in Nat
  PROVE  LET next == NextOccurrence(previous, period, now)
         IN /\ next \in Nat /\ next > previous
            /\ \E k \in Nat \ {0} : next = previous + period * k
<1> DEFINE missed == IF now < previous THEN 0 ELSE (now - previous) \div period
           k == missed + 1
<1>1. missed \in Nat
  OBVIOUS
<1>2. k \in Nat /\ k > 0 /\ NextOccurrence(previous, period, now) = previous + period * k
  BY <1>1 DEF NextOccurrence
<1> HIDE DEF k
<1>3. period * k \in Nat /\ period * k > 0
  BY <1>2
<1> QED
  BY <1>2, <1>3

\* A moment of the schedule, moved on by whole periods.
LEMMA GridFacts ==
  ASSUME NEW x, NEW from \in Nat, NEW period \in Nat, period > 0, OnGrid(x, from, period)
  PROVE  /\ x \in Nat /\ x > from /\ (x - from) % period = 0
         /\ \A k \in Nat \ {0} : OnGrid(x + period * k, from, period)
<1>1. PICK k \in Nat \ {0} : x = from + period * k
  BY DEF OnGrid
<1> DEFINE z == period * k
<1>2. z \in Nat /\ z > 0
  OBVIOUS
<1>3. x \in Nat /\ x > from /\ x - from = z
  BY <1>1, <1>2
<1>4. z % period = 0
  <2> DEFINE q == z \div period
             r == z % period
  <2>1. q \in Int /\ r \in 0..(period - 1) /\ z = period * q + r
    OBVIOUS
  <2>2. r = period * (k - q)
    BY <2>1
  <2>3. k - q <= 0
    <3> SUFFICES ASSUME k - q >= 1 PROVE FALSE
      BY <2>1
    <3>1. period * (k - q) >= period
      BY <2>1
    <3> QED
      BY <2>1, <2>2, <3>1
  <2>4. k - q >= 0
    <3> SUFFICES ASSUME k - q <= -1 PROVE FALSE
      BY <2>1
    <3>1. period * (k - q) <= -period
      BY <2>1
    <3> QED
      BY <2>1, <2>2, <3>1
  <2> QED
    BY <2>1, <2>2, <2>3, <2>4
<1>5. ASSUME NEW l \in Nat \ {0} PROVE OnGrid(x + period * l, from, period)
  <2>1. x + period * l = from + period * (k + l)
    BY <1>1
  <2> QED
    BY <2>1 DEF OnGrid
<1> QED
  BY <1>3, <1>4, <1>5

LEMMA NextOnGrid ==
  ASSUME NEW x \in Nat, NEW from \in Nat, NEW period \in Nat, period > 0, NEW now \in Nat,
         x = from \/ OnGrid(x, from, period)
  PROVE  LET next == NextOccurrence(x, period, now)
         IN next \in Nat /\ next > x /\ OnGrid(next, from, period)
<1> DEFINE next == NextOccurrence(x, period, now)
<1>1. next \in Nat /\ next > x
  BY NextFacts
<1>2. PICK k \in Nat \ {0} : next = x + period * k
  BY NextFacts
<1> HIDE DEF next
<1>3. OnGrid(next, from, period)
  <2>1. CASE x = from
    BY <1>2, <2>1 DEF OnGrid
  <2>2. CASE OnGrid(x, from, period)
    BY <1>2, <2>2, GridFacts
  <2> QED
    BY <2>1, <2>2
<1> QED
  BY <1>1, <1>3 DEF next

-----------------------------------------------------------------------------
(* The first state.                                                        *)

LEMMA TInvInit == ASSUME TimeAssumption, Init PROVE TInv
<1> DEFINE own == [due |-> [c \in Keyed |-> 0], opened |-> [c \in Keyed |-> 0],
                   woken |-> {}, ticks |-> [v \in Watch |-> << >>]]
<1>1. /\ warm = WarmWith(own) /\ rows = warm /\ phase = "down" /\ after = << >>
      /\ clock = 0 /\ timers = {}
  BY DEF Init, InitFrom, TimeWarm, Keyed
<1>2. DOMAIN own = {"due", "opened", "woken", "ticks"}
  OBVIOUS
<1>3. /\ Consistent(warm) /\ DOMAIN warm = Fields \cup DOMAIN own
      /\ \A f \in DOMAIN own : warm[f] = own[f]
      /\ \A f \in Fields : warm[f] = InitialWarm[f]
  <2>1. DOMAIN own \cap Fields = {}
    BY <1>2 DEF Fields
  <2> HIDE DEF own
  <2> QED
    BY <1>1, <2>1, WarmWithFacts
<1>4. /\ warm.due = [c \in Keyed |-> 0] /\ warm.opened = [c \in Keyed |-> 0]
      /\ warm.woken = {} /\ warm.ticks = [v \in Watch |-> << >>]
  BY <1>2, <1>3
<1>5. /\ warm.status = [c \in Call |-> "none"] /\ warm.settled = [c \in Call |-> FALSE]
      /\ warm.held = [c \in Call |-> "nothing"] /\ warm.edge = [i \in Inner |-> "none"]
      /\ warm.bridge = {} /\ warm.staged = << >> /\ warm.mail = << >>
  BY <1>3 DEF Fields, InitialWarm
<1>6. {"due", "opened", "woken", "ticks"} \subseteq DOMAIN warm
  BY <1>2, <1>3
<1> HIDE DEF own
<1>7. ToSet(<< >>) = {} /\ IsMail(<< >>) /\ (\A e : ~Has(<< >>, e))
  BY MailNone, ToSetEmpty
<1>8. Keyed \subseteq Call /\ Watch \subseteq Keyed /\ Sleep \subseteq Keyed
  BY DEF TimeAssumption, Keyed
<1>9. IsTimed(warm) /\ Staged(warm) /\ StagedOk(warm)
  BY <1>4, <1>5, <1>6, <1>7 DEF IsTimed, Staged, StagedOk
<1>10. \A c \in Call : SettledOk(warm, c)
  BY <1>5 DEF SettledOk
<1>11. \A c \in Sleep : SleepOk(warm, c)
  BY <1>4, <1>5, <1>8 DEF SleepOk
<1>12. \A v \in Watch : TicksOk(warm, v)
  BY <1>4, <1>5, <1>8 DEF TicksOk
<1>13. \A v \in Watch : WatchOk(warm, v)
  BY <1>5, <1>8 DEF WatchOk, Open, Children
<1>14. Timely(warm) /\ Timely(rows)
  BY <1>1, <1>3, <1>5, <1>9, <1>10, <1>11, <1>12, <1>13 DEF Timely, Lives
<1>15. Committed(rows)
  BY <1>1, <1>5, <1>7 DEF Committed
<1>16. warm = [rows EXCEPT !.mail = << >>]
  BY <1>1, <1>3, <1>5 DEF Consistent, IsWarm, Fields
<1>17. clock \in 0..MaxClock
  BY <1>1 DEF TimeAssumption
<1>18. IsMail(after) /\ \A t \in ToSet(after) : IsEvent(t)
  BY <1>1, <1>7
<1> QED
  BY <1>1, <1>14, <1>15, <1>16, <1>17, <1>18 DEF TInv

-----------------------------------------------------------------------------
(* What a step of the lifecycle leaves timely.                             *)

LEMMA CallsOf ==
  ASSUME TimeAssumption
  PROVE  /\ Keyed \subseteq Call /\ Watch \subseteq Keyed /\ Sleep \subseteq Keyed
         /\ Sleep \cap Watch = {}
         /\ \A c \in Keyed : Span[c] \in Nat /\ (c \in Watch => Span[c] > 0)
         /\ \A c \in Call \ Keyed : c \in Now \cup Invalid
BY DEF TimeAssumption, Keyed

LEMMA BridgeOfTimed == ASSUME NEW u, IsTimed(u) PROVE IsFiniteSet(u.bridge)
<1>1. IsFiniteSet({"tick"})
  BY FS_Singleton
<1>2. IsFiniteSet(Inner \X {"tick"})
  BY <1>1, InnerAssumption, FS_Product
<1> QED
  BY <1>2, FS_Subset DEF IsTimed

\* The reactor's own fields are what they were.
OwnSame(w, v) ==
  /\ {"due", "opened", "woken", "ticks"} \subseteq DOMAIN v
  /\ v.due = w.due /\ v.opened = w.opened /\ v.woken = w.woken /\ v.ticks = w.ticks

LEMMA OwnIsSame ==
  ASSUME NEW w, IsTimed(w), NEW v, OwnFields(w, v) PROVE OwnSame(w, v)
BY DEF IsTimed, OwnFields, OwnSame, Fields

\* The call is there as it was: what is kept of its moments holds.
LEMMA MomentsKept ==
  ASSUME NEW w, NEW v, OwnSame(w, v), NEW c, v.status[c] = "none" <=> w.status[c] = "none"
  PROVE  /\ SleepOk(w, c) => SleepOk(v, c)
         /\ TicksOk(w, c) => TicksOk(v, c)
BY DEF OwnSame, SleepOk, TicksOk

LEMMA WatchStays ==
  ASSUME NEW w, NEW v, NEW c, WatchOk(w, c), Stays(w, v, c)
  PROVE  WatchOk(v, c)
<1>1. v.held[c] = "nothing" /\ v.status[c] = w.status[c]
  BY DEF WatchOk, Stays
<1>2. \A i \in Children(c) : v.edge[i] = w.edge[i] /\ (Told(v, i) => Told(w, i)) /\ ParentOf[i] = c
  BY DEF Stays, Children
<1>3. \A i, j \in Children(c) : Open(v, i) /\ Open(v, j) => i = j
  BY <1>2 DEF WatchOk, Open
<1>4. ASSUME v.status[c] = "running", NEW i \in Children(c)
      PROVE  v.edge[i] # "cancelling" /\ ~Told(v, i) /\ (Open(v, i) => \E b \in v.bridge : b[1] = i)
  <2>1. w.edge[i] # "cancelling" /\ ~Told(w, i) /\ (Open(w, i) => \E b \in w.bridge : b[1] = i)
    BY <1>1, <1>4 DEF WatchOk
  <2>2. Open(v, i) => \E b \in v.bridge : b[1] = i
    BY <1>2, <1>4, <2>1 DEF Stays, Open
  <2> QED
    BY <1>2, <1>4, <2>1, <2>2
<1> QED
  BY <1>1, <1>3, <1>4 DEF WatchOk

LEMMA WatchWinds ==
  ASSUME NEW w, NEW v, NEW c, WatchOk(w, c), Winds(w, v, c)
  PROVE  WatchOk(v, c)
<1>1. v.held[c] = "nothing" /\ v.status[c] # "running"
  BY DEF Winds
<1>2. \A i, j \in Children(c) : Open(v, i) /\ Open(v, j) => i = j
  BY DEF WatchOk, Winds, Open
<1> QED
  BY <1>1, <1>2 DEF WatchOk

LEMMA WatchReturns ==
  ASSUME NEW w, IsWarm(w), NEW v, NEW c, WatchOk(w, c), NEW i \in Children(c), ComesBack(w, v, i)
  PROVE  WatchOk(v, c)
<1>1. ParentOf[i] = c /\ i \in Inner
  BY DEF Children
<1>2. v.held[c] = "nothing" /\ v.status[c] = "running" /\ w.status[c] = "running"
  BY <1>1 DEF WatchOk, ComesBack
<1>3. /\ v.edge[i] = "retired" /\ \A j \in Children(c) : j # i => v.edge[j] = w.edge[j]
  BY <1>1 DEF ComesBack, IsWarm, Children
<1>4. \A j, k \in Children(c) : Open(v, j) /\ Open(v, k) => j = k
  BY <1>3 DEF WatchOk, Open
<1>5. ASSUME NEW j \in Children(c)
      PROVE  v.edge[j] # "cancelling" /\ ~Told(v, j) /\ (Open(v, j) => \E b \in v.bridge : b[1] = j)
  <2>1. w.edge[j] # "cancelling" /\ ~Told(w, j) /\ (Open(w, j) => \E b \in w.bridge : b[1] = j)
    BY <1>2 DEF WatchOk
  <2>2. Told(v, j) => Told(w, j)
    BY <1>1 DEF ComesBack
  <2>3. Open(v, j) => \E b \in v.bridge : b[1] = j
    BY <1>1, <1>3, <2>1 DEF ComesBack, Open
  <2> QED
    BY <1>3, <2>1, <2>2, <2>3
<1> QED
  BY <1>2, <1>4, <1>5 DEF WatchOk

\* A watch that was not there has no delivery, and nothing is staged for it.
LEMMA NotYet ==
  ASSUME NEW w, Lives(w), NEW c \in Call, w.status[c] = "none"
  PROVE  /\ \A i \in Children(c) : w.edge[i] = "none" /\ ~Told(w, i)
         /\ \A e \in ToSet(w.staged) : e.call # c
         /\ w.held[c] = "nothing"
<1>1. Consistent(w) /\ Staged(w) /\ StagedOk(w)
  BY DEF Lives
<1>2. ASSUME NEW i \in Children(c) PROVE w.edge[i] = "none" /\ ~Told(w, i)
  <2>1. i \in Inner /\ ParentOf[i] = c
    BY DEF Children
  <2>2. InnerOk(w, i) /\ Wound(w, i)
    BY <1>1, <2>1 DEF Consistent
  <2>3. w.edge[i] = "none" /\ w.callee[i] = "none"
    BY <2>1, <2>2 DEF InnerOk, Wound
  <2> QED
    BY <2>2, <2>3 DEF InnerOk, Acked, Told
<1>3. ASSUME NEW e \in ToSet(w.staged) PROVE e.call # c
  <2>1. e.inner \in Inner /\ w.edge[e.inner] = "retired" /\ e.call = ParentOf[e.inner]
    BY <1>1 DEF Staged, StagedOk
  <2> QED
    BY <1>2, <2>1 DEF Children
<1>4. w.held[c] = "nothing"
  BY <1>1 DEF Consistent, HeldOk, IsWarm
<1> QED
  BY <1>2, <1>3, <1>4

-----------------------------------------------------------------------------
(* A letter.                                                               *)

\* What a letter makes of a call is a start only if it is the letter that opens it.
LEMMA LetterStarts ==
  ASSUME NEW w, Lives(w), w.mail # << >>, IsEvent(Head(w.mail)), NEW v,
         v = IF ToReactor(Head(w.mail)) THEN ReactorReact(Rest(w), Head(w.mail))
                                        ELSE CoreReact(Rest(w), Head(w.mail)),
         NEW c \in Call, Head(w.mail) # Event("delegate", c, Own)
  PROVE  v.status[c] = "none" <=> w.status[c] = "none"
<1>1. Consistent(w) /\ Staged(w) /\ IsFiniteSet(w.bridge) /\ \A d \in Call : SettledOk(w, d)
  BY BridgeOfTimed DEF Lives
<1>2. SteadyBut(w, v, {})
  BY <1>1, LettersSteady
<1>3. ASSUME w.status[c] = "none" PROVE v.status[c] = "none"
  <2>1. w.held[c] = "nothing"
    BY <1>3, NotYet
  <2>2. \/ Stays(w, v, c) \/ Winds(w, v, c)
        \/ \E i \in Children(c) : ComesBack(w, v, i)
    BY <1>1, <2>1, LettersLeave
  <2> QED
    BY <1>3, <2>2 DEF Stays, Winds, ComesBack, Children
<1> QED
  BY <1>2, <1>3 DEF SteadyBut

\* What a letter makes of a watch.
LEMMA LetterWatch ==
  ASSUME NEW w, Lives(w), w.mail # << >>, IsEvent(Head(w.mail)), NEW v,
         v = IF ToReactor(Head(w.mail)) THEN ReactorReact(Rest(w), Head(w.mail))
                                        ELSE CoreReact(Rest(w), Head(w.mail)),
         NEW c \in Call, WatchOk(w, c)
  PROVE  WatchOk(v, c)
<1> DEFINE t == Head(w.mail)
<1>1. Consistent(w) /\ Staged(w) /\ IsFiniteSet(w.bridge) /\ IsWarm(w) /\ w.held[c] = "nothing"
  BY BridgeOfTimed DEF Lives, Consistent, WatchOk
<1>2. \/ Stays(w, v, c) \/ Winds(w, v, c)
      \/ t = Event("delegate", c, Own) /\ v = OnDelegate(Rest(w), c)
      \/ \E i \in Children(c) : ComesBack(w, v, i)
  BY <1>1, LettersLeave
<1>3. CASE t = Event("delegate", c, Own) /\ v = OnDelegate(Rest(w), c)
  <2>1. Has(w.mail, t)
    BY <1>1, TakeFacts
  <2>2. w.status[c] = "none"
    BY <1>1, <1>3, <2>1 DEF Consistent, CallOk
  <2>3. \A i \in Children(c) : w.edge[i] = "none" /\ ~Told(w, i)
    BY <2>2, NotYet
  <2>4. IsWarm(Rest(w)) /\ Rest(w).edge = w.edge /\ Rest(w).held = w.held
    BY <1>1, RestFacts, RestSame
  <2>5. \A i : Told(Rest(w), i) => Told(w, i)
    BY <1>1, ToldRest
  <2> DEFINE u == Rest(w)
  <2> HIDE DEF u
  <2>6. v.edge = u.edge /\ v.mail = u.mail /\ v.held = u.held
    BY <1>3, <2>4 DEF OnDelegate, IsWarm, Fields, u
  <2>7. \A i \in Children(c) : v.edge[i] = "none" /\ ~Told(v, i)
    BY <2>3, <2>4, <2>5, <2>6 DEF Told, u
  <2>8. v.held[c] = "nothing"
    BY <1>1, <2>4, <2>6 DEF u
  <2> QED
    BY <2>7, <2>8 DEF WatchOk, Open
<1> QED
  BY <1>1, <1>2, <1>3, WatchStays, WatchWinds, WatchReturns

\* What waits for the transport is a delivery of a watch; one that runs got it back.
LEMMA LetterStages ==
  ASSUME NEW w, Lives(w), w.mail # << >>, IsEvent(Head(w.mail)), NEW v,
         v = IF ToReactor(Head(w.mail)) THEN ReactorReact(Rest(w), Head(w.mail))
                                        ELSE CoreReact(Rest(w), Head(w.mail))
  PROVE  StagedOk(v)
<1> DEFINE t == Head(w.mail)
<1>1. Consistent(w) /\ Staged(w) /\ StagedOk(w) /\ IsFiniteSet(w.bridge) /\ IsWarm(w)
  BY BridgeOfTimed DEF Lives, Consistent
<1>2. \/ v.staged = w.staged
      \/ /\ t.d \in Inner /\ t.k \in {"delegateAck", "terminateAck"} /\ t = Event(t.k, t.d, Own)
         /\ StagesOne(w, v, t.d, IF t.k = "delegateAck" THEN "result" ELSE "cancelled")
  BY <1>1, LettersLeave
<1>3. Has(w.mail, t)
  BY <1>1, TakeFacts
<1>4. ASSUME NEW c \in Call, NEW i \in Inner, ParentOf[i] = c, w.edge[i] # "none",
             v.status[c] = "running"
      PROVE  w.status[c] = "running"
  <2>1. w.status[c] # "none" /\ c \in Watch
    BY <1>1, <1>4 DEF Lives, Consistent, Wound
  <2>2. w.held[c] = "nothing"
    BY <2>1 DEF Lives, WatchOk
  <2>3. \/ Stays(w, v, c) \/ Winds(w, v, c)
        \/ t = Event("delegate", c, Own)
        \/ \E j \in Children(c) : ComesBack(w, v, j)
    BY <1>1, <2>2, LettersLeave
  <2>4. t # Event("delegate", c, Own)
    BY <1>1, <1>3, <2>1 DEF Consistent, CallOk
  <2> QED
    BY <1>4, <2>3, <2>4 DEF Stays, Winds, ComesBack, Children
<1>5. ASSUME NEW e \in ToSet(w.staged)
      PROVE  /\ e.call \in Watch /\ e.call = ParentOf[e.inner]
             /\ v.status[e.call] = "running" => e.outcome = "result"
  <2>1. /\ e.call \in Watch /\ e.call = ParentOf[e.inner]
        /\ w.status[e.call] = "running" => e.outcome = "result"
        /\ e.inner \in Inner /\ w.edge[e.inner] = "retired"
    BY <1>1 DEF Staged, StagedOk
  <2>2. e.call \in Call
    BY <2>1, ParentAssumption
  <2> QED
    BY <1>4, <2>1, <2>2
<1>6. ASSUME NEW i \in Inner, w.edge[i] \in {"running", "cancelling"},
             t = Event("terminateAck", i, Own), v.status[ParentOf[i]] = "running"
      PROVE  FALSE
  <2>1. ParentOf[i] \in Call /\ i \in Children(ParentOf[i])
    BY <1>6, ParentAssumption DEF Children
  <2>2. w.status[ParentOf[i]] = "running" /\ ParentOf[i] \in Watch
    BY <1>4, <1>6, <2>1 DEF Lives
  <2>3. ~Told(w, i)
    BY <2>1, <2>2 DEF Lives, WatchOk
  <2> QED
    BY <1>3, <1>6, <2>3 DEF Told
<1>7. ASSUME NEW i \in Inner, NEW o, w.edge[i] \in {"running", "cancelling"}, NEW e,
             e.inner = i, e.call = ParentOf[i], e.outcome = o,
             v.status[ParentOf[i]] = "running" => o = "result"
      PROVE  /\ e.call \in Watch /\ e.call = ParentOf[e.inner]
             /\ v.status[e.call] = "running" => e.outcome = "result"
  BY <1>7 DEF Lives
<1>8. ASSUME t.d \in Inner, t.k \in {"delegateAck", "terminateAck"}, t = Event(t.k, t.d, Own),
             w.edge[t.d] \in {"running", "cancelling"}, v.status[ParentOf[t.d]] = "running"
      PROVE  t.k = "delegateAck"
  BY <1>6, <1>8
<1> HIDE DEF t
<1>9. ASSUME NEW e \in ToSet(v.staged), e \notin ToSet(w.staged)
      PROVE  /\ e.call \in Watch /\ e.call = ParentOf[e.inner]
             /\ v.status[e.call] = "running" => e.outcome = "result"
  <2> DEFINE o == IF t.k = "delegateAck" THEN "result" ELSE "cancelled"
  <2>1. /\ t.d \in Inner /\ t.k \in {"delegateAck", "terminateAck"} /\ t = Event(t.k, t.d, Own)
        /\ StagesOne(w, v, t.d, o)
    BY <1>2, <1>9
  <2> HIDE DEF o
  <2>2. w.edge[t.d] \in {"running", "cancelling"} /\ e.inner = t.d /\ e.call = ParentOf[t.d] /\ e.outcome = o
    BY <1>9, <2>1 DEF StagesOne
  <2>3. v.status[ParentOf[t.d]] = "running" => o = "result"
    BY <1>8, <2>1, <2>2 DEF o
  <2> QED
    BY <1>7, <2>1, <2>2, <2>3
<1> QED
  BY <1>5, <1>9 DEF StagedOk

LEMMA LetterLives ==
  ASSUME TimeAssumption, NEW w, Lives(w), w.mail # << >>, IsEvent(Head(w.mail)), NEW v,
         v = IF ToReactor(Head(w.mail)) THEN ReactorReact(Rest(w), Head(w.mail))
                                        ELSE CoreReact(Rest(w), Head(w.mail))
  PROVE  Lives(v) /\ OwnSame(w, v)
<1>1. Consistent(w) /\ Staged(w) /\ IsFiniteSet(w.bridge) /\ \A d \in Call : SettledOk(w, d)
  BY BridgeOfTimed DEF Lives
<1>2. SteadyBut(w, v, {}) /\ Consistent(v) /\ OwnFields(w, v)
  BY <1>1, LettersSteady, LettersKeep, LettersLeave
<1>3. IsTimed(w) /\ OwnSame(w, v)
  BY <1>2, OwnIsSame DEF Lives
<1>4. IsTimed(v)
  BY <1>2, <1>3 DEF IsTimed, OwnSame, SteadyBut
<1>5. \A c \in Watch : WatchOk(v, c)
  BY LetterWatch, CallsOf DEF Lives
<1>6. Staged(v) /\ (\A c \in Call : SettledOk(v, c))
      /\ \A i \in Inner : v.edge[i] # "none" => ParentOf[i] \in Watch
  BY <1>1, <1>2 DEF SteadyBut, Lives
<1> QED
  BY <1>2, <1>3, <1>4, <1>5, <1>6, LetterStages DEF Lives

\* A letter that opens no call.
LEMMA LetterTimely ==
  ASSUME TimeAssumption, NEW w, Timely(w), w.mail # << >>, IsEvent(Head(w.mail)), NEW v,
         v = IF ToReactor(Head(w.mail)) THEN ReactorReact(Rest(w), Head(w.mail))
                                        ELSE CoreReact(Rest(w), Head(w.mail)),
         \A c \in Call : Head(w.mail) # Event("delegate", c, Own)
  PROVE  Timely(v)
<1>1. Lives(v) /\ OwnSame(w, v)
  BY LetterLives DEF Timely
<1>2. \A c \in Call : v.status[c] = "none" <=> w.status[c] = "none"
  BY LetterStarts DEF Timely
<1>3. \A c \in Keyed : (SleepOk(w, c) => SleepOk(v, c)) /\ (TicksOk(w, c) => TicksOk(v, c))
  BY <1>1, <1>2, MomentsKept, CallsOf
<1> QED
  BY <1>1, <1>3, CallsOf DEF Timely

\* The reactor's own fields change, and no others.
LEMMA OwnLives ==
  ASSUME NEW u, Lives(u), NEW v, DOMAIN v = DOMAIN u, v = [f \in DOMAIN v |-> v[f]],
         \A f \in Fields : v[f] = u[f], IsTimed(v)
  PROVE  Lives(v)
<1>1. Consistent(u) /\ IsWarm(u)
  BY DEF Lives, Consistent
<1>2. /\ v.status = u.status /\ v.settled = u.settled /\ v.held = u.held /\ v.relays = u.relays
      /\ v.edge = u.edge /\ v.bridge = u.bridge /\ v.staged = u.staged /\ v.raised = u.raised
      /\ v.proxy = u.proxy /\ v.asked = u.asked /\ v.callee = u.callee /\ v.mail = u.mail
  BY DEF Fields
<1>3. IsWarm(v)
  BY <1>1, <1>2 DEF IsWarm
<1>4. Consistent(v)
  BY <1>1, <1>2, <1>3, SameLettersKeep
<1>5. Staged(v) /\ StagedOk(v) /\ \A c \in Call : SettledOk(v, c)
  BY <1>2 DEF Lives, Staged, StagedOk, SettledOk
<1>6. \A c \in Watch : WatchOk(v, c)
  BY <1>2 DEF Lives, WatchOk, Open, Told
<1> QED
  BY <1>2, <1>4, <1>5, <1>6 DEF Lives

\* A call is opened: a deadline, or the first occurrence, is set.
LEMMA OpenedTimely ==
  ASSUME TimeAssumption, NEW w, Timely(w), NEW u, Lives(u), OwnSame(w, u), NEW c \in Call,
         clock \in Nat, w.status[c] = "none", u.status[c] # "none",
         \A d \in Call : d # c => (u.status[d] = "none" <=> w.status[d] = "none")
  PROVE  LET v == OpenPayload(u, c)
         IN Timely(v) /\ DOMAIN v = DOMAIN u /\ \A f \in Fields : v[f] = u[f]
<1> DEFINE v == OpenPayload(u, c)
<1>1. IsTimed(u) /\ IsWarm(u)
  BY DEF Lives, Consistent
<1>2. \A d \in Call : d # c => (SleepOk(w, d) => SleepOk(u, d)) /\ (TicksOk(w, d) => TicksOk(u, d))
  BY MomentsKept
<1>3. \A d \in Call : d # c => (d \in Sleep => SleepOk(u, d)) /\ (d \in Watch => TicksOk(u, d))
  BY <1>2 DEF Timely
<1>4. CASE c \notin Keyed
  <2>1. v = u
    BY <1>4 DEF OpenPayload, Keyed
  <2> QED
    BY <1>3, <1>4, <2>1, CallsOf DEF Timely
<1>5. CASE c \in Keyed
  <2> DEFINE due == IF c \in Sleep THEN clock + Span[c] ELSE NextOccurrence(clock, Span[c], clock)
  <2>1. v = [u EXCEPT !.opened[c] = clock, !.due[c] = due]
    BY <1>5 DEF OpenPayload, Keyed
  <2>2. due \in Nat /\ (c \in Watch => OnGrid(due, clock, Span[c]))
    <3>1. CASE c \in Sleep
      BY <3>1, CallsOf
    <3>2. CASE c \notin Sleep
      <4>1. c \in Watch /\ Span[c] \in Nat /\ Span[c] > 0
        BY <1>5, <3>2, CallsOf DEF Keyed
      <4> QED
        BY <3>2, <4>1, NextOnGrid
    <3> QED
      BY <3>1, <3>2
  <2>3. c \in Sleep => due = clock + Span[c]
    OBVIOUS
  <2> HIDE DEF due, v
  <2>4. /\ DOMAIN v = DOMAIN u /\ v = [f \in DOMAIN v |-> v[f]] /\ \A f \in Fields : v[f] = u[f]
        /\ v.opened = [u.opened EXCEPT ![c] = clock] /\ v.due = [u.due EXCEPT ![c] = due]
        /\ v.woken = u.woken /\ v.ticks = u.ticks
    BY <1>1, <2>1 DEF IsTimed, IsWarm, Fields
  <2>5. v.status = u.status /\ v.bridge = u.bridge
    BY <2>4 DEF Fields
  <2>6. IsTimed(v)
    BY <1>1, <1>5, <2>2, <2>4, <2>5 DEF IsTimed
  <2>7. Lives(v)
    BY <2>4, <2>6, OwnLives
  <2>8. \A d \in Keyed : d # c => v.due[d] = u.due[d] /\ v.opened[d] = u.opened[d]
    BY <1>1, <2>4 DEF IsTimed
  <2>9. \A d \in Sleep : d # c => SleepOk(v, d)
    BY <1>3, <2>4, <2>5, <2>8, CallsOf DEF SleepOk
  <2>10. \A d \in Watch : d # c => TicksOk(v, d)
    BY <1>3, <2>4, <2>5, <2>8, CallsOf DEF TicksOk
  <2>11. v.due[c] = due /\ v.opened[c] = clock
    BY <1>1, <1>5, <2>4 DEF IsTimed
  <2>12. u.woken = w.woken /\ u.ticks = w.ticks
    BY DEF OwnSame
  <2>13. c \in Sleep => SleepOk(v, c)
    <3>1. c \in Sleep => \A e \in w.woken : e[1] # c
      BY DEF Timely, SleepOk
    <3> QED
      BY <2>3, <2>4, <2>11, <2>12, <3>1 DEF SleepOk
  <2>14. c \in Watch => TicksOk(v, c)
    <3>1. c \in Watch => w.ticks[c] = << >>
      BY DEF Timely, TicksOk
    <3> QED
      BY <2>2, <2>4, <2>5, <2>11, <2>12, <3>1 DEF TicksOk
  <2> QED
    BY <2>4, <2>7, <2>9, <2>10, <2>13, <2>14 DEF Timely, v
<1> QED
  BY <1>4, <1>5

-----------------------------------------------------------------------------
(* A turn.                                                                 *)

\* The invariant says of the state in memory that it is timely, while it is there.
LEMMA Awake ==
  ASSUME TInv, phase # "down"
  PROVE  /\ Timely(warm) /\ MailOk(warm) /\ TimersOk /\ (\A v \in Watch : MovedOnce(v))
         /\ Lives(warm) /\ Consistent(warm) /\ IsWarm(warm) /\ IsMail(warm.mail)
         /\ Timely(rows) /\ Committed(rows) /\ clock \in Nat /\ clock \in 0..MaxClock
BY DEF TInv, Timely, Lives, Consistent, IsWarm

\* A turn adds no work, and takes back nothing of what a timer or an answer relies on.
Moves(v) ==
  /\ \A e : ~IsEvent(e) /\ Has(v.mail, e) => Has(warm.mail, e)
  /\ \A c \in Call : warm.status[c] # "none" => v.status[c] # "none"
  /\ \A c \in Sleep : warm.status[c] # "none" => v.due[c] = warm.due[c]
  /\ \A c \in Watch : warm.status[c] \in {"cancelling", "gone"} => v.status[c] \in {"cancelling", "gone"}

LEMMA TurnKeeps ==
  ASSUME TimeAssumption, TInv, NEW v, Timely(v), Moves(v), TimeTurn(v),
         \/ after' = after
         \/ \E t \in Letters : after' = Append(after, t),
         \A c \in Watch : MovedOnce(c)'
  PROVE  TInv'
<1>1. /\ phase # "down" /\ phase' = "batch" /\ warm' = v /\ rows' = rows /\ clock' = clock
      /\ timers' = {t \in timers : v.status[t.call] # "gone"}
  BY DEF TimeTurn, Turn
<1>2. /\ MailOk(warm) /\ TimersOk /\ Timely(rows) /\ Committed(rows)
      /\ IsMail(after) /\ (\A t \in ToSet(after) : IsEvent(t)) /\ clock \in 0..MaxClock
  BY <1>1, Awake DEF TInv
<1>3. IsMail(after') /\ \A t \in ToSet(after') : IsEvent(t)
  <2>1. CASE after' = after
    BY <1>2, <2>1
  <2>2. CASE \E t \in Letters : after' = Append(after, t)
    <3>1. PICK t \in Letters : after' = Append(after, t)
      BY <2>2
    <3>2. IsEvent(t)
      BY LetterFacts
    <3> QED
      BY <1>2, <3>1, <3>2, MailSend
  <2> QED
    BY <2>1, <2>2
<1>4. MailOk(v)'
  <2> USE <1>1, <1>2, CallsOf
  <2>1. \A t \in ToSet(v.mail) : ~IsEvent(t) => t \in Completions \cup Alarms
    BY HasIsIn DEF Moves, MailOk
  <2>2. \A c \in Keyed : ~IsEvent(Alarm(c))
    BY DEF Alarm, Work, IsEvent, EventKind
  <2>3. \A c \in Keyed : Has(v.mail, Alarm(c)) =>
          v.status[c] # "none" /\ (c \in Sleep => clock >= v.due[c])
    BY <2>2 DEF Moves, MailOk
  <2>4. \A c \in Watch, o \in Outcomes :
          Has(v.mail, Completion(c, o)) => v.status[c] \in {"cancelling", "gone"}
    BY CompletionFacts DEF Moves, MailOk
  <2>5. MailOk(v)
    BY <2>1, <2>3, <2>4 DEF MailOk
  <2> QED
    BY <2>5 DEF MailOk
<1>5. TimersOk'
  <2>1. ASSUME NEW t \in timers, v.status[t.call] # "gone"
        PROVE  /\ t.call \in Keyed /\ Live(v, t.call) /\ t.deadline \in Nat
               /\ t.call \in Sleep => t.deadline = v.due[t.call]
    <3>1. /\ t.call \in Keyed /\ Live(warm, t.call) /\ t.deadline \in Nat
          /\ t.call \in Sleep => t.deadline = warm.due[t.call]
      BY <1>2 DEF TimersOk
    <3>2. warm.status[t.call] # "none" /\ t.call \in Call
      BY <3>1, CallsOf DEF Live
    <3>3. v.status[t.call] \in Statuses \ {"none", "gone"}
      BY <2>1, <3>2 DEF Moves, Timely, Lives, Consistent, IsWarm
    <3> QED
      BY <3>1, <3>2, <3>3 DEF Moves, Live, Statuses
  <2>2. \A t, u \in timers : t.call = u.call => t = u
    BY <1>2 DEF TimersOk
  <2> QED
    BY <1>1, <2>1, <2>2 DEF TimersOk
<1> QED
  BY <1>1, <1>2, <1>3, <1>4, <1>5 DEF TInv

\* The alarms of c are in n as they are in m.
SameAlarms(m, n, c) ==
  /\ Has(n, Alarm(c)) <=> Has(m, Alarm(c))
  /\ Precedes(n, Alarm(c), Alarm(c)) <=> Precedes(m, Alarm(c), Alarm(c))

\* Nothing happens to a watch, nothing to what will move it.
LEMMA StaysMoved ==
  ASSUME NEW v, NEW c \in Watch, MovedOnce(c), Stays(warm, v, c), SameAlarms(warm.mail, v.mail, c),
         warm' = v, timers' = {t \in timers : v.status[t.call] # "gone"}, Begins(c)' <=> Begins(c)
  PROVE  MovedOnce(c)'
<1> SUFFICES ASSUME v.status[c] = "running" PROVE MovedOnce(c)'
  BY DEF MovedOnce
<1>1. warm.status[c] = "running"
  BY DEF Stays
<1>2. Armed(c)' <=> Armed(c)
  BY DEF Armed
<1>3. Rings(c)' <=> Rings(c)
  BY DEF Rings, SameAlarms, Alarm, Work
<1>4. Awaits(c)' <=> Awaits(c)
  BY DEF Awaits, Stays
<1>5. Draining(v, c) <=> Draining(warm, c)
  BY DEF Draining, Stays
<1>6. Precedes(v.mail, Alarm(c), Alarm(c)) <=> Precedes(warm.mail, Alarm(c), Alarm(c))
  BY DEF SameAlarms
<1> QED
  BY <1>1, <1>2, <1>3, <1>4, <1>5, <1>6 DEF MovedOnce, OneOf, Alarm, Work

\* A delivery came back: its outcome is staged, and moves the watch after the commit.
LEMMA BackMoved ==
  ASSUME NEW v, NEW c \in Watch, MovedOnce(c), WatchOk(warm, c), IsWarm(warm),
         NEW i \in Children(c), ComesBack(warm, v, i), SameAlarms(warm.mail, v.mail, c),
         warm' = v, timers' = {t \in timers : v.status[t.call] # "gone"}, Begins(c)' <=> Begins(c)
  PROVE  MovedOnce(c)'
<1>1. ParentOf[i] = c /\ i \in Inner
  BY DEF Children
<1>2. /\ warm.status[c] = "running" /\ v.status[c] = "running"
      /\ warm.edge[i] \in {"running", "cancelling"} /\ v.edge = [warm.edge EXCEPT ![i] = "retired"]
  BY <1>1 DEF ComesBack
<1>3. Draining(warm, c) /\ ~Begins(c) /\ ~Armed(c) /\ ~Rings(c) /\ ~Awaits(c)
  BY <1>2 DEF Draining, MovedOnce, OneOf
<1>4. Awaits(c)'
  <2>1. \E b \in warm.bridge : b[1] = i
    BY <1>2 DEF WatchOk, Open
  <2>2. \E e \in ToSet(v.staged) : e.call = c
    BY <1>1, <2>1 DEF ComesBack
  <2> QED
    BY <2>2 DEF Awaits
<1>5. ~Draining(v, c)
  <2>1. \A j \in Children(c) : j # i => ~Open(warm, j)
    BY <1>2 DEF WatchOk, Open
  <2> QED
    BY <1>1, <1>2, <2>1 DEF Draining, Open, IsWarm, Children
<1>6. ~Armed(c)'
  BY <1>3 DEF Armed
<1>7. ~Rings(c)' /\ ~Precedes(v.mail, Alarm(c), Alarm(c))
  BY <1>2, <1>3 DEF Rings, SameAlarms, Alarm, Work, MovedOnce
<1> QED
  BY <1>3, <1>4, <1>5, <1>6, <1>7 DEF MovedOnce, OneOf, Alarm, Work

\* A call is opened: what will move a watch is the effect of the commit.
LEMMA OpenMoved ==
  ASSUME TimeAssumption, TInv, phase # "down", NEW v, NEW c \in Watch, warm.status[c] = "none",
         v.edge = warm.edge, v.staged = warm.staged, SameAlarms(warm.mail, v.mail, c),
         warm' = v, timers' = {t \in timers : v.status[t.call] # "gone"}, Begins(c)'
  PROVE  MovedOnce(c)'
<1>1. Timely(warm) /\ Lives(warm) /\ MailOk(warm) /\ TimersOk /\ c \in Call /\ c \in Keyed
  BY Awake, CallsOf
<1>2. /\ \A i \in Children(c) : warm.edge[i] = "none"
      /\ \A e \in ToSet(warm.staged) : e.call # c
  BY <1>1, NotYet
<1>3. ~Armed(c)'
  BY <1>1 DEF TimersOk, Live, Armed
<1>4. ~Has(v.mail, Alarm(c)) /\ ~Precedes(v.mail, Alarm(c), Alarm(c))
  <2>1. ~Has(warm.mail, Alarm(c))
    BY <1>1 DEF MailOk
  <2> QED
    BY <2>1, OrderHas DEF SameAlarms
<1>5. ~Rings(c)'
  BY <1>4 DEF Rings, Alarm, Work
<1>6. ~Awaits(c)' /\ ~Draining(v, c)
  BY <1>2 DEF Awaits, Draining
<1> QED
  BY <1>3, <1>4, <1>5, <1>6 DEF MovedOnce, Alarm, Work

LEMMA AlarmsSame ==
  ASSUME NEW m, NEW n, SameWork(m, n), NEW c PROVE SameAlarms(m, n, c)
<1>1. ~IsEvent(Alarm(c))
  BY DEF Alarm, Work, IsEvent, EventKind
<1> QED
  BY <1>1 DEF SameWork, SameAlarms

\* What waits for the commit grows by the letter: it begins the call it opens.
LEMMA BeginsOf ==
  ASSUME TInv, NEW t \in Letters, after' = after \/ after' = Append(after, t), NEW c
  PROVE  /\ t # Event("delegate", c, Own) => (Begins(c)' <=> Begins(c))
         /\ after' = Append(after, t) /\ t = Event("delegate", c, Own) => Begins(c)'
<1>1. IsMail(after)
  BY DEF TInv
<1>2. \A e : Has(Append(after, t), e) <=> Has(after, e) \/ e = t
  BY <1>1, MailSend
<1> QED
  BY <1>2 DEF Begins, Event

LEMMA EventKeeps ==
  ASSUME TimeAssumption, TInv, EventTurn PROVE TInv'
<1> DEFINE t == Head(warm.mail)
           w == warm
           v == IF ToReactor(t) THEN ReactorReact(Rest(w), t) ELSE CoreReact(Rest(w), t)
           z == IF ToReactor(t) /\ t.k = "delegate" THEN OpenPayload(v, t.d) ELSE v
<1>1. /\ phase \in {"idle", "batch"} /\ w.mail # << >> /\ IsEvent(t) /\ Taken = Rest(w)
  BY DEF EventTurn, Ready, Taken, Rest
<1>2. TimeTurn(z) /\ after' = IF ToReactor(t) THEN Append(after, t) ELSE after
  <2>1. CASE ToReactor(t) /\ t.k = "delegate"
    <3>1. v = OnDelegate(Rest(w), t.d)
      BY <2>1 DEF ReactorReact
    <3> HIDE DEF v
    <3> QED
      BY <1>1, <2>1, <3>1 DEF EventTurn
  <2>2. CASE ~(ToReactor(t) /\ t.k = "delegate")
    BY <1>1, <2>2 DEF EventTurn
  <2> QED
    BY <2>1, <2>2
<1>3. /\ Timely(w) /\ MailOk(w) /\ TimersOk /\ (\A c \in Watch : MovedOnce(c))
      /\ Lives(w) /\ Consistent(w) /\ IsWarm(w) /\ IsMail(w.mail) /\ clock \in Nat
      /\ phase # "down" /\ IsTimed(w)
  BY <1>1, Awake DEF Lives
<1>4. /\ Staged(w) /\ IsFiniteSet(w.bridge) /\ \A c \in Call : SettledOk(w, c)
  BY <1>3, BridgeOfTimed DEF Lives
<1>5. t \in Letters /\ Has(w.mail, t) /\ t = Event(t.k, t.d, t.x)
  BY <1>1, <1>3, TakeFacts, MailTake, LetterFacts
<1>6. Lives(v) /\ OwnSame(w, v) /\ SteadyBut(w, v, {})
  BY <1>1, <1>3, <1>4, LetterLives, LettersSteady
<1>7. \A c \in Call : w.held[c] = "nothing" =>
        \/ Stays(w, v, c) \/ Winds(w, v, c)
        \/ t = Event("delegate", c, Own) /\ v = OnDelegate(Rest(w), c)
        \/ \E i \in Children(c) : ComesBack(w, v, i)
  BY <1>1, <1>3, <1>4, LettersLeave
<1>8. \A c \in Call : t # Event("delegate", c, Own) => (v.status[c] = "none" <=> w.status[c] = "none")
  BY <1>1, <1>3, LetterStarts
<1>9. ASSUME NEW c \in Call, t = Event("delegate", c, Own)
      PROVE  /\ ToReactor(t) /\ t.k = "delegate" /\ t.d = c /\ w.status[c] = "none"
             /\ v.status[c] = "running" /\ v.edge = w.edge /\ v.staged = w.staged
  <2>1. t.k = "delegate" /\ t.d = c
    BY <1>9, EventFacts
  <2>2. ToReactor(t)
    BY <2>1 DEF ToReactor
  <2>3. w.status[c] = "none"
    BY <1>3, <1>5, <1>9 DEF Consistent, CallOk
  <2> DEFINE u == Rest(w)
  <2>4. v = OnDelegate(u, c)
    BY <2>1, <2>2 DEF ReactorReact
  <2>5. IsWarm(u) /\ u.edge = w.edge /\ u.staged = w.staged
    BY <1>1, <1>3, RestFacts, RestSame
  <2> HIDE DEF u, v
  <2>6. v = [u EXCEPT !.status[c] = "running"]
    BY <2>4 DEF OnDelegate
  <2>7. v.status[c] = "running" /\ v.edge = u.edge /\ v.staged = u.staged
    BY <2>5, <2>6 DEF IsWarm, Fields
  <2> HIDE DEF t, w
  <2> QED
    BY <2>1, <2>2, <2>3, <2>5, <2>7
<1>10. ToReactor(t) /\ t.k = "delegate" => t.d \in Call /\ t = Event("delegate", t.d, Own)
  <2>1. ASSUME ToReactor(t), t.k = "delegate" PROVE t.d \in Call /\ t.x = Own
    BY <1>5, <2>1, LetterFacts DEF ToReactor
  <2> QED
    BY <1>5, <2>1
<1> HIDE DEF v
<1>11. /\ Timely(z) /\ DOMAIN z = DOMAIN v /\ \A f \in Fields : z[f] = v[f]
  <2>1. CASE \E c \in Call : t = Event("delegate", c, Own)
    <3>1. PICK c \in Call : t = Event("delegate", c, Own)
      BY <2>1
    <3>2. \A d \in Call : d # c => (v.status[d] = "none" <=> w.status[d] = "none")
      BY <1>8, <3>1, EventFacts
    <3>3. z = OpenPayload(v, c) /\ w.status[c] = "none" /\ v.status[c] # "none"
      BY <1>9, <3>1
    <3> HIDE DEF z, t
    <3> QED
      BY <1>3, <1>6, <3>2, <3>3, OpenedTimely
  <2>2. CASE ~\E c \in Call : t = Event("delegate", c, Own)
    <3>1. z = v
      BY <1>10, <2>2
    <3>2. Timely(v)
      BY <1>1, <1>3, <2>2, LetterTimely DEF v
    <3> QED
      BY <3>1, <3>2
  <2> QED
    BY <2>1, <2>2
<1>12. /\ z.status = v.status /\ z.held = v.held /\ z.edge = v.edge /\ z.mail = v.mail
       /\ z.bridge = v.bridge /\ z.staged = v.staged
  BY <1>11 DEF Fields
<1>13. \A c \in Keyed : t # Event("delegate", c, Own) => z.due[c] = w.due[c]
  <2> SUFFICES ASSUME NEW c \in Keyed, t # Event("delegate", c, Own) PROVE z.due[c] = w.due[c]
    OBVIOUS
  <2>1. v.due = w.due
    BY <1>6 DEF OwnSame
  <2>2. CASE ToReactor(t) /\ t.k = "delegate"
    <3>1. t.d # c /\ z = OpenPayload(v, t.d)
      BY <1>10, <2>2
    <3>2. IsTimed(v) /\ IsWarm(v)
      BY <1>6 DEF Lives, Consistent
    <3> HIDE DEF t, z, w
    <3>3. z.due[c] = v.due[c]
      BY <3>1, <3>2 DEF OpenPayload, IsTimed, Keyed, IsWarm, Fields
    <3> QED
      BY <2>1, <3>3
  <2>3. CASE ~(ToReactor(t) /\ t.k = "delegate")
    BY <2>1, <2>3
  <2> QED
    BY <2>2, <2>3
<1>14. SameWork(w.mail, z.mail)
  BY <1>6, <1>12 DEF SteadyBut
<1> HIDE DEF z
<1>15. Moves(z)
  <2>1. \A e : ~IsEvent(e) /\ Has(z.mail, e) => Has(w.mail, e)
    BY <1>14 DEF SameWork
  <2>2. \A c \in Call : w.status[c] # "none" => z.status[c] # "none"
    BY <1>6, <1>12 DEF SteadyBut
  <2>3. \A c \in Sleep : w.status[c] # "none" => z.due[c] = w.due[c]
    BY <1>9, <1>13, CallsOf
  <2>4. ASSUME NEW c \in Watch, w.status[c] \in {"cancelling", "gone"}
        PROVE  z.status[c] \in {"cancelling", "gone"}
    <3>1. w.held[c] = "nothing" /\ c \in Call
      BY <1>3, CallsOf DEF Lives, WatchOk
    <3>2. t # Event("delegate", c, Own)
      BY <1>9, <2>4, <3>1
    <3>3. \/ Stays(w, v, c) \/ Winds(w, v, c)
          \/ \E i \in Children(c) : ComesBack(w, v, i)
      BY <1>7, <3>1, <3>2
    <3> QED
      BY <1>12, <2>4, <3>3 DEF Stays, Winds, ComesBack, Children
  <2> QED
    BY <2>1, <2>2, <2>3, <2>4 DEF Moves
<1>16. /\ warm' = z /\ timers' = {s \in timers : z.status[s.call] # "gone"}
  BY <1>2 DEF TimeTurn, Turn
<1>17. ASSUME NEW c \in Watch PROVE MovedOnce(c)'
  <2>1. w.held[c] = "nothing" /\ c \in Call /\ WatchOk(w, c)
    BY <1>3, CallsOf DEF Lives, WatchOk
  <2>2. SameAlarms(w.mail, z.mail, c)
    BY <1>14, AlarmsSame
  <2>3. after' = after \/ after' = Append(after, t)
    BY <1>2
  <2>4. CASE t = Event("delegate", c, Own)
    <3>1. Begins(c)'
      BY <1>2, <1>5, <1>9, <2>1, <2>3, <2>4, BeginsOf
    <3>2. w.status[c] = "none" /\ z.edge = w.edge /\ z.staged = w.staged
      BY <1>9, <1>12, <2>1, <2>4
    <3> QED
      BY <1>3, <1>16, <2>2, <3>1, <3>2, OpenMoved
  <2>5. CASE t # Event("delegate", c, Own)
    <3>1. Begins(c)' <=> Begins(c)
      BY <1>5, <2>3, <2>5, BeginsOf
    <3>2. \/ Stays(w, v, c) \/ Winds(w, v, c)
          \/ \E i \in Children(c) : ComesBack(w, v, i)
      BY <1>7, <2>1, <2>5
    <3>3. CASE Stays(w, v, c)
      <4>1. Stays(w, z, c)
        BY <1>12, <3>3 DEF Stays, Told
      <4> QED
        BY <1>3, <1>16, <2>2, <3>1, <4>1, StaysMoved
    <3>4. CASE Winds(w, v, c)
      BY <1>12, <1>16, <3>4 DEF Winds, MovedOnce
    <3>5. CASE \E i \in Children(c) : ComesBack(w, v, i)
      <4>1. PICK i \in Children(c) : ComesBack(w, v, i)
        BY <3>5
      <4>2. ComesBack(w, z, i)
        BY <1>12, <4>1 DEF ComesBack, Told
      <4> QED
        BY <1>3, <1>16, <2>1, <2>2, <3>1, <4>2, BackMoved
    <3> QED
      BY <3>2, <3>3, <3>4, <3>5
  <2> QED
    BY <2>4, <2>5
<1>18. after' = after \/ \E e \in Letters : after' = Append(after, e)
  BY <1>2, <1>5
<1> QED
  BY <1>2, <1>11, <1>15, <1>17, <1>18, TurnKeeps

-----------------------------------------------------------------------------
(* The work of a timer, and of the transport.                              *)

LEMMA AlarmFacts ==
  /\ \A c : ~IsEvent(Alarm(c)) /\ Alarm(c).k = "timer" /\ Alarm(c).d = c
  /\ \A c, d : Alarm(c) = Alarm(d) <=> c = d
  /\ \A c, d, o : Alarm(c) # Completion(d, o)
BY DEF Alarm, Work, Completion, IsEvent, EventKind

\* The work is taken, and nothing else happens.
LEMMA WorkTaken ==
  ASSUME NEW w, Lives(w), w.mail # << >>, ~IsEvent(Head(w.mail))
  PROVE  LET u == Rest(w)
         IN /\ Lives(u) /\ OwnSame(w, u) /\ u.status = w.status /\ u.held = w.held /\ u.edge = w.edge
            /\ \A c \in Call : Stays(w, u, c)
<1> DEFINE u == Rest(w)
<1>1. Consistent(w) /\ IsWarm(w)
  BY DEF Lives, Consistent
<1>2. Consistent(u)
  BY <1>1, RestFree
<1>3. OwnKept(w, u) /\ \A c \in Call : Stays(w, u, c)
  BY <1>1, RestStays
<1>4. /\ u.status = w.status /\ u.settled = w.settled /\ u.held = w.held
      /\ u.edge = w.edge /\ u.bridge = w.bridge /\ u.staged = w.staged
  BY <1>1, RestSame
<1>5. IsTimed(w) /\ OwnSame(w, u)
  BY <1>3, OwnIsSame DEF OwnKept, Lives
<1> HIDE DEF u
<1>6. IsTimed(u)
  BY <1>4, <1>5 DEF IsTimed, OwnSame
<1>7. \A v \in Watch : v \in Call => WatchOk(u, v)
  BY <1>3, WatchStays DEF Lives
<1>8. ASSUME NEW v \in Watch, v \notin Call PROVE WatchOk(u, v)
  <2>1. Children(v) = {}
    BY <1>8, ParentAssumption DEF Children
  <2> QED
    BY <1>4, <2>1 DEF Lives, WatchOk
<1>9. Staged(u) /\ StagedOk(u) /\ \A c \in Call : SettledOk(u, c)
  BY <1>4 DEF Lives, Staged, StagedOk, SettledOk
<1>10. Lives(u)
  BY <1>2, <1>4, <1>6, <1>7, <1>8, <1>9 DEF Lives
<1> QED
  BY <1>3, <1>4, <1>5, <1>10 DEF u

\* The outcome of a call that is no watch, or of a watch that winds down.
LEMMA CompleteLives ==
  ASSUME TimeAssumption, NEW u, Lives(u), NEW c \in Call, NEW o \in Outcomes,
         c \in Watch => u.status[c] \in {"cancelling", "gone"}
  PROVE  LET v == Complete(u, c, o)
         IN /\ Lives(v) /\ OwnSame(u, v) /\ SameWork(u.mail, v.mail)
            /\ \A d \in Call : v.status[d] = "none" <=> u.status[d] = "none"
            /\ \A d \in Watch : Stays(u, v, d) \/ Winds(u, v, d)
<1> DEFINE v == Complete(u, c, o)
<1>1. Consistent(u) /\ IsWarm(u) /\ IsTimed(u) /\ SettledOk(u, c) /\ Staged(u)
  BY DEF Lives, Consistent
<1>2. Consistent(v) /\ SteadyBut(u, v, {c}) /\ SettledOk(v, c)
  BY <1>1, CompleteKeeps, SteadyComplete
<1>3. /\ Touches(u, v, c)
      /\ u.status[c] \in {"cancelling", "gone"} /\ u.held[c] = "nothing" =>
           Stays(u, v, c) \/ Winds(u, v, c)
  BY <1>1, CompleteTouches
<1>4. u.status[c] = "none" => v = u
  BY DEF Complete, Live
<1> HIDE DEF v
<1>5. OwnKept(u, v) /\ OwnSame(u, v) /\ v.staged = u.staged
  BY <1>1, <1>3, OwnIsSame DEF Touches, OwnKept
<1>6. IsTimed(v)
  BY <1>1, <1>2, <1>5 DEF IsTimed, OwnSame, SteadyBut
<1>7. \A d \in Watch : Stays(u, v, d) \/ Winds(u, v, d)
  BY <1>3, CallsOf DEF Touches, Lives, WatchOk
<1>8. \A d \in Watch : WatchOk(v, d)
  BY <1>7, WatchStays, WatchWinds DEF Lives
<1>9. StagedOk(v)
  <2>1. \A d \in Watch : v.status[d] = "running" => u.status[d] = "running"
    BY <1>7 DEF Stays, Winds
  <2> QED
    BY <1>5, <2>1 DEF StagedOk, Lives
<1>10. Staged(v) /\ (\A d \in Call : SettledOk(v, d))
       /\ \A i \in Inner : v.edge[i] # "none" => ParentOf[i] \in Watch
  BY <1>1, <1>2 DEF SteadyBut, Lives
<1>11. Lives(v)
  BY <1>2, <1>6, <1>8, <1>9, <1>10 DEF Lives
<1>12. \A d \in Call : v.status[d] = "none" <=> u.status[d] = "none"
  BY <1>2, <1>3, <1>4 DEF SteadyBut, Touches, Stays
<1> QED
  BY <1>2, <1>5, <1>7, <1>11, <1>12 DEF SteadyBut, v

\* A turn of the reactor's own work.
LEMMA WorkTurn ==
  ASSUME TimeAssumption, TInv, phase # "down", warm.mail # << >>, ~IsEvent(Head(warm.mail)),
         NEW v, Timely(v), SameWork(Rest(warm).mail, v.mail), TimeTurn(v), after' = after,
         \A d \in Call : warm.status[d] # "none" => v.status[d] # "none",
         \A d \in Sleep : warm.status[d] # "none" => v.due[d] = warm.due[d],
         \A d \in Watch :
           \/ Winds(warm, v, d)
           \/ Stays(warm, v, d) /\ (Head(warm.mail) = Alarm(d) => warm.status[d] # "running")
           \/ warm.status[d] = "running" /\ MovedOnce(d)'
  PROVE  TInv'
<1>1. /\ (\A c \in Watch : MovedOnce(c)) /\ Lives(warm) /\ IsWarm(warm) /\ IsMail(warm.mail)
  BY Awake
<1>2. Rest(warm).mail = Tail(warm.mail)
  BY <1>1, RestFacts
<1>3. /\ \A e : Has(Tail(warm.mail), e) => Has(warm.mail, e)
      /\ \A d : Head(warm.mail) # Alarm(d) => SameAlarms(warm.mail, Tail(warm.mail), d)
  BY <1>1, MailTake DEF SameAlarms
<1>4. \A e : ~IsEvent(e) /\ Has(v.mail, e) => Has(warm.mail, e)
  BY <1>2, <1>3 DEF SameWork
<1>5. \A d : Head(warm.mail) # Alarm(d) => SameAlarms(warm.mail, v.mail, d)
  <2>1. \A d : SameAlarms(Tail(warm.mail), v.mail, d)
    BY <1>2, AlarmsSame
  <2> QED
    BY <1>3, <2>1 DEF SameAlarms
<1>6. warm' = v /\ timers' = {t \in timers : v.status[t.call] # "gone"}
  BY DEF TimeTurn, Turn
<1>7. ASSUME NEW d \in Watch PROVE MovedOnce(d)'
  <2>1. CASE Winds(warm, v, d)
    BY <1>6, <2>1 DEF Winds, MovedOnce
  <2>2. CASE Stays(warm, v, d) /\ Head(warm.mail) # Alarm(d)
    <3>1. SameAlarms(warm.mail, v.mail, d) /\ (Begins(d)' <=> Begins(d))
      BY <1>5, <2>2 DEF Begins, Event
    <3> QED
      BY <1>1, <1>6, <2>2, <3>1, StaysMoved
  <2>3. CASE Stays(warm, v, d) /\ warm.status[d] # "running"
    BY <1>6, <2>3 DEF Stays, MovedOnce
  <2> QED
    BY <2>1, <2>2, <2>3
<1>8. \A d \in Watch : warm.status[d] \in {"cancelling", "gone"} => v.status[d] \in {"cancelling", "gone"}
  BY DEF Stays, Winds
<1>9. Moves(v)
  BY <1>4, <1>8 DEF Moves
<1> QED
  BY <1>7, <1>9, TurnKeeps

LEMMA CompleteTurnKeeps ==
  ASSUME TimeAssumption, TInv, CompleteTurn PROVE TInv'
<1> DEFINE t == Head(warm.mail)
           u == Rest(warm)
<1>1. /\ phase # "down" /\ warm.mail # << >> /\ t.k = "complete" /\ Taken = u /\ after' = after
      /\ TimeTurn(Complete(u, t.d, t.o))
  BY DEF CompleteTurn, Ready, Taken, Rest
<1>2. Timely(warm) /\ MailOk(warm) /\ Lives(warm) /\ IsMail(warm.mail) /\ IsWarm(warm)
  BY <1>1, Awake
<1>3. ~IsEvent(t) /\ t \in ToSet(warm.mail)
  BY <1>1, <1>2, MailTake DEF IsEvent, EventKind
<1>4. PICK c \in Call, o \in Outcomes : t = Completion(c, o)
  BY <1>1, <1>2, <1>3, AlarmFacts DEF MailOk, Completions, Alarms
<1>5. t.d = c /\ t.o = o
  BY <1>4, CompletionFacts
<1>6. c \in Watch => warm.status[c] \in {"cancelling", "gone"}
  BY <1>2, <1>3, <1>4, HasIsIn DEF MailOk
<1> HIDE DEF t
<1>7. /\ Lives(u) /\ OwnSame(warm, u) /\ u.status = warm.status /\ u.held = warm.held
      /\ u.edge = warm.edge /\ \A d \in Call : Stays(warm, u, d)
  BY <1>1, <1>2, <1>3, WorkTaken DEF t
<1> DEFINE v == Complete(u, c, o)
<1>8. /\ Lives(v) /\ OwnSame(u, v) /\ SameWork(u.mail, v.mail)
      /\ \A d \in Call : v.status[d] = "none" <=> u.status[d] = "none"
      /\ \A d \in Watch : Stays(u, v, d) \/ Winds(u, v, d)
  <2> HIDE DEF u
  <2> QED
    BY <1>6, <1>7, CompleteLives
<1>9. TimeTurn(v)
  BY <1>1, <1>5
<1> HIDE DEF u, v
<1>10. OwnSame(warm, v)
  BY <1>7, <1>8 DEF OwnSame
<1>11. \A d \in Call : v.status[d] = "none" <=> warm.status[d] = "none"
  BY <1>7, <1>8
<1>12. Timely(v)
  <2>1. \A d \in Keyed : (SleepOk(warm, d) => SleepOk(v, d)) /\ (TicksOk(warm, d) => TicksOk(v, d))
    BY <1>10, <1>11, MomentsKept, CallsOf
  <2> QED
    BY <1>2, <1>8, <2>1, CallsOf DEF Timely
<1>13. \A d \in Sleep : v.due[d] = warm.due[d]
  BY <1>10 DEF OwnSame
<1>14. \A d \in Watch : Winds(warm, v, d) \/ Stays(warm, v, d)
  <2>1. \A d \in Watch : Winds(u, v, d) => Winds(warm, v, d)
    BY <1>7 DEF Winds
  <2> QED
    BY <1>7, <1>8, <2>1, StaysTwice, CallsOf
<1>15. \A d : t # Alarm(d)
  BY <1>4, AlarmFacts
<1> QED
  BY <1>1, <1>3, <1>8, <1>9, <1>11, <1>12, <1>13, <1>14, <1>15, WorkTurn DEF t, u

-----------------------------------------------------------------------------
(* A timer's turn.                                                         *)

LEMMA LeastFacts ==
  ASSUME NEW S \in SUBSET Inner, S # {}
  PROVE  Least(S) \in S
<1> DEFINE a == Ascending(S)
<1>1. S \in SUBSET Nat /\ IsFiniteSet(S)
  BY InnerAssumption, FS_Subset
<1>2. /\ a \in Seq(S) /\ ToSet(a) = S
      /\ \A i, j \in DOMAIN a : i < j <=> a[i] < a[j]
  BY <1>1, AscendingFacts
<1> HIDE DEF a
<1>3. 1 \in DOMAIN a /\ a[1] \in S
  BY <1>2 DEF ToSet
<1>4. \A j \in S : a[1] <= j
  <2> SUFFICES ASSUME NEW j \in S PROVE a[1] <= j
    OBVIOUS
  <2>1. PICK n \in DOMAIN a : a[n] = j
    BY <1>2 DEF ToSet
  <2>2. n = 1 \/ 1 < n
    BY <1>2, <2>1
  <2>3. 1 < n => a[1] < j
    BY <1>2, <1>3, <2>1
  <2>4. j \in Nat /\ a[1] \in Nat
    BY <1>1, <1>3
  <2> QED
    BY <2>1, <2>2, <2>3, <2>4
<1> QED
  BY <1>3, <1>4 DEF Least

\* A sleep ends, at this moment.
LEMMA WakeTimely ==
  ASSUME TimeAssumption, NEW w, Timely(w), NEW u, Lives(u), OwnSame(w, u), u.status = w.status,
         NEW c \in Sleep, w.status[c] # "none", clock \in Nat, clock >= w.due[c]
  PROVE  LET v == Complete([u EXCEPT !.woken = @ \cup {<<c, clock>>}], c, "result")
         IN /\ Timely(v) /\ SameWork(u.mail, v.mail) /\ v.due = w.due
            /\ \A d \in Call : v.status[d] = "none" <=> w.status[d] = "none"
            /\ \A d \in Watch : Stays(u, v, d) \/ Winds(u, v, d)
<1> DEFINE f == [u EXCEPT !.woken = @ \cup {<<c, clock>>}]
           v == Complete(f, c, "result")
<1>1. IsWarm(u) /\ IsTimed(u)
  BY DEF Lives, Consistent
<1>2. /\ DOMAIN f = DOMAIN u /\ f = [e \in DOMAIN f |-> f[e]] /\ \A e \in Fields : f[e] = u[e]
      /\ f.due = u.due /\ f.opened = u.opened /\ f.ticks = u.ticks
      /\ f.woken = u.woken \cup {<<c, clock>>}
  BY <1>1 DEF IsWarm, IsTimed, Fields
<1> HIDE DEF f
<1>3. /\ f.status = u.status /\ f.bridge = u.bridge /\ f.mail = u.mail /\ f.held = u.held
      /\ f.edge = u.edge /\ f.staged = u.staged
  BY <1>2 DEF Fields
<1>4. IsTimed(f)
  BY <1>1, <1>2, <1>3 DEF IsTimed
<1>5. Lives(f)
  BY <1>2, <1>4, OwnLives
<1>6. c \in Call /\ c \notin Watch
  BY CallsOf
<1>7. /\ Lives(v) /\ OwnSame(f, v) /\ SameWork(f.mail, v.mail)
      /\ \A d \in Call : v.status[d] = "none" <=> f.status[d] = "none"
      /\ \A d \in Watch : Stays(f, v, d) \/ Winds(f, v, d)
  BY <1>5, <1>6, CompleteLives DEF Outcomes
<1> HIDE DEF v
<1>8. /\ v.due = w.due /\ v.opened = w.opened /\ v.ticks = w.ticks
      /\ v.woken = w.woken \cup {<<c, clock>>}
  BY <1>2, <1>7 DEF OwnSame
<1>9. \A d \in Call : v.status[d] = "none" <=> w.status[d] = "none"
  BY <1>3, <1>7
<1>10. ASSUME NEW d \in Sleep PROVE SleepOk(v, d)
  <2>1. SleepOk(w, d) /\ d \in Call
    BY CallsOf DEF Timely
  <2>2. \A e \in v.woken : e \in w.woken \/ e = <<c, clock>>
    BY <1>8
  <2> QED
    BY <1>8, <1>9, <2>1, <2>2 DEF SleepOk
<1>11. \A d \in Watch : TicksOk(v, d)
  BY <1>8, <1>9, CallsOf DEF Timely, TicksOk
<1>12. Timely(v)
  BY <1>7, <1>10, <1>11 DEF Timely
<1>13. \A d \in Watch : Stays(u, v, d) \/ Winds(u, v, d)
  <2>1. \A d : Stays(f, v, d) => Stays(u, v, d)
    BY <1>3 DEF Stays, Told
  <2>2. \A d : Winds(f, v, d) => Winds(u, v, d)
    BY <1>3 DEF Winds
  <2> QED
    BY <1>7, <2>1, <2>2
<1> QED
  BY <1>3, <1>7, <1>8, <1>9, <1>12, <1>13 DEF f, v

\* The cursor of a watch moves on.
Moved(u, c) == [u EXCEPT !.due[c] = NextOccurrence(u.due[c], Span[c], clock)]

LEMMA MovedFacts ==
  ASSUME TimeAssumption, NEW u, Lives(u), NEW c \in Watch, TicksOk(u, c), clock \in Nat
  PROVE  LET f == Moved(u, c)
         IN /\ Lives(f) /\ DOMAIN f = DOMAIN u /\ \A e \in Fields : f[e] = u[e]
            /\ f.opened = u.opened /\ f.ticks = u.ticks /\ f.woken = u.woken
            /\ \A d \in Keyed : d # c => f.due[d] = u.due[d]
            /\ f.due[c] \in Nat /\ f.due[c] > u.due[c]
            /\ u.status[c] # "none" => OnGrid(f.due[c], u.opened[c], Span[c])
<1> DEFINE f == Moved(u, c)
           next == NextOccurrence(u.due[c], Span[c], clock)
<1>1. IsWarm(u) /\ IsTimed(u)
  BY DEF Lives, Consistent
<1>2. c \in Keyed /\ Span[c] \in Nat /\ Span[c] > 0
  BY CallsOf
<1>3. u.due[c] \in Nat /\ u.opened[c] \in Nat
  BY <1>1, <1>2 DEF IsTimed
<1>4. next \in Nat /\ next > u.due[c]
  BY <1>2, <1>3, NextFacts
<1>5. u.status[c] # "none" => OnGrid(next, u.opened[c], Span[c])
  BY <1>2, <1>3, NextOnGrid DEF TicksOk
<1> HIDE DEF next
<1>6. f = [u EXCEPT !.due[c] = next]
  BY DEF Moved, next
<1> HIDE DEF f
<1>7. /\ DOMAIN f = DOMAIN u /\ f = [e \in DOMAIN f |-> f[e]] /\ \A e \in Fields : f[e] = u[e]
      /\ f.opened = u.opened /\ f.ticks = u.ticks /\ f.woken = u.woken
      /\ f.due = [u.due EXCEPT ![c] = next]
  BY <1>1, <1>6 DEF IsWarm, IsTimed, Fields
<1>8. f.bridge = u.bridge
  BY <1>7 DEF Fields
<1>9. IsTimed(f)
  BY <1>1, <1>2, <1>4, <1>7, <1>8 DEF IsTimed
<1>10. Lives(f)
  BY <1>7, <1>9, OwnLives
<1>11. (\A d \in Keyed : d # c => f.due[d] = u.due[d]) /\ f.due[c] = next
  BY <1>1, <1>2, <1>7 DEF IsTimed
<1> QED
  BY <1>4, <1>5, <1>7, <1>10, <1>11 DEF f

\* A delivery is opened, the only one.
LEMMA OpenLives ==
  ASSUME NEW u, Lives(u), NEW i \in Inner, ParentOf[i] \in Watch, u.edge[i] = "none",
         AcceptsWork(u, ParentOf[i]), ~Draining(u, ParentOf[i])
  PROVE  LET v == OpenInner(u, i, "tick")
         IN /\ Lives(v) /\ OwnSame(u, v) /\ SameWork(u.mail, v.mail)
            /\ v.status = u.status /\ v.staged = u.staged /\ DOMAIN v = DOMAIN u
            /\ v.edge = [u.edge EXCEPT ![i] = "running"]
            /\ \A d \in Call : d # ParentOf[i] => Stays(u, v, d)
<1> DEFINE v == OpenInner(u, i, "tick")
           c == ParentOf[i]
           e == Event("delegate", i, Own)
<1>1. Consistent(u) /\ IsWarm(u) /\ IsTimed(u)
  BY DEF Lives, Consistent
<1>2. Consistent(v)
  BY <1>1, OpenKeeps
<1>3. /\ DOMAIN v = DOMAIN u /\ v.edge = [u.edge EXCEPT ![i] = "running"]
      /\ v.bridge = u.bridge \cup {<<i, "tick">>} /\ v.mail = Append(u.mail, e)
      /\ v.status = u.status /\ v.settled = u.settled /\ v.held = u.held /\ v.staged = u.staged
  BY <1>1, OpenFacts
<1>4. OwnSame(u, v)
  <2> DEFINE f == Send(u, "delegate", i, Own)
  <2>1. Event("delegate", i, Own) \in Letters
    BY SomeLetters DEF EventKind
  <2>2. IsWarm(f) /\ OwnKept(u, f)
    BY <1>1, <2>1, SendFacts, SendStays
  <2>3. OwnSame(u, f)
    BY <1>1, <2>2, OwnIsSame DEF OwnKept
  <2> HIDE DEF f
  <2>4. v = [f EXCEPT !.edge[i] = "running", !.bridge = @ \cup {<<i, "tick">>}]
    BY DEF OpenInner, f
  <2>5. /\ DOMAIN v = DOMAIN f /\ v.due = f.due /\ v.opened = f.opened /\ v.woken = f.woken
        /\ v.ticks = f.ticks
    BY <2>2, <2>3, <2>4 DEF IsWarm, OwnSame
  <2> QED
    BY <1>1, <1>3, <2>3, <2>5 DEF OwnSame, IsTimed
<1> HIDE DEF v, e
<1>5. IsTimed(v)
  BY <1>1, <1>3, <1>4 DEF IsTimed, OwnSame
<1>6. e \in Letters /\ \A j : e \notin {Event("terminate", j, Own), Event("terminateAck", j, Own)}
  BY SomeLetters, EventFacts DEF e, EventKind
<1>7. \A j : Told(v, j) => Told(u, j)
  BY <1>1, <1>3, <1>6, ToldSend
<1>8. /\ v.edge[i] = "running" /\ \A j \in Inner : j # i => v.edge[j] = u.edge[j]
  BY <1>1, <1>3 DEF IsWarm
<1>9. ASSUME NEW d \in Call, d # c PROVE Stays(u, v, d)
  <2>1. \A j \in Children(d) : j \in Inner /\ j # i
    BY <1>9 DEF Children
  <2> QED
    BY <1>3, <1>7, <1>8, <2>1 DEF Stays
<1>10. WatchOk(v, c)
  <2>1. \A j \in Children(c) : u.edge[j] \notin {"running", "cancelling"} /\ ~Told(u, j)
    BY DEF Draining, AcceptsWork, Lives, WatchOk
  <2>2. \A j \in Children(c) : j # i => ~Open(v, j) /\ v.edge[j] # "cancelling"
    BY <1>8, <2>1 DEF Open, Children
  <2>3. \A j \in Children(c) : ~Told(v, j)
    BY <1>7, <2>1
  <2>4. v.held[c] = "nothing"
    BY <1>3 DEF AcceptsWork
  <2>5. \E b \in v.bridge : b[1] = i
    <3>1. <<i, "tick">> \in v.bridge /\ <<i, "tick">>[1] = i
      BY <1>3
    <3> QED
      BY <3>1
  <2> QED
    BY <1>8, <2>2, <2>3, <2>4, <2>5 DEF WatchOk
<1>11. \A d \in Watch : WatchOk(v, d)
  <2> SUFFICES ASSUME NEW d \in Watch, d # c PROVE WatchOk(v, d)
    BY <1>10
  <2>1. CASE d \in Call
    BY <1>9, <2>1, WatchStays DEF Lives
  <2>2. CASE d \notin Call
    <3>1. Children(d) = {}
      BY <2>2, ParentAssumption DEF Children
    <3> QED
      BY <1>3, <3>1 DEF Lives, WatchOk
  <2> QED
    BY <2>1, <2>2
<1>12. Staged(v) /\ StagedOk(v)
  BY <1>3, <1>8 DEF Lives, Staged, StagedOk
<1>13. \A d \in Call : SettledOk(v, d)
  BY <1>3 DEF Lives, SettledOk
<1>14. \A j \in Inner : v.edge[j] # "none" => ParentOf[j] \in Watch
  BY <1>8 DEF Lives
<1>15. Lives(v)
  BY <1>2, <1>5, <1>11, <1>12, <1>13, <1>14 DEF Lives
<1>16. SameWork(u.mail, v.mail)
  BY <1>1, <1>3, <1>6, SameWorkSend DEF IsWarm
<1> QED
  BY <1>3, <1>4, <1>9, <1>15, <1>16 DEF v

\* A watch that does not accept work lets its occurrence pass.
LEMMA PassTimely ==
  ASSUME TimeAssumption, NEW u, Timely(u), NEW c \in Watch, u.status[c] # "none", clock \in Nat
  PROVE  LET v == Moved(u, c)
         IN /\ Timely(v) /\ v.status = u.status /\ v.mail = u.mail
            /\ (\A d \in Keyed : d # c => v.due[d] = u.due[d]) /\ \A d \in Call : Stays(u, v, d)
<1> DEFINE v == Moved(u, c)
<1>1. Lives(u) /\ TicksOk(u, c) /\ IsTimed(u)
  BY DEF Timely, Lives
<1>2. /\ Lives(v) /\ DOMAIN v = DOMAIN u /\ \A e \in Fields : v[e] = u[e]
      /\ v.opened = u.opened /\ v.ticks = u.ticks /\ v.woken = u.woken
      /\ \A d \in Keyed : d # c => v.due[d] = u.due[d]
      /\ v.due[c] \in Nat /\ v.due[c] > u.due[c]
      /\ OnGrid(v.due[c], u.opened[c], Span[c])
  BY <1>1, MovedFacts
<1> HIDE DEF v
<1>3. /\ v.status = u.status /\ v.mail = u.mail /\ v.held = u.held /\ v.edge = u.edge
      /\ v.bridge = u.bridge /\ v.staged = u.staged
  BY <1>2 DEF Fields
<1>4. \A d \in Call : Stays(u, v, d)
  BY <1>3 DEF Stays, Told
<1>5. \A d \in Sleep : SleepOk(v, d)
  BY <1>2, <1>3, CallsOf DEF Timely, SleepOk
<1>6. \A d \in Watch : d # c => TicksOk(v, d)
  BY <1>2, <1>3, CallsOf DEF Timely, TicksOk
<1>7. TicksOk(v, c)
  <2>1. c \in Keyed /\ u.due[c] \in Nat /\ u.ticks[c] \in Seq(Nat)
    BY <1>1, CallsOf DEF IsTimed
  <2>2. \A n \in DOMAIN u.ticks[c] : u.ticks[c][n] \in Nat
    BY <2>1
  <2>3. \A n \in DOMAIN u.ticks[c] : u.ticks[c][n] < u.due[c]
    BY <1>1 DEF TicksOk
  <2>4. v.due[c] \in Nat /\ u.due[c] < v.due[c]
    BY <1>2
  <2>5. \A n \in DOMAIN u.ticks[c] : u.ticks[c][n] < v.due[c]
    BY <2>1, <2>2, <2>3, <2>4
  <2> QED
    BY <1>1, <1>2, <1>3, <2>5 DEF TicksOk
<1> QED
  BY <1>2, <1>3, <1>4, <1>5, <1>6, <1>7 DEF Timely, v

\* A watch delivers the occurrence that is due.
LEMMA TickTimely ==
  ASSUME TimeAssumption, NEW u, Timely(u), NEW c \in Watch, clock \in Nat,
         AcceptsWork(u, c), ~Draining(u, c), Unused(u, c) # {}
  PROVE  LET v == FireWatchTick(u, c)
         IN /\ Timely(v) /\ v.status = u.status /\ SameWork(u.mail, v.mail)
            /\ \A d \in Keyed : d # c => v.due[d] = u.due[d]
            /\ \A d \in Watch : d # c => Stays(u, v, d)
            /\ Draining(v, c) /\ v.staged = u.staged
<1> DEFINE i == Least(Unused(u, c))
           f == Moved(u, c)
           g == OpenInner(f, i, "tick")
           v == [g EXCEPT !.ticks[c] = Append(@, u.due[c])]
<1>1. FireWatchTick(u, c) = v
  BY DEF FireWatchTick, Moved
<1>2. i \in Inner /\ ParentOf[i] = c /\ u.edge[i] = "none"
  <2>1. Unused(u, c) \in SUBSET Inner
    BY DEF Unused, Children
  <2>2. i \in Unused(u, c)
    BY <2>1, LeastFacts
  <2> QED
    BY <2>2 DEF Unused, Children
<1>3. Lives(u) /\ TicksOk(u, c) /\ IsTimed(u) /\ u.status[c] = "running" /\ u.held[c] = "nothing"
  BY DEF Timely, Lives, AcceptsWork
<1>4. /\ c \in Keyed /\ u.due[c] \in Nat /\ u.opened[c] \in Nat /\ u.ticks[c] \in Seq(Nat)
      /\ Watch \subseteq Call
  BY <1>3, CallsOf DEF IsTimed
<1>5. /\ Lives(f) /\ DOMAIN f = DOMAIN u /\ \A e \in Fields : f[e] = u[e]
      /\ f.opened = u.opened /\ f.ticks = u.ticks /\ f.woken = u.woken
      /\ \A d \in Keyed : d # c => f.due[d] = u.due[d]
      /\ f.due[c] \in Nat /\ f.due[c] > u.due[c]
      /\ OnGrid(f.due[c], u.opened[c], Span[c])
  BY <1>3, MovedFacts
<1> HIDE DEF f, i
<1>6. /\ f.status = u.status /\ f.mail = u.mail /\ f.held = u.held /\ f.edge = u.edge
      /\ f.bridge = u.bridge /\ f.staged = u.staged
  BY <1>5 DEF Fields
<1>7. AcceptsWork(f, c) /\ ~Draining(f, c) /\ f.edge[i] = "none"
  BY <1>2, <1>3, <1>6 DEF AcceptsWork, Draining
<1>8. /\ Lives(g) /\ OwnSame(f, g) /\ SameWork(f.mail, g.mail)
      /\ g.status = f.status /\ g.staged = f.staged /\ DOMAIN g = DOMAIN f
      /\ g.edge = [f.edge EXCEPT ![i] = "running"]
      /\ \A d \in Call : d # c => Stays(f, g, d)
  BY <1>2, <1>5, <1>7, OpenLives
<1> HIDE DEF g
<1>9. IsWarm(g) /\ IsTimed(g)
  BY <1>8 DEF Lives, Consistent
<1>10. /\ DOMAIN v = DOMAIN g /\ v = [e \in DOMAIN v |-> v[e]] /\ \A e \in Fields : v[e] = g[e]
       /\ v.due = g.due /\ v.opened = g.opened /\ v.woken = g.woken
       /\ v.ticks = [g.ticks EXCEPT ![c] = Append(@, u.due[c])]
  BY <1>9 DEF IsWarm, IsTimed, Fields
<1> HIDE DEF v
<1>11. /\ v.status = g.status /\ v.mail = g.mail /\ v.held = g.held /\ v.edge = g.edge
       /\ v.bridge = g.bridge /\ v.staged = g.staged
  BY <1>10 DEF Fields
<1>12. v.due = f.due /\ v.opened = u.opened /\ v.woken = u.woken /\ g.ticks = u.ticks
  BY <1>5, <1>8, <1>10 DEF OwnSame
<1>13. v.ticks[c] = Append(u.ticks[c], u.due[c]) /\ \A d \in Watch : d # c => v.ticks[d] = u.ticks[d]
  BY <1>3, <1>10, <1>12 DEF IsTimed
<1>14. IsTimed(v)
  <2>1. g.ticks \in [Watch -> Seq(Nat)] /\ v.ticks \in [Watch -> Seq(Nat)]
    <3>1. Append(u.ticks[c], u.due[c]) \in Seq(Nat) /\ g.ticks \in [Watch -> Seq(Nat)]
      BY <1>4, <1>9 DEF IsTimed
    <3>2. v.ticks = [g.ticks EXCEPT ![c] = Append(u.ticks[c], u.due[c])]
      BY <1>3, <1>10, <1>12, <3>1
    <3> QED
      BY <3>1, <3>2
  <2> QED
    BY <1>9, <1>10, <1>11, <2>1 DEF IsTimed
<1>15. Lives(v)
  BY <1>8, <1>10, <1>14, OwnLives
<1>16. \A d \in Sleep : SleepOk(v, d)
  BY <1>5, <1>6, <1>8, <1>11, <1>12, CallsOf DEF Timely, SleepOk
<1>17. ASSUME NEW d \in Watch, d # c PROVE TicksOk(v, d)
  <2>1. TicksOk(u, d)
    BY DEF Timely
  <2>2. v.status[d] = u.status[d]
    BY <1>6, <1>8, <1>11
  <2>3. v.due[d] = u.due[d] /\ v.opened[d] = u.opened[d] /\ v.ticks[d] = u.ticks[d]
    BY <1>5, <1>12, <1>13, <1>17, CallsOf
  <2> HIDE DEF v
  <2> QED
    BY <2>1, <2>2, <2>3 DEF TicksOk
<1>18. TicksOk(v, c)
  <2> DEFINE old == u.ticks[c]
             new == v.ticks[c]
             due == u.due[c]
  <2>1. /\ old \in Seq(Nat) /\ due \in Nat /\ v.due[c] \in Nat /\ due < v.due[c]
        /\ v.opened[c] = u.opened[c]
    BY <1>4, <1>5, <1>12
  <2>2. /\ OnGrid(due, u.opened[c], Span[c])
        /\ \A n \in DOMAIN old :
             /\ OnGrid(old[n], u.opened[c], Span[c]) /\ old[n] < due
             /\ n > 1 => old[n - 1] < old[n]
    BY <1>3 DEF TicksOk
  <2>3. new = Append(old, due)
    BY <1>13
  <2>4. OnGrid(v.due[c], v.opened[c], Span[c]) /\ v.status[c] = "running"
    BY <1>3, <1>5, <1>6, <1>8, <1>11, <1>12
  <2> HIDE DEF old, new, due
  <2>5. DOMAIN new = 1..(Len(old) + 1) /\ DOMAIN old = 1..Len(old) /\ Len(old) \in Nat
        /\ new[Len(old) + 1] = due /\ \A n \in 1..Len(old) : new[n] = old[n] /\ old[n] \in Nat
    BY <2>1, <2>3
  <2>6. ASSUME NEW n \in DOMAIN new
        PROVE  /\ OnGrid(new[n], u.opened[c], Span[c]) /\ new[n] < v.due[c]
               /\ n > 1 => new[n - 1] < new[n]
    <3>1. CASE n = Len(old) + 1
      <4>1. new[n] = due /\ OnGrid(new[n], u.opened[c], Span[c]) /\ new[n] < v.due[c]
        BY <2>1, <2>2, <2>5, <3>1
      <4>2. n > 1 => n - 1 \in DOMAIN old /\ new[n - 1] = old[n - 1]
        BY <2>5, <3>1
      <4> QED
        BY <2>2, <4>1, <4>2
    <3>2. CASE n # Len(old) + 1
      <4>1. n \in DOMAIN old /\ new[n] = old[n] /\ old[n] \in Nat
        BY <2>5, <2>6, <3>2
      <4>2. n > 1 => new[n - 1] = old[n - 1]
        BY <2>5, <2>6, <3>2
      <4> QED
        BY <2>1, <2>2, <4>1, <4>2
    <3> QED
      BY <3>1, <3>2
  <2> QED
    BY <2>1, <2>4, <2>6 DEF TicksOk, new
<1>19. \A d \in Watch : d # c => Stays(u, v, d)
  <2>1. \A d : Stays(f, g, d) => Stays(u, v, d)
    BY <1>6, <1>11 DEF Stays, Told
  <2> QED
    BY <1>4, <1>8, <2>1
<1>20. Draining(v, c)
  <2>1. v.edge[i] = "running" /\ i \in Children(c)
    BY <1>2, <1>3, <1>6, <1>8, <1>11 DEF Lives, Consistent, IsWarm, Children
  <2> QED
    BY <2>1 DEF Draining
<1>21. SameWork(u.mail, v.mail) /\ v.status = u.status /\ v.staged = u.staged
  BY <1>6, <1>8, <1>11
<1>22. \A d \in Keyed : d # c => v.due[d] = u.due[d]
  BY <1>5, <1>12
<1>23. Timely(v)
  BY <1>15, <1>16, <1>17, <1>18 DEF Timely
<1> QED
  BY <1>1, <1>19, <1>20, <1>21, <1>22, <1>23

LEMMA TimerTurnKeeps ==
  ASSUME TimeAssumption, TInv, TimerTurn PROVE TInv'
<1> DEFINE t == Head(warm.mail)
           u == Rest(warm)
<1>1. /\ phase # "down" /\ warm.mail # << >> /\ t.k = "timer" /\ Taken = u /\ after' = after
      /\ TimeTurn(OnTimer(u, t.d)) /\ (t.d \in Watch => Unused(warm, t.d) # {})
  BY DEF TimerTurn, Ready, Taken, Rest
<1>2. /\ Timely(warm) /\ MailOk(warm) /\ TimersOk /\ Lives(warm) /\ IsMail(warm.mail) /\ IsWarm(warm)
      /\ (\A d \in Watch : MovedOnce(d)) /\ clock \in Nat
  BY <1>1, Awake
<1>3. ~IsEvent(t) /\ t \in ToSet(warm.mail)
  BY <1>1, <1>2, MailTake DEF IsEvent, EventKind
<1>4. PICK c \in Keyed : t = Alarm(c)
  <2>1. t \in Completions \cup Alarms
    BY <1>2, <1>3 DEF MailOk
  <2>2. t \notin Completions
    BY <1>1, CompletionFacts DEF Completions
  <2> QED
    BY <2>1, <2>2 DEF Alarms
<1>5. t.d = c /\ \A d : t = Alarm(d) => d = c
  BY <1>4, AlarmFacts
<1>6. Has(warm.mail, Alarm(c)) /\ warm.status[c] # "none" /\ (c \in Sleep => clock >= warm.due[c])
  <2>1. Has(warm.mail, Alarm(c))
    BY <1>3, <1>4, HasIsIn
  <2> QED
    BY <1>2, <1>4, <2>1 DEF MailOk
<1>7. c \in Call /\ Keyed \subseteq Call /\ Watch \subseteq Keyed /\ Sleep \subseteq Keyed
      /\ (c \in Sleep \/ c \in Watch) /\ Sleep \cap Watch = {}
  BY <1>4, CallsOf DEF Keyed
<1>8. IsWarm(u) /\ Rest(warm).mail = Tail(warm.mail)
  BY <1>1, <1>2, RestFacts
<1>9. u.mail = Tail(warm.mail) /\ u.staged = warm.staged
  BY <1>1, <1>2, <1>8, RestSame
<1>10. /\ Lives(u) /\ OwnSame(warm, u) /\ u.status = warm.status /\ u.held = warm.held
       /\ u.edge = warm.edge /\ \A d \in Call : Stays(warm, u, d)
  BY <1>1, <1>2, <1>3, WorkTaken
<1> HIDE DEF t, u
<1>11. Timely(u) /\ u.due = warm.due
  <2>1. \A d \in Keyed : (SleepOk(warm, d) => SleepOk(u, d)) /\ (TicksOk(warm, d) => TicksOk(u, d))
    BY <1>10, MomentsKept
  <2> QED
    BY <1>2, <1>7, <1>10, <2>1 DEF Timely, OwnSame
<1>12. CASE ~Live(u, c)
  <2>1. TimeTurn(u)
    BY <1>1, <1>5, <1>12 DEF OnTimer
  <2>2. \A d \in Watch : Stays(warm, u, d) /\ (t = Alarm(d) => warm.status[d] # "running")
    BY <1>5, <1>7, <1>10, <1>12 DEF Live
  <2> QED
    BY <1>1, <1>3, <1>10, <1>11, <2>1, <2>2, SameWorkSelf, WorkTurn DEF t, u
<1>13. CASE Live(u, c) /\ c \in Sleep
  <2> DEFINE z == Complete([u EXCEPT !.woken = @ \cup {<<c, clock>>}], c, "result")
  <2>1. TimeTurn(z)
    <3>1. OnTimer(u, c) = z
      BY <1>7, <1>13 DEF OnTimer
    <3> HIDE DEF z
    <3> QED
      BY <1>1, <1>5, <3>1 DEF TimeTurn, Turn
  <2>2. /\ Timely(z) /\ SameWork(u.mail, z.mail) /\ z.due = warm.due
        /\ \A d \in Call : z.status[d] = "none" <=> warm.status[d] = "none"
        /\ \A d \in Watch : Stays(u, z, d) \/ Winds(u, z, d)
    <3> QED
      BY <1>2, <1>6, <1>10, <1>13, WakeTimely
  <2> HIDE DEF z
  <2>3. \A d \in Watch : Winds(u, z, d) => Winds(warm, z, d)
    BY <1>10 DEF Winds
  <2>4. \A d \in Watch : t # Alarm(d)
    BY <1>5, <1>7, <1>13
  <2>5. \A d \in Watch : \/ Winds(warm, z, d)
                         \/ Stays(warm, z, d) /\ (t = Alarm(d) => warm.status[d] # "running")
    BY <1>7, <1>10, <2>2, <2>3, <2>4, StaysTwice
  <2> QED
    BY <1>1, <1>3, <2>1, <2>2, <2>5, WorkTurn DEF t, u
<1>14. CASE Live(u, c) /\ c \in Watch /\ ~AcceptsWork(u, c)
  <2> DEFINE z == Moved(u, c)
  <2>1. TimeTurn(z)
    <3>1. OnTimer(u, c) = z
      BY <1>7, <1>14 DEF OnTimer, FireWatchTick, Moved
    <3> HIDE DEF z
    <3> QED
      BY <1>1, <1>5, <3>1 DEF TimeTurn, Turn
  <2>2. u.status[c] # "running"
    BY <1>10, <1>14 DEF AcceptsWork, Lives, WatchOk
  <2>3. /\ Timely(z) /\ z.status = u.status /\ z.mail = u.mail
        /\ (\A d \in Keyed : d # c => z.due[d] = u.due[d]) /\ \A d \in Call : Stays(u, z, d)
    <3> QED
      BY <1>2, <1>6, <1>10, <1>11, <1>14, PassTimely
  <2> HIDE DEF z
  <2>4. \A d \in Watch : Stays(warm, z, d) /\ (t = Alarm(d) => warm.status[d] # "running")
    BY <1>5, <1>7, <1>10, <2>2, <2>3, StaysTwice
  <2>5. \A d \in Sleep : z.due[d] = warm.due[d]
    BY <1>7, <1>11, <1>14, <2>3
  <2>6. SameWork(u.mail, z.mail) /\ \A d \in Call : warm.status[d] # "none" => z.status[d] # "none"
    BY <1>10, <2>3, SameWorkSelf
  <2> QED
    BY <1>1, <1>3, <2>1, <2>3, <2>4, <2>5, <2>6, WorkTurn DEF t, u
<1>15. CASE Live(u, c) /\ c \in Watch /\ AcceptsWork(u, c)
  <2> DEFINE z == FireWatchTick(u, c)
  <2>1. TimeTurn(z)
    <3>1. OnTimer(u, c) = z
      BY <1>7, <1>15 DEF OnTimer
    <3> HIDE DEF z
    <3> QED
      BY <1>1, <1>5, <3>1 DEF TimeTurn, Turn
  <2>2. warm.status[c] = "running" /\ Rings(c)
    BY <1>6, <1>10, <1>15 DEF AcceptsWork, Rings, Alarm, Work
  <2>3. ~Begins(c) /\ ~Armed(c) /\ ~Awaits(c) /\ ~Draining(warm, c)
    BY <1>2, <1>15, <2>2 DEF MovedOnce, OneOf
  <2>4. ~Has(u.mail, Alarm(c))
    <3>1. ~Precedes(warm.mail, Alarm(c), Alarm(c))
      BY <1>2, <1>15, <2>2 DEF MovedOnce, Alarm, Work
    <3>2. t = Alarm(c) /\ Has(Tail(warm.mail), Alarm(c)) => Precedes(warm.mail, Alarm(c), Alarm(c))
      BY <1>1, <1>2, MailTake DEF t
    <3> QED
      BY <1>4, <1>9, <3>1, <3>2
  <2>5. ~Draining(u, c) /\ Unused(u, c) # {}
    BY <1>1, <1>5, <1>10, <1>15, <2>3 DEF Draining, Unused
  <2>6. /\ Timely(z) /\ z.status = u.status /\ SameWork(u.mail, z.mail)
        /\ \A d \in Keyed : d # c => z.due[d] = u.due[d]
        /\ \A d \in Watch : d # c => Stays(u, z, d)
        /\ Draining(z, c) /\ z.staged = u.staged
    <3> QED
      BY <1>2, <1>11, <1>15, <2>5, TickTimely
  <2>7. warm' = z /\ timers' = {s \in timers : z.status[s.call] # "gone"}
    BY <1>1, <2>1 DEF TimeTurn, Turn
  <2> HIDE DEF z
  <2>8. MovedOnce(c)'
    <3>1. SameAlarms(u.mail, z.mail, c)
      BY <2>6, AlarmsSame
    <3>2. ~Has(z.mail, Alarm(c)) /\ ~Precedes(z.mail, Alarm(c), Alarm(c))
      BY <2>4, <3>1, OrderHas DEF SameAlarms
    <3>3. ~(\E s \in timers : s.call = c) /\ ~(\E e \in ToSet(warm.staged) : e.call = c)
      BY <2>3 DEF Armed, Awaits
    <3>4. z.staged = warm.staged /\ ~Has(after, Event("delegate", c, Own))
      BY <1>9, <2>3, <2>6 DEF Begins
    <3>5. ~(Armed(c)')
      BY <2>7, <3>3 DEF Armed
    <3>6. ~(Rings(c)')
      BY <2>7, <3>2 DEF Rings, Alarm, Work
    <3>7. ~(Awaits(c)') /\ ~(Begins(c)')
      BY <1>1, <2>7, <3>3, <3>4 DEF Awaits, Begins, Event
    <3> QED
      BY <2>6, <2>7, <3>2, <3>5, <3>6, <3>7 DEF MovedOnce, OneOf, Alarm, Work
  <2>9. \A d \in Watch : \/ Stays(warm, z, d) /\ (t = Alarm(d) => warm.status[d] # "running")
                         \/ warm.status[d] = "running" /\ MovedOnce(d)'
    <3> SUFFICES ASSUME NEW d \in Watch, d # c
                 PROVE  Stays(warm, z, d) /\ t # Alarm(d)
      BY <2>2, <2>8
    <3>1. Stays(warm, z, d)
      BY <1>7, <1>10, <2>6, StaysTwice
    <3> QED
      BY <1>5, <3>1
  <2>10. \A d \in Sleep : z.due[d] = warm.due[d]
    BY <1>7, <1>11, <1>15, <2>6
  <2> QED
    BY <1>1, <1>3, <1>10, <2>1, <2>6, <2>9, <2>10, WorkTurn DEF t, u
<1> QED
  BY <1>7, <1>12, <1>13, <1>14, <1>15

-----------------------------------------------------------------------------
(* The acts of core.                                                       *)

\* An actor of core moves, and sends a letter that tells no delivery to stop.
Acts(w, v) ==
  /\ DOMAIN v = DOMAIN w
  /\ \A f \in DOMAIN w \ {"mail", "proxy", "asked", "callee"} : v[f] = w[f]
  /\ \E e \in Letters : /\ v.mail = Append(w.mail, e)
                        /\ e.d \in Inner => e.k \notin {"terminate", "terminateAck"}

LEMMA PeerTurn ==
  ASSUME TimeAssumption, TInv, NEW v, Turn(v), after' = after, UNCHANGED timeVars,
         Acts(warm, v), Consistent(warm) => Consistent(v), IsWarm(warm) => SteadyBut(warm, v, {})
  PROVE  TInv'
<1>1. phase # "down" /\ warm' = v
  BY DEF Turn
<1>2. /\ Timely(warm) /\ MailOk(warm) /\ TimersOk /\ (\A c \in Watch : MovedOnce(c))
      /\ Lives(warm) /\ IsWarm(warm) /\ IsMail(warm.mail) /\ IsTimed(warm) /\ Staged(warm)
      /\ Consistent(v) /\ SteadyBut(warm, v, {})
  BY <1>1, Awake DEF Lives
<1>3. OwnFields(warm, v)
  BY DEF Acts, OwnFields, Fields
<1>4. /\ v.status = warm.status /\ v.held = warm.held /\ v.edge = warm.edge
      /\ v.staged = warm.staged /\ v.bridge = warm.bridge
  BY <1>2 DEF Acts, IsWarm, Fields
<1>5. OwnSame(warm, v)
  BY <1>2, <1>3, OwnIsSame
<1>6. ASSUME NEW i \in Inner, Told(v, i) PROVE Told(warm, i)
  <2>1. PICK e \in Letters : /\ v.mail = Append(warm.mail, e)
                             /\ e.d \in Inner => e.k \notin {"terminate", "terminateAck"}
    BY DEF Acts
  <2>2. e \notin {Event("terminate", i, Own), Event("terminateAck", i, Own)}
    BY <2>1, EventFacts
  <2> QED
    BY <1>2, <1>6, <2>1, <2>2, ToldSend
<1>7. \A c \in Call : Stays(warm, v, c)
  BY <1>4, <1>6 DEF Stays, Children
<1>8. Lives(v)
  <2>1. IsTimed(v)
    BY <1>2, <1>4, <1>5 DEF IsTimed, OwnSame
  <2>2. Staged(v) /\ StagedOk(v)
    BY <1>2, <1>4 DEF Lives, StagedOk, SteadyBut
  <2>3. \A i \in Inner : v.edge[i] # "none" => ParentOf[i] \in Watch
    BY <1>2, <1>4 DEF Lives
  <2>4. \A c \in Call : SettledOk(v, c)
    BY <1>2 DEF Lives, SteadyBut
  <2>5. \A c \in Watch : WatchOk(v, c)
    BY <1>2, <1>7, CallsOf, WatchStays DEF Lives
  <2> QED
    BY <1>2, <2>1, <2>2, <2>3, <2>4, <2>5 DEF Lives
<1>9. Timely(v)
  <2>1. \A d \in Keyed : (SleepOk(warm, d) => SleepOk(v, d)) /\ (TicksOk(warm, d) => TicksOk(v, d))
    BY <1>4, <1>5, MomentsKept
  <2> QED
    BY <1>2, <1>8, <2>1, CallsOf DEF Timely
<1>10. Moves(v)
  BY <1>2, <1>4, <1>5 DEF Moves, SteadyBut, SameWork, OwnSame
<1>11. timers' = {t \in timers : v.status[t.call] # "gone"}
  <2>1. timers' = timers
    BY DEF timeVars
  <2>2. \A t \in timers : v.status[t.call] # "gone"
    BY <1>2, <1>4 DEF TimersOk, Live
  <2> QED
    BY <2>1, <2>2
<1>12. TimeTurn(v)
  <2>1. clock' = clock
    BY DEF timeVars
  <2> QED
    BY <1>11, <2>1 DEF TimeTurn
<1>13. ASSUME NEW c \in Watch PROVE MovedOnce(c)'
  <2>1. SameAlarms(warm.mail, v.mail, c)
    BY <1>2, AlarmsSame DEF SteadyBut
  <2>2. Begins(c)' <=> Begins(c)
    BY DEF Begins, Event
  <2>3. c \in Call
    BY CallsOf
  <2> QED
    BY <1>1, <1>2, <1>7, <1>11, <2>1, <2>2, <2>3, StaysMoved
<1> QED
  BY <1>9, <1>10, <1>12, <1>13, TurnKeeps

LEMMA PeersKeep ==
  ASSUME TimeAssumption, TInv, Peers, UNCHANGED timeVars PROVE TInv'
<1>1. phase # "down"
  BY DEF Peers, CoreCalls, CoreCancels, CoreAnswers, CalleeReturns, Turn
<1>2. IsWarm(warm)
  BY <1>1, Awake
<1>3. ASSUME NEW c \in Call, CoreCalls(c) PROVE TInv'
  <2> DEFINE v == Send([warm EXCEPT !.proxy[c] = "calling"], "delegate", c, Own)
  <2>1. Turn(v) /\ after' = after /\ warm.proxy[c] = "idle"
    BY <1>3 DEF CoreCalls
  <2>2. (Consistent(warm) => Consistent(v)) /\ (IsWarm(warm) => SteadyBut(warm, v, {}))
    BY <2>1, ThreadCalls, CallsSteady
  <2>3. Acts(warm, v)
    <3>1. v.mail = Append(warm.mail, Event("delegate", c, Own))
      BY <1>2 DEF Send, IsWarm, Fields
    <3>2. /\ DOMAIN v = DOMAIN warm
          /\ \A f \in DOMAIN warm \ {"mail", "proxy", "asked", "callee"} : v[f] = warm[f]
      BY <1>2 DEF Send, IsWarm, Fields
    <3> HIDE DEF v
    <3> QED
      BY <3>1, <3>2, SomeLetters, EventFacts DEF Acts, EventKind
  <2> HIDE DEF v
  <2> QED
    BY <2>1, <2>2, <2>3, PeerTurn
<1>4. ASSUME NEW c \in Call, CoreCancels(c) PROVE TInv'
  <2> DEFINE v == Send([warm EXCEPT !.proxy[c] = "cancelling",
                            !.asked = {a \in @ : a[1] # c}], "terminate", c, Own)
  <2>1. Turn(v) /\ after' = after /\ warm.proxy[c] = "calling"
    BY <1>4 DEF CoreCancels
  <2>2. (Consistent(warm) => Consistent(v)) /\ (IsWarm(warm) => SteadyBut(warm, v, {}))
    BY <2>1, ThreadCancels, CancelsSteady
  <2>3. Acts(warm, v)
    <3>1. v.mail = Append(warm.mail, Event("terminate", c, Own))
      BY <1>2 DEF Send, IsWarm, Fields
    <3>2. /\ DOMAIN v = DOMAIN warm
          /\ \A f \in DOMAIN warm \ {"mail", "proxy", "asked", "callee"} : v[f] = warm[f]
      BY <1>2 DEF Send, IsWarm, Fields
    <3>3. c \notin Inner
      BY OwnFacts
    <3> HIDE DEF v
    <3> QED
      BY <3>1, <3>2, <3>3, SomeLetters, EventFacts DEF Acts, EventKind
  <2> HIDE DEF v
  <2> QED
    BY <2>1, <2>2, <2>3, PeerTurn
<1>5. ASSUME NEW c \in Call, CoreAnswers(c, Own) PROVE TInv'
  <2> DEFINE v == Send([warm EXCEPT !.asked = @ \ {<<c, Own>>}], "escalateAck", c, Own)
  <2>1. Turn(v) /\ after' = after /\ <<c, Own>> \in warm.asked
    BY <1>5 DEF CoreAnswers
  <2>2. (Consistent(warm) => Consistent(v)) /\ (IsWarm(warm) => SteadyBut(warm, v, {}))
    BY <2>1, ThreadAnswers, AnswersSteady
  <2>3. Acts(warm, v)
    <3>1. v.mail = Append(warm.mail, Event("escalateAck", c, Own))
      BY <1>2 DEF Send, IsWarm, Fields
    <3>2. /\ DOMAIN v = DOMAIN warm
          /\ \A f \in DOMAIN warm \ {"mail", "proxy", "asked", "callee"} : v[f] = warm[f]
      BY <1>2 DEF Send, IsWarm, Fields
    <3> HIDE DEF v
    <3> QED
      BY <3>1, <3>2, SomeLetters, EventFacts DEF Acts, EventKind
  <2> HIDE DEF v
  <2> QED
    BY <2>1, <2>2, <2>3, PeerTurn
<1>6. ASSUME NEW i \in Inner, CalleeReturns(i) PROVE TInv'
  <2> DEFINE v == Send([warm EXCEPT !.callee[i] = "done"], "delegateAck", i, Own)
  <2>1. Turn(v) /\ after' = after /\ warm.callee[i] \in {"running", "answered"}
    BY <1>6 DEF CalleeReturns
  <2>2. (Consistent(warm) => Consistent(v)) /\ (IsWarm(warm) => SteadyBut(warm, v, {}))
    BY <2>1, InstanceReturns, CalleeSteady
  <2>3. Acts(warm, v)
    <3>1. v.mail = Append(warm.mail, Event("delegateAck", i, Own))
      BY <1>2 DEF Send, IsWarm, Fields
    <3>2. /\ DOMAIN v = DOMAIN warm
          /\ \A f \in DOMAIN warm \ {"mail", "proxy", "asked", "callee"} : v[f] = warm[f]
      BY <1>2 DEF Send, IsWarm, Fields
    <3> HIDE DEF v
    <3> QED
      BY <3>1, <3>2, SomeLetters, EventFacts DEF Acts, EventKind
  <2> HIDE DEF v
  <2> QED
    BY <2>1, <2>2, <2>3, PeerTurn
<1> QED
  BY <1>3, <1>4, <1>5, <1>6 DEF Peers

-----------------------------------------------------------------------------
(* What is committed, and what a failure leaves.                           *)

LEMMA DurableTimely ==
  ASSUME TimeAssumption, NEW w, Timely(w)
  PROVE  Timely(Durable(w)) /\ Committed(Durable(w))
<1> DEFINE d == Durable(w)
<1>1. Lives(w) /\ Consistent(w) /\ IsWarm(w) /\ IsMail(w.mail) /\ IsTimed(w)
  BY DEF Timely, Lives, Consistent, IsWarm
<1>2. /\ DOMAIN d = DOMAIN w
      /\ d.held = [c \in Call |-> "nothing"] /\ d.settled = [c \in Call |-> FALSE]
      /\ d.staged = << >> /\ d.mail = EventsOf(w.mail)
      /\ d.status = w.status /\ d.edge = w.edge /\ d.bridge = w.bridge
  BY <1>1, DurableFacts
<1>3. Consistent(d)
  BY <1>1, DurableKeeps
<1>4. OwnSame(w, d)
  BY <1>1 DEF Durable, OwnSame, IsTimed, IsWarm, Fields
<1>5. /\ \A t \in ToSet(d.mail) : IsEvent(t)
      /\ \A i \in Inner : Told(d, i) => Told(w, i)
  BY <1>1, <1>2, EventsFacts DEF Told
<1> HIDE DEF d
<1>6. ToSet(<< >>) = {}
  BY ToSetEmpty
<1>7. Lives(d)
  <2>1. IsTimed(d)
    BY <1>1, <1>2, <1>4 DEF IsTimed, OwnSame
  <2>2. Staged(d) /\ StagedOk(d)
    BY <1>2, <1>6 DEF Staged, StagedOk
  <2>3. \A i \in Inner : d.edge[i] # "none" => ParentOf[i] \in Watch
    BY <1>1, <1>2 DEF Lives
  <2>4. \A c \in Call : SettledOk(d, c)
    BY <1>2 DEF SettledOk
  <2>5. \A c \in Watch : WatchOk(d, c)
    BY <1>1, <1>2, <1>5, CallsOf DEF Lives, WatchOk, Open, Children
  <2> QED
    BY <1>3, <2>1, <2>2, <2>3, <2>4, <2>5 DEF Lives
<1>8. Timely(d)
  <2>1. \A c \in Keyed : (SleepOk(w, c) => SleepOk(d, c)) /\ (TicksOk(w, c) => TicksOk(d, c))
    BY <1>2, <1>4, MomentsKept
  <2> QED
    BY <1>7, <2>1, CallsOf DEF Timely
<1>9. Committed(d)
  BY <1>2, <1>5 DEF Committed
<1> QED
  BY <1>8, <1>9 DEF d

LEMMA CommitKeeps ==
  ASSUME TimeAssumption, TInv, Commit, UNCHANGED timeVars PROVE TInv'
<1> DEFINE d == Durable(warm)
<1>1. /\ phase = "batch" /\ phase' = "post" /\ rows' = d
      /\ warm' = warm /\ after' = after /\ clock' = clock /\ timers' = timers
  BY DEF Commit, CommitAs, timeVars
<1>2. Timely(d) /\ Committed(d)
  BY <1>1, Awake, DurableTimely
<1> HIDE DEF d
<1>3. Timely(rows)' /\ Committed(rows)'
  BY <1>1, <1>2
<1>4. \A v \in Watch : MovedOnce(v)'
  BY <1>1, Awake DEF MovedOnce, Armed, Rings, Awaits, Begins
<1>5. MailOk(warm)' /\ TimersOk'
  BY <1>1, Awake DEF MailOk, TimersOk
<1>6. Timely(warm)'
  BY <1>1, Awake
<1> QED
  BY <1>1, <1>3, <1>4, <1>5, <1>6 DEF TInv

LEMMA ForgetKeeps ==
  ASSUME TInv, NEW d, Timely(d), Committed(d), rows' = d, Forget(d), Disarm
  PROVE  TInv'
<1>1. /\ phase' = "down" /\ after' = << >> /\ warm' = [d EXCEPT !.mail = << >>]
      /\ timers' = {} /\ clock' = clock
  BY DEF Forget, Disarm
<1>2. IsMail(<< >>) /\ ToSet(<< >>) = {}
  BY MailNone, ToSetEmpty
<1>3. Timely(rows)' /\ Committed(rows)'
  OBVIOUS
<1> QED
  BY <1>1, <1>2, <1>3 DEF TInv

LEMMA FailKeeps ==
  ASSUME TimeAssumption, TInv, Fail \/ CommitInDoubt, Disarm PROVE TInv'
<1>1. Timely(rows) /\ Committed(rows)
  BY DEF TInv
<1>2. CASE Fail
  BY <1>1, <1>2, ForgetKeeps DEF Fail
<1>3. CASE CommitInDoubt
  <2> DEFINE d == Durable(warm)
  <2>1. phase = "batch" /\ rows' = d /\ Forget(d)
    BY <1>3 DEF CommitInDoubt, CommitInDoubtAs
  <2>2. Timely(d) /\ Committed(d)
    BY <2>1, Awake, DurableTimely
  <2> HIDE DEF d
  <2> QED
    BY <2>1, <2>2, ForgetKeeps
<1> QED
  BY <1>2, <1>3

LEMMA CrashKeeps ==
  ASSUME TInv, Crash PROVE TInv'
<1>1. Timely(rows) /\ Committed(rows) /\ rows' = rows /\ Forget(rows) /\ Disarm
  BY DEF TInv, Crash
<1> QED
  BY <1>1, ForgetKeeps

-----------------------------------------------------------------------------
(* Work arrives.                                                           *)

\* The same letters, in the same order.
SameEvents(m, n) ==
  \A e : IsEvent(e) =>
    /\ Has(n, e) <=> Has(m, e)
    /\ \A f : IsEvent(f) => (Precedes(n, e, f) <=> Precedes(m, e, f))

LEMMA AroundMail ==
  ASSUME NEW m, IsMail(m), NEW a, IsMail(a), NEW b, IsMail(b),
         \A t \in ToSet(a) \cup ToSet(b) : ~IsEvent(t)
  PROVE  LET n == a \o m \o b
         IN /\ IsMail(n) /\ SameEvents(m, n) /\ ToSet(n) = ToSet(a) \cup ToSet(m) \cup ToSet(b)
            /\ \A e : Has(n, e) <=> Has(a, e) \/ Has(m, e) \/ Has(b, e)
            /\ \A e : ~Has(a, e) /\ ~Has(b, e) => (Precedes(n, e, e) <=> Precedes(m, e, e))
<1> DEFINE l == a \o m
           n == l \o b
<1>1. /\ IsMail(l) /\ ToSet(l) = ToSet(a) \cup ToSet(m)
      /\ \A e : Has(l, e) <=> Has(a, e) \/ Has(m, e)
      /\ \A e, f : Precedes(l, e, f) <=>
           Precedes(a, e, f) \/ Precedes(m, e, f) \/ (Has(a, e) /\ Has(m, f))
  BY MailConcat
<1> HIDE DEF l
<1>2. /\ IsMail(n) /\ ToSet(n) = ToSet(l) \cup ToSet(b)
      /\ \A e : Has(n, e) <=> Has(l, e) \/ Has(b, e)
      /\ \A e, f : Precedes(n, e, f) <=>
           Precedes(l, e, f) \/ Precedes(b, e, f) \/ (Has(l, e) /\ Has(b, f))
  BY <1>1, MailConcat
<1>3. \A s, e, f : Precedes(s, e, f) => Has(s, e) /\ Has(s, f)
  BY DEF Precedes, Has
<1>4. \A e : IsEvent(e) => ~Has(a, e) /\ ~Has(b, e)
  BY HasIsIn
<1> HIDE DEF n
<1>5. SameEvents(m, n)
  BY <1>1, <1>2, <1>3, <1>4 DEF SameEvents
<1>6. \A e : ~Has(a, e) /\ ~Has(b, e) => (Precedes(n, e, e) <=> Precedes(m, e, e))
  BY <1>1, <1>2, <1>3
<1> QED
  BY <1>1, <1>2, <1>5, <1>6 DEF n, l

\* Letters are as they were; what waited for the transport may have been taken.
LEMMA QueuedTimely ==
  ASSUME TimeAssumption, NEW w, Timely(w), NEW v, DOMAIN v = DOMAIN w, v = [f \in DOMAIN v |-> v[f]],
         \A f \in DOMAIN w \ {"mail", "staged"} : v[f] = w[f],
         v.staged \in {<< >>, w.staged}, IsMail(v.mail), SameEvents(w.mail, v.mail)
  PROVE  /\ Timely(v) /\ v.status = w.status /\ v.due = w.due /\ v.edge = w.edge
         /\ v.held = w.held
<1>1. Lives(w) /\ Consistent(w) /\ IsWarm(w) /\ IsTimed(w)
  BY DEF Timely, Lives, Consistent
<1>2. /\ v.status = w.status /\ v.settled = w.settled /\ v.held = w.held /\ v.edge = w.edge
      /\ v.bridge = w.bridge /\ v.relays = w.relays /\ v.proxy = w.proxy /\ v.asked = w.asked
      /\ v.callee = w.callee /\ v.raised = w.raised
  BY <1>1 DEF IsWarm, Fields
<1>3. IsWarm(v)
  BY <1>1, <1>2 DEF IsWarm
<1>4. Consistent(v)
  BY <1>1, <1>2, <1>3, SameLettersKeep DEF SameEvents
<1>5. OwnSame(w, v)
  BY <1>1 DEF OwnSame, IsTimed
<1>6. \A i \in Inner : Told(v, i) <=> Told(w, i)
  BY EventFacts DEF Told, SameEvents, EventKind
<1>7. ToSet(<< >>) = {}
  BY ToSetEmpty
<1>8. Lives(v)
  <2>1. IsTimed(v)
    BY <1>1, <1>2, <1>5 DEF IsTimed, OwnSame
  <2>2. Staged(v) /\ StagedOk(v)
    <3>1. CASE v.staged = << >>
      BY <1>7, <3>1 DEF Staged, StagedOk
    <3>2. CASE v.staged = w.staged
      BY <1>1, <1>2, <3>2 DEF Lives, Staged, StagedOk
    <3> QED
      BY <3>1, <3>2
  <2>3. \A i \in Inner : v.edge[i] # "none" => ParentOf[i] \in Watch
    BY <1>1, <1>2 DEF Lives
  <2>4. \A c \in Call : SettledOk(v, c)
    BY <1>1, <1>2 DEF Lives, SettledOk
  <2>5. \A c \in Watch : WatchOk(v, c)
    BY <1>1, <1>2, <1>6 DEF Lives, WatchOk, Open, Children
  <2> QED
    BY <1>4, <2>1, <2>2, <2>3, <2>4, <2>5 DEF Lives
<1>9. Timely(v)
  <2>1. \A c \in Keyed : (SleepOk(w, c) => SleepOk(v, c)) /\ (TicksOk(w, c) => TicksOk(v, c))
    BY <1>2, <1>5, MomentsKept
  <2> QED
    BY <1>8, <2>1, CallsOf DEF Timely
<1> QED
  BY <1>2, <1>5, <1>9 DEF OwnSame

LEMMA TimerFacts ==
  \A c, deadline : Timer(c, deadline).call = c /\ Timer(c, deadline).deadline = deadline
BY DEF Timer

\* A timer is reached: it is armed again on its way, or rings.
LEMMA HopKeeps ==
  ASSUME TInv, NEW t \in timers, timers' = (timers \ {t}) \cup {Timer(t.call, t.deadline)},
         UNCHANGED <<callVars, clock>>
  PROVE  TInv'
<1>1. /\ phase' = phase /\ warm' = warm /\ rows' = rows /\ after' = after /\ clock' = clock
  BY DEF callVars
<1>2. phase # "down"
  BY DEF TInv
<1> DEFINE n == Timer(t.call, t.deadline)
<1>3. n.call = t.call /\ n.deadline = t.deadline
  BY TimerFacts
<1> HIDE DEF n
<1>4. timers' = (timers \ {t}) \cup {n}
  BY DEF n
<1>5. TimersOk
  BY <1>2, Awake
<1>6. TimersOk'
  BY <1>1, <1>3, <1>4, <1>5 DEF TimersOk
<1>7. ASSUME NEW v \in Watch PROVE MovedOnce(v)'
  <2>1. Armed(v)' <=> Armed(v)
    BY <1>3, <1>4 DEF Armed
  <2>2. MovedOnce(v)
    BY <1>2, Awake
  <2> QED
    BY <1>1, <2>1, <2>2 DEF MovedOnce, Rings, Awaits, Begins, OneOf
<1>8. MailOk(warm)' /\ Timely(warm)' /\ Timely(rows)' /\ Committed(rows)'
  BY <1>1, <1>2, Awake DEF MailOk
<1> QED
  BY <1>1, <1>2, <1>6, <1>7, <1>8 DEF TInv

LEMMA RingKeeps ==
  ASSUME TimeAssumption, TInv, NEW t \in timers, clock >= t.deadline, timers' = timers \ {t},
         warm' = [warm EXCEPT !.mail = Append(@, Alarm(t.call))],
         UNCHANGED <<rows, phase, after, clock>>
  PROVE  TInv'
<1>1. phase # "down"
  BY DEF TInv
<1>2. /\ Timely(warm) /\ MailOk(warm) /\ TimersOk /\ IsWarm(warm) /\ IsMail(warm.mail)
      /\ Timely(rows) /\ Committed(rows) /\ clock \in Nat
  BY <1>1, Awake
<1> DEFINE c == t.call
           v == [warm EXCEPT !.mail = Append(@, Alarm(c))]
<1>3. /\ c \in Keyed /\ c \in Call /\ Live(warm, c)
      /\ c \in Sleep => clock >= warm.due[c]
  BY <1>2, CallsOf DEF TimersOk
<1>4. /\ DOMAIN v = DOMAIN warm /\ v = [f \in DOMAIN v |-> v[f]] /\ v.mail = Append(warm.mail, Alarm(c))
      /\ v.staged = warm.staged /\ \A f \in DOMAIN warm \ {"mail", "staged"} : v[f] = warm[f]
  BY <1>2 DEF IsWarm, Fields
<1>5. warm' = v
  OBVIOUS
<1> HIDE DEF v, c
<1>6. ~IsEvent(Alarm(c))
  BY AlarmFacts
<1>7. /\ IsMail(v.mail) /\ ToSet(v.mail) = ToSet(warm.mail) \cup {Alarm(c)}
      /\ \A e : Has(v.mail, e) <=> Has(warm.mail, e) \/ e = Alarm(c)
      /\ \A e, f : Precedes(v.mail, e, f) <=>
           Precedes(warm.mail, e, f) \/ (Has(warm.mail, e) /\ f = Alarm(c))
  BY <1>2, <1>4, <1>6, MailSend
<1>8. SameEvents(warm.mail, v.mail)
  BY <1>6, <1>7 DEF SameEvents
<1>9. /\ Timely(v) /\ v.status = warm.status /\ v.due = warm.due /\ v.edge = warm.edge
      /\ v.staged = warm.staged
  BY <1>2, <1>4, <1>7, <1>8, QueuedTimely
<1>10. MailOk(v)
  <2>1. \A e \in ToSet(v.mail) : ~IsEvent(e) => e \in Completions \cup Alarms
    BY <1>2, <1>3, <1>7 DEF MailOk, Alarms
  <2>2. \A d \in Keyed : Has(v.mail, Alarm(d)) =>
          v.status[d] # "none" /\ (d \in Sleep => clock >= v.due[d])
    BY <1>2, <1>3, <1>7, <1>9, AlarmFacts DEF MailOk, Live
  <2>3. \A d \in Watch, o \in Outcomes :
          Has(v.mail, Completion(d, o)) => v.status[d] \in {"cancelling", "gone"}
    BY <1>2, <1>7, <1>9, AlarmFacts DEF MailOk
  <2> QED
    BY <2>1, <2>2, <2>3 DEF MailOk
<1>11. MailOk(warm)'
  BY <1>5, <1>10 DEF MailOk
<1>12. TimersOk'
  BY <1>2, <1>5, <1>9 DEF TimersOk, Live
<1>13. ASSUME NEW d \in Watch PROVE MovedOnce(d)'
  <2> SUFFICES ASSUME warm.status[d] = "running" PROVE MovedOnce(d)'
    BY <1>5, <1>9 DEF MovedOnce
  <2>1. MovedOnce(d)
    BY <1>1, Awake
  <2>2. (Awaits(d)' <=> Awaits(d)) /\ (Begins(d)' <=> Begins(d)) /\ (Draining(v, d) <=> Draining(warm, d))
    BY <1>5, <1>9 DEF Awaits, Begins, Draining
  <2>3. CASE d = c
    <3>1. Armed(d)
      BY <2>3 DEF Armed, c
    <3>2. ~Begins(d) /\ ~Rings(d) /\ ~Awaits(d) /\ ~Draining(warm, d)
      BY <2>1, <3>1 DEF MovedOnce, OneOf
    <3>3. ~Armed(d)'
      BY <1>2, <2>3 DEF Armed, TimersOk, c
    <3>4. Has(v.mail, Alarm(d)) /\ ~Precedes(v.mail, Alarm(d), Alarm(d))
      BY <1>7, <2>1, <2>3, <3>2 DEF MovedOnce, Rings
    <3> QED
      BY <1>5, <2>2, <3>2, <3>3, <3>4 DEF MovedOnce, OneOf, Rings, Alarm, Work
  <2>4. CASE d # c
    <3>1. Armed(d)' <=> Armed(d)
      BY <2>4 DEF Armed, c
    <3>2. /\ Has(v.mail, Alarm(d)) <=> Has(warm.mail, Alarm(d))
          /\ Precedes(v.mail, Alarm(d), Alarm(d)) <=> Precedes(warm.mail, Alarm(d), Alarm(d))
      BY <1>7, <2>4, AlarmFacts
    <3> QED
      BY <1>5, <1>9, <2>1, <2>2, <3>1, <3>2 DEF MovedOnce, OneOf, Rings, Alarm, Work
  <2> QED
    BY <2>3, <2>4
<1> QED
  BY <1>1, <1>2, <1>5, <1>9, <1>11, <1>12, <1>13 DEF TInv

LEMMA FiresKeeps ==
  ASSUME TimeAssumption, TInv, NEW c \in Call, Fires(c) PROVE TInv'
<1>1. PICK t \in timers :
        /\ t.call = c /\ clock >= t.at
        /\ IF clock < t.deadline
           THEN timers' = (timers \ {t}) \cup {Timer(c, t.deadline)} /\ UNCHANGED callVars
           ELSE /\ timers' = timers \ {t}
                /\ warm' = [warm EXCEPT !.mail = Append(@, Work("timer", c))]
                /\ UNCHANGED <<rows, phase, after, faults, crashes, plan>>
  BY DEF Fires
<1>2. clock' = clock
  BY DEF Fires
<1>3. CASE clock < t.deadline
  BY <1>1, <1>2, <1>3, HopKeeps
<1>4. CASE ~(clock < t.deadline)
  <2>1. phase # "down"
    BY <1>1 DEF TInv
  <2>2. clock >= t.deadline
    <3>1. clock \in Nat
      BY <2>1, Awake
    <3>2. t.deadline \in Nat
      BY <2>1, Awake DEF TimersOk
    <3> QED
      BY <1>4, <3>1, <3>2
  <2> QED
    BY <1>1, <1>2, <1>4, <2>2, RingKeeps DEF Alarm
<1> QED
  BY <1>3, <1>4

LEMMA PassesKeeps ==
  ASSUME TimeAssumption, TInv, Passes PROVE TInv'
<1>1. /\ clock < MaxClock /\ clock' = clock + 1 /\ timers' = timers /\ warm' = warm
      /\ rows' = rows /\ phase' = phase /\ after' = after
  BY DEF Passes, callVars
<1>2. clock' \in 0..MaxClock /\ clock \in Nat /\ clock' >= clock
  BY <1>1 DEF TInv, TimeAssumption
<1>3. CASE phase = "down"
  BY <1>1, <1>2, <1>3 DEF TInv
<1>4. CASE phase # "down"
  <2>1. /\ Timely(warm) /\ MailOk(warm) /\ TimersOk /\ Timely(rows) /\ Committed(rows)
    BY <1>4, Awake
  <2>2. MailOk(warm)'
    <3>1. ASSUME NEW c \in Sleep, clock >= warm.due[c] PROVE clock' >= warm.due[c]
      <4>1. warm.due[c] \in Nat
        BY <2>1, CallsOf DEF Timely, Lives, IsTimed
      <4> QED
        BY <1>1, <1>2, <3>1, <4>1
    <3> QED
      BY <1>1, <2>1, <3>1 DEF MailOk, Alarm, Work
  <2>3. TimersOk'
    BY <1>1, <2>1 DEF TimersOk
  <2>4. \A v \in Watch : MovedOnce(v)'
    BY <1>1, <1>4, Awake DEF MovedOnce, Armed, Rings, Awaits, Begins
  <2> QED
    BY <1>1, <1>2, <1>4, <2>1, <2>2, <2>3, <2>4 DEF TInv
<1> QED
  BY <1>3, <1>4

LEMMA StutterKeeps ==
  ASSUME TInv, UNCHANGED vars PROVE TInv'
<1>1. /\ clock' = clock /\ timers' = timers /\ warm' = warm
      /\ rows' = rows /\ phase' = phase /\ after' = after
  BY DEF vars, timeVars, callVars
<1>2. CASE phase = "down"
  BY <1>1, <1>2 DEF TInv
<1>3. CASE phase # "down"
  <2>1. /\ Timely(warm) /\ MailOk(warm) /\ TimersOk /\ Timely(rows) /\ Committed(rows)
    BY <1>3, Awake
  <2>2. MailOk(warm)' /\ TimersOk'
    BY <1>1, <2>1 DEF MailOk, TimersOk
  <2>3. \A v \in Watch : MovedOnce(v)'
    BY <1>1, <1>3, Awake DEF MovedOnce, Armed, Rings, Awaits, Begins
  <2> QED
    BY <1>1, <1>3, <2>1, <2>2, <2>3 DEF TInv
<1> QED
  BY <1>2, <1>3

-----------------------------------------------------------------------------
(* The effects of a commit.                                                *)

\* The timers that are armed, beside those that stay.
LEMMA RearmFacts ==
  ASSUME NEW cleared, NEW armed
  PROVE  /\ \A t \in Rearm(cleared, armed) :
              \/ t \in timers /\ t.call \notin cleared \cup armed
              \/ t.call \in armed /\ t = Timer(t.call, warm.due[t.call]) /\ t.deadline = warm.due[t.call]
         /\ \A c \in armed : \E t \in Rearm(cleared, armed) : t.call = c
         /\ \A t \in timers : t.call \notin cleared \cup armed => t \in Rearm(cleared, armed)
BY TimerFacts DEF Rearm

\* Timers of calls that are there are armed for the moments they wait for.
LEMMA RearmKeeps ==
  ASSUME TimersOk, NEW v, v.status = warm.status, v.due = warm.due, v.due \in [Keyed -> Nat],
         NEW cleared, NEW armed, armed \subseteq Keyed, \A c \in armed : Live(warm, c),
         warm' = v, timers' = Rearm(cleared, armed)
  PROVE  TimersOk'
<1>1. ASSUME NEW t \in timers'
      PROVE  /\ t.call \in Keyed /\ Live(v, t.call) /\ t.deadline \in Nat
             /\ t.call \in Sleep => t.deadline = v.due[t.call]
  BY <1>1, RearmFacts DEF TimersOk, Live
<1>2. ASSUME NEW t \in timers', NEW u \in timers', t.call = u.call PROVE t = u
  BY <1>2, RearmFacts DEF TimersOk
<1> QED
  BY <1>1, <1>2 DEF TimersOk

LEMMA AfterCommitKeeps ==
  ASSUME TimeAssumption, TInv, AfterCommit PROVE TInv'
<1> DEFINE begun == Dispatched \ Aborted
           returned == {s \in ToSet(warm.staged) : s.outcome = "result" /\ Live(warm, s.call)}
           armed == (begun \cap Keyed) \cup {s.call : s \in returned}
           S == {Answer(c) : c \in begun \ Keyed} \cup {Completion(c, "cancelled") : c \in Aborted}
           v == [warm EXCEPT !.staged = << >>, !.mail = @ \o SetToSeq(S)]
<1>1. /\ phase # "down" /\ phase' = "idle" /\ after' = << >> /\ clock' = clock /\ rows' = rows
      /\ timers' = Rearm(Aborted, armed) /\ warm' = v
  BY DEF AfterCommit, Keyed
<1>2. /\ Timely(warm) /\ MailOk(warm) /\ TimersOk /\ IsWarm(warm) /\ IsMail(warm.mail)
      /\ Timely(rows) /\ Committed(rows) /\ clock \in Nat /\ clock \in 0..MaxClock
  BY <1>1, Awake
<1>3. \A c \in Aborted : c \in Call /\ warm.status[c] = "cancelling"
  BY DEF Aborted
<1>4. armed \subseteq Keyed /\ \A c \in armed : Live(warm, c)
  <2>1. \A c \in begun : Live(warm, c)
    BY DEF Dispatched
  <2>2. \A s \in returned : s.call \in Keyed /\ Live(warm, s.call)
    BY <1>2, CallsOf DEF Timely, Lives, StagedOk
  <2> QED
    BY <2>1, <2>2
<1>5. \A d \in Watch : warm.status[d] = "running" =>
        (d \in armed <=> Begins(d) \/ Awaits(d))
  <2> SUFFICES ASSUME NEW d \in Watch, warm.status[d] = "running"
               PROVE  d \in armed <=> Begins(d) \/ Awaits(d)
    OBVIOUS
  <2>1. d \in Keyed /\ d \in Call /\ Live(warm, d) /\ d \notin Aborted
    BY <1>3, CallsOf DEF Live
  <2>2. d \in begun <=> Begins(d)
    BY <2>1, HasIsIn DEF Dispatched, Begins
  <2>3. d \in {s.call : s \in returned} <=> Awaits(d)
    BY <1>2, <2>1 DEF Awaits, Timely, Lives, StagedOk
  <2> QED
    BY <2>1, <2>2, <2>3
<1>6. S \subseteq Completions /\ \A d \in Watch, o \in Outcomes : Completion(d, o) \in S => d \in Aborted
  <2>1. begun \subseteq Call
    BY DEF Dispatched
  <2>2. \A c \in Call \ Keyed : Answer(c) \in Completions
    BY DEF Answer, Completions, Outcomes
  <2>3. \A c \in Call : Completion(c, "cancelled") \in Completions
    BY DEF Completions, Outcomes
  <2>4. \A d \in Watch, o \in Outcomes, c \in Call \ Keyed : Completion(d, o) # Answer(c)
    BY CallsOf, CompletionFacts DEF Answer
  <2> HIDE DEF begun
  <2>5. \A e \in S : \/ \E c \in Call \ Keyed : e = Answer(c)
                   \/ \E c \in Aborted : e = Completion(c, "cancelled")
    BY <2>1
  <2> HIDE DEF S
  <2>6. S \subseteq Completions
    BY <1>3, <2>2, <2>3, <2>5
  <2>7. ASSUME NEW d \in Watch, NEW o \in Outcomes, Completion(d, o) \in S PROVE d \in Aborted
    <3>1. PICK c \in Aborted : Completion(d, o) = Completion(c, "cancelled")
      BY <2>4, <2>5, <2>7
    <3> QED
      BY <3>1, CompletionFacts
  <2> QED
    BY <2>6, <2>7
<1>7. /\ DOMAIN v = DOMAIN warm /\ v = [f \in DOMAIN v |-> v[f]] /\ v.staged = << >>
      /\ v.mail = warm.mail \o SetToSeq(S)
      /\ \A f \in DOMAIN warm \ {"mail", "staged"} : v[f] = warm[f]
  <2> HIDE DEF S
  <2> QED
    BY <1>2 DEF IsWarm, Fields
<1> HIDE DEF S, v, armed, begun, returned
<1>8. /\ IsMail(SetToSeq(S)) /\ ToSet(SetToSeq(S)) = S
      /\ \A e : Has(SetToSeq(S), e) <=> e \in S
      /\ \A t \in S : ~IsEvent(t)
  BY <1>6, ScheduledFacts
<1> DEFINE n == << >> \o warm.mail \o SetToSeq(S)
<1>9. v.mail = n
  <2>1. << >> \o warm.mail = warm.mail
    BY <1>2 DEF IsMail
  <2> QED
    BY <1>7, <2>1
<1>10. /\ IsMail(n) /\ SameEvents(warm.mail, n) /\ ToSet(n) = ToSet(warm.mail) \cup S
       /\ \A e : Has(n, e) <=> Has(warm.mail, e) \/ e \in S
       /\ \A e : e \notin S => (Precedes(n, e, e) <=> Precedes(warm.mail, e, e))
  <2>1. IsMail(<< >>) /\ ToSet(<< >>) = {} /\ \A e : ~Has(<< >>, e)
    BY MailNone, ToSetEmpty
  <2>2. \A t \in ToSet(<< >>) \cup ToSet(SetToSeq(S)) : ~IsEvent(t)
    BY <1>8, <2>1
  <2>3. /\ IsMail(n) /\ SameEvents(warm.mail, n)
        /\ ToSet(n) = ToSet(<< >>) \cup ToSet(warm.mail) \cup ToSet(SetToSeq(S))
        /\ \A e : Has(n, e) <=> Has(<< >>, e) \/ Has(warm.mail, e) \/ Has(SetToSeq(S), e)
        /\ \A e : ~Has(<< >>, e) /\ ~Has(SetToSeq(S), e) =>
             (Precedes(n, e, e) <=> Precedes(warm.mail, e, e))
    BY <1>2, <1>8, <2>1, <2>2, AroundMail
  <2> HIDE DEF n
  <2> QED
    BY <1>8, <2>1, <2>3
<1> HIDE DEF n
<1>11. /\ Timely(v) /\ v.status = warm.status /\ v.due = warm.due /\ v.edge = warm.edge
  BY <1>2, <1>7, <1>9, <1>10, QueuedTimely
<1>12. \A d : Alarm(d) \notin S
  BY <1>6, AlarmFacts DEF Completions
<1>13. MailOk(v)
  <2>1. \A t \in ToSet(v.mail) : ~IsEvent(t) => t \in Completions \cup Alarms
    BY <1>2, <1>6, <1>9, <1>10 DEF MailOk
  <2>2. \A d \in Keyed : Has(v.mail, Alarm(d)) =>
          v.status[d] # "none" /\ (d \in Sleep => clock >= v.due[d])
    BY <1>2, <1>9, <1>10, <1>11, <1>12 DEF MailOk
  <2>3. \A d \in Watch, o \in Outcomes :
          Has(v.mail, Completion(d, o)) => v.status[d] \in {"cancelling", "gone"}
    BY <1>2, <1>3, <1>6, <1>9, <1>10, <1>11 DEF MailOk
  <2> QED
    BY <2>1, <2>2, <2>3 DEF MailOk
<1>14. MailOk(warm)'
  BY <1>1, <1>13 DEF MailOk
<1>15. TimersOk'
  <2>1. v.due \in [Keyed -> Nat]
    BY <1>11 DEF Timely, Lives, IsTimed
  <2> QED
    BY <1>1, <1>2, <1>4, <1>11, <2>1, RearmKeeps
<1>16. ASSUME NEW d \in Watch PROVE MovedOnce(d)'
  <2> SUFFICES ASSUME warm.status[d] = "running" PROVE MovedOnce(d)'
    BY <1>1, <1>11 DEF MovedOnce
  <2>1. MovedOnce(d)
    BY <1>1, Awake
  <2>2. d \notin Aborted
    BY <1>3
  <2>3. Armed(d)' <=> Armed(d) \/ Begins(d) \/ Awaits(d)
    <3>1. d \in armed <=> Begins(d) \/ Awaits(d)
      BY <1>5
    <3>2. (\E t \in Rearm(Aborted, armed) : t.call = d) <=> d \in armed \/ \E t \in timers : t.call = d
      BY <2>2, RearmFacts
    <3> QED
      BY <1>1, <3>1, <3>2 DEF Armed
  <2>4. ~Awaits(d)' /\ ~Begins(d)'
    <3>1. ToSet(<< >>) = {} /\ \A e : ~Has(<< >>, e)
      BY MailNone, ToSetEmpty
    <3> QED
      BY <1>1, <1>7, <3>1 DEF Awaits, Begins
  <2>5. /\ Has(v.mail, Alarm(d)) <=> Rings(d)
        /\ Precedes(v.mail, Alarm(d), Alarm(d)) <=> Precedes(warm.mail, Alarm(d), Alarm(d))
    BY <1>9, <1>10, <1>12 DEF Rings
  <2>6. Rings(d)' <=> Rings(d)
    BY <1>1, <2>5 DEF Rings, Alarm, Work
  <2>7. Draining(v, d) <=> Draining(warm, d)
    BY <1>11 DEF Draining
  <2> QED
    BY <1>1, <2>1, <2>3, <2>4, <2>5, <2>6, <2>7 DEF MovedOnce, OneOf, Alarm, Work
<1>17. IsMail(<< >>) /\ ToSet(<< >>) = {}
  BY MailNone, ToSetEmpty
<1> QED
  BY <1>1, <1>2, <1>11, <1>14, <1>15, <1>16, <1>17 DEF TInv

-----------------------------------------------------------------------------
(* A reload.                                                               *)

LEMMA ReloadKeeps ==
  ASSUME TimeAssumption, TInv, Reload PROVE TInv'
<1> DEFINE S == {Answer(c) : c \in {d \in Now \cup Invalid : warm.status[d] = "running"}}
                  \cup {Completion(c, "cancelled") : c \in {d \in Call : warm.status[d] = "cancelling"}}
           v == [warm EXCEPT !.mail = @ \o SetToSeq(S) \o rows.mail]
<1>1. /\ phase = "down" /\ phase' = "idle" /\ after' = after /\ clock' = clock /\ rows' = rows
      /\ timers' = Rearm({}, Rearmed) /\ warm' = v
  BY DEF Reload, Load, LoadAs
<1>2. /\ Timely(rows) /\ Committed(rows) /\ IsWarm(rows) /\ IsMail(rows.mail) /\ clock \in 0..MaxClock
      /\ warm = [rows EXCEPT !.mail = << >>] /\ timers = {} /\ after = << >>
  BY <1>1 DEF TInv, Timely, Lives, Consistent, IsWarm
<1>3. /\ warm.status = rows.status /\ warm.edge = rows.edge /\ warm.due = rows.due
      /\ warm.mail = << >> /\ IsTimed(rows)
  BY <1>2 DEF IsWarm, Fields, Timely, Lives, IsTimed
<1>4. S \subseteq Completions /\ \A d \in Watch, o \in Outcomes :
        Completion(d, o) \in S => warm.status[d] = "cancelling"
  <2>1. \A c \in Now \cup Invalid : Answer(c) \in Completions
    BY DEF Answer, Completions, Outcomes, TimeAssumption
  <2>2. \A c \in Call : Completion(c, "cancelled") \in Completions
    BY DEF Completions, Outcomes
  <2>3. \A d \in Watch, o \in Outcomes, c \in Now \cup Invalid : Completion(d, o) # Answer(c)
    BY CompletionFacts DEF Answer, TimeAssumption
  <2>4. \A e \in S :
          \/ \E c \in Now \cup Invalid : e = Answer(c)
          \/ \E c \in Call : warm.status[c] = "cancelling" /\ e = Completion(c, "cancelled")
    OBVIOUS
  <2> HIDE DEF S
  <2>5. S \subseteq Completions
    BY <2>1, <2>2, <2>4
  <2>6. ASSUME NEW d \in Watch, NEW o \in Outcomes, Completion(d, o) \in S
        PROVE  warm.status[d] = "cancelling"
    <3>1. PICK c \in Call : warm.status[c] = "cancelling" /\ Completion(d, o) = Completion(c, "cancelled")
      BY <2>3, <2>4, <2>6
    <3> QED
      BY <3>1, CompletionFacts
  <2> QED
    BY <2>5, <2>6
<1> HIDE DEF S
<1>5. /\ DOMAIN v = DOMAIN rows /\ v = [f \in DOMAIN v |-> v[f]] /\ v.staged = rows.staged
      /\ v.mail = << >> \o SetToSeq(S) \o rows.mail
      /\ \A f \in DOMAIN rows \ {"mail", "staged"} : v[f] = rows[f]
  BY <1>2, <1>3 DEF IsWarm, Fields
<1> HIDE DEF v
<1>6. /\ IsMail(SetToSeq(S)) /\ ToSet(SetToSeq(S)) = S
      /\ \A e : Has(SetToSeq(S), e) <=> e \in S
      /\ \A t \in S : ~IsEvent(t)
  BY <1>4, ScheduledFacts
<1> DEFINE n == SetToSeq(S) \o rows.mail \o << >>
<1>7. v.mail = n
  <2>1. rows.mail \o << >> = rows.mail /\ << >> \o SetToSeq(S) = SetToSeq(S)
    BY <1>2, <1>6 DEF IsMail
  <2>2. (SetToSeq(S) \o rows.mail) \o << >> = SetToSeq(S) \o rows.mail
    <3>1. IsMail(SetToSeq(S) \o rows.mail)
      BY <1>2, <1>6, MailConcat
    <3> QED
      BY <3>1 DEF IsMail
  <2> QED
    BY <1>5, <2>1, <2>2
<1>8. /\ IsMail(n) /\ SameEvents(rows.mail, n) /\ ToSet(n) = ToSet(rows.mail) \cup S
      /\ \A e : Has(n, e) <=> Has(rows.mail, e) \/ e \in S
      /\ \A e : e \notin S => (Precedes(n, e, e) <=> Precedes(rows.mail, e, e))
  <2>1. IsMail(<< >>) /\ ToSet(<< >>) = {} /\ \A e : ~Has(<< >>, e)
    BY MailNone, ToSetEmpty
  <2>2. \A t \in ToSet(SetToSeq(S)) \cup ToSet(<< >>) : ~IsEvent(t)
    BY <1>6, <2>1
  <2>3. /\ IsMail(n) /\ SameEvents(rows.mail, n)
        /\ ToSet(n) = ToSet(SetToSeq(S)) \cup ToSet(rows.mail) \cup ToSet(<< >>)
        /\ \A e : Has(n, e) <=> Has(SetToSeq(S), e) \/ Has(rows.mail, e) \/ Has(<< >>, e)
        /\ \A e : ~Has(SetToSeq(S), e) /\ ~Has(<< >>, e) =>
             (Precedes(n, e, e) <=> Precedes(rows.mail, e, e))
    BY <1>2, <1>6, <2>1, <2>2, AroundMail
  <2> HIDE DEF n
  <2> QED
    BY <1>6, <2>1, <2>3
<1> HIDE DEF n
<1>9. /\ Timely(v) /\ v.status = rows.status /\ v.due = rows.due /\ v.edge = rows.edge
  BY <1>2, <1>5, <1>7, <1>8, QueuedTimely
<1>10. \A d : Alarm(d) \notin S /\ ~Has(rows.mail, Alarm(d))
  BY <1>2, <1>4, AlarmFacts, HasIsIn DEF Completions, Committed
<1>11. MailOk(v)
  <2>1. \A t \in ToSet(v.mail) : ~IsEvent(t) => t \in Completions \cup Alarms
    BY <1>2, <1>4, <1>7, <1>8 DEF Committed
  <2>2. \A d \in Keyed : ~Has(v.mail, Alarm(d))
    BY <1>7, <1>8, <1>10
  <2>3. \A d \in Watch, o \in Outcomes :
          Has(v.mail, Completion(d, o)) => v.status[d] \in {"cancelling", "gone"}
    <3>1. \A d, o : ~Has(rows.mail, Completion(d, o))
      BY <1>2, HasIsIn, CompletionFacts DEF Committed
    <3> QED
      BY <1>3, <1>4, <1>7, <1>8, <1>9, <3>1
  <2> QED
    BY <2>1, <2>2, <2>3 DEF MailOk
<1>12. MailOk(warm)'
  BY <1>1, <1>11 DEF MailOk
<1>13. Rearmed \subseteq Keyed /\ \A c \in Rearmed : Live(warm, c)
  BY DEF Rearmed, Keyed, Live
<1>14. TimersOk'
  <2>1. TimersOk
    BY <1>2 DEF TimersOk
  <2>2. v.due \in [Keyed -> Nat] /\ v.status = warm.status /\ v.due = warm.due
    BY <1>3, <1>9 DEF IsTimed
  <2> QED
    BY <1>1, <1>13, <2>1, <2>2, RearmKeeps
<1>15. ASSUME NEW d \in Watch PROVE MovedOnce(d)'
  <2> SUFFICES ASSUME rows.status[d] = "running" PROVE MovedOnce(d)'
    BY <1>1, <1>9 DEF MovedOnce
  <2>1. ToSet(<< >>) = {} /\ \A e : ~Has(<< >>, e)
    BY MailNone, ToSetEmpty
  <2>2. ~Awaits(d)' /\ ~Begins(d)'
    BY <1>1, <1>2, <1>5, <2>1 DEF Awaits, Begins, Committed
  <2>3. ~Has(v.mail, Alarm(d)) /\ ~Precedes(v.mail, Alarm(d), Alarm(d))
    <3>1. ~Has(v.mail, Alarm(d))
      BY <1>7, <1>8, <1>10
    <3> QED
      BY <3>1 DEF Has, Precedes
  <2>4. ~Rings(d)'
    BY <1>1, <2>3 DEF Rings, Alarm, Work
  <2>5. Draining(v, d) <=> Draining(warm, d)
    BY <1>3, <1>9 DEF Draining
  <2>6. Armed(d)' <=> ~Draining(warm, d)
    <3>1. d \in Rearmed <=> ~Draining(warm, d)
      BY <1>3 DEF Rearmed
    <3>2. (\E t \in Rearm({}, Rearmed) : t.call = d) <=> d \in Rearmed
      BY <1>2, RearmFacts
    <3> QED
      BY <1>1, <3>1, <3>2 DEF Armed
  <2> QED
    BY <1>1, <2>2, <2>3, <2>4, <2>5, <2>6 DEF MovedOnce, OneOf, Alarm, Work
<1>16. IsMail(<< >>) /\ ToSet(<< >>) = {}
  BY MailNone, ToSetEmpty
<1> QED
  BY <1>1, <1>2, <1>9, <1>12, <1>14, <1>15, <1>16 DEF TInv

-----------------------------------------------------------------------------
(* The invariant holds.                                                    *)

LEMMA NextKeeps ==
  ASSUME TimeAssumption, TInv, [Next]_vars PROVE TInv'
<1>1. CASE Loop
  <2>1. CASE Commit /\ UNCHANGED timeVars
    BY <2>1, CommitKeeps
  <2> QED
    BY <1>1, <2>1, EventKeeps, TimerTurnKeeps, CompleteTurnKeeps, AfterCommitKeeps, ReloadKeeps DEF Loop
<1>2. CASE Peers /\ UNCHANGED timeVars
  BY <1>2, PeersKeep
<1>3. CASE Passes \/ \E c \in Call : Fires(c)
  BY <1>3, PassesKeeps, FiresKeeps
<1>4. CASE (Fail \/ CommitInDoubt) /\ Disarm
  BY <1>4, FailKeeps
<1>5. CASE Crash
  BY <1>5, CrashKeeps
<1>6. CASE UNCHANGED vars
  BY <1>6, StutterKeeps
<1> QED
  BY <1>1, <1>2, <1>3, <1>4, <1>5, <1>6 DEF Next

LEMMA TInvAlways == ASSUME TimeAssumption PROVE Spec => []TInv
<1>1. Init => TInv
  BY TInvInit
<1>2. TInv /\ [Next]_vars => TInv'
  BY NextKeeps
<1> QED
  BY <1>1, <1>2, PTL DEF Spec

\* What is in memory is timely but for its mail, also while the actor is down.
LEMMA MemoryTimely ==
  ASSUME TInv
  PROVE  \E u \in {warm, rows} :
           /\ Timely(u) /\ warm.status = u.status /\ warm.edge = u.edge
           /\ warm.due = u.due /\ warm.opened = u.opened /\ warm.woken = u.woken
           /\ warm.ticks = u.ticks
<1>1. CASE phase # "down"
  BY <1>1 DEF TInv
<1>2. CASE phase = "down"
  <2>1. Timely(rows) /\ warm = [rows EXCEPT !.mail = << >>]
    BY <1>2 DEF TInv
  <2>2. IsWarm(rows) /\ IsTimed(rows)
    BY <2>1 DEF Timely, Lives, Consistent
  <2>3. /\ warm.status = rows.status /\ warm.edge = rows.edge
        /\ warm.due = rows.due /\ warm.opened = rows.opened /\ warm.woken = rows.woken
        /\ warm.ticks = rows.ticks
    BY <2>1, <2>2 DEF IsWarm, Fields, IsTimed
  <2> QED
    BY <2>1, <2>3
<1> QED
  BY <1>1, <1>2

LEMMA TInvTypeOK == ASSUME TimeAssumption, TInv PROVE TypeOK
<1>1. /\ warm.status \in [Call -> Statuses] /\ warm.edge \in [Inner -> Edges]
  BY MemoryTimely DEF Timely, Lives, Consistent, IsWarm
<1>2. TimersOk
  <2>1. CASE phase = "down"
    BY <2>1 DEF TInv, TimersOk
  <2>2. CASE phase # "down"
    BY <2>2, Awake
  <2> QED
    BY <2>1, <2>2
<1> QED
  BY <1>1, <1>2 DEF TInv, TypeOK, TimersOk, Statuses, Edges, Keyed

LEMMA TInvEarly == ASSUME TimeAssumption, TInv PROVE NeverEarly
<1>1. PICK u \in {warm, rows} :
        Timely(u) /\ warm.opened = u.opened /\ warm.woken = u.woken
  BY MemoryTimely
<1> SUFFICES ASSUME NEW e \in u.woken PROVE e[2] >= u.opened[e[1]] + Span[e[1]]
  BY <1>1 DEF NeverEarly
<1>2. e[1] \in Sleep
  BY <1>1 DEF Timely, Lives, IsTimed
<1> QED
  BY <1>1, <1>2 DEF Timely, SleepOk

LEMMA TInvOccurrences == ASSUME TimeAssumption, TInv PROVE OccurrencesOnce
<1>1. PICK u \in {warm, rows} :
        Timely(u) /\ warm.opened = u.opened /\ warm.ticks = u.ticks
  BY MemoryTimely
<1> SUFFICES ASSUME NEW v \in Watch, NEW n \in DOMAIN u.ticks[v]
             PROVE  /\ u.ticks[v][n] > u.opened[v]
                    /\ (u.ticks[v][n] - u.opened[v]) % Span[v] = 0
                    /\ n > 1 => u.ticks[v][n] > u.ticks[v][n - 1]
  BY <1>1 DEF OccurrencesOnce
<1>2. v \in Keyed /\ Span[v] \in Nat /\ Span[v] > 0
  BY CallsOf
<1>3. u.opened[v] \in Nat
  BY <1>1, <1>2 DEF Timely, Lives, IsTimed
<1>4. OnGrid(u.ticks[v][n], u.opened[v], Span[v]) /\ (n > 1 => u.ticks[v][n - 1] < u.ticks[v][n])
  BY <1>1 DEF Timely, TicksOk
<1>5. u.ticks[v][n] > u.opened[v] /\ (u.ticks[v][n] - u.opened[v]) % Span[v] = 0
  BY <1>2, <1>3, <1>4, GridFacts
<1> QED
  BY <1>4, <1>5

LEMMA TInvSerialized == ASSUME TimeAssumption, TInv PROVE Serialized
<1> SUFFICES ASSUME NEW v \in Watch
             PROVE  Cardinality({i \in Children(v) : warm.edge[i] \in {"running", "cancelling"}}) <= 1
  BY DEF Serialized
<1> DEFINE D == {i \in Children(v) : warm.edge[i] \in {"running", "cancelling"}}
<1>1. \A i, j \in D : i = j
  BY MemoryTimely DEF Timely, Lives, WatchOk, Open
<1> HIDE DEF D
<1>2. CASE D = {}
  BY <1>2, FS_EmptySet DEF D
<1>3. CASE D # {}
  <2>1. PICK x : x \in D
    BY <1>3
  <2>2. D = {x}
    BY <1>1, <2>1
  <2>3. Cardinality(D) = 1
    BY <2>2, FS_Singleton
  <2> QED
    BY <2>3 DEF D
<1> QED
  BY <1>2, <1>3

LEMMA TInvDriven == ASSUME TimeAssumption, TInv PROVE WatchIsDriven
<1> SUFFICES ASSUME NEW v \in Watch, phase # "down", warm.status[v] = "running",
                    Event("delegate", v, Own) \notin ToSet(after)
             PROVE  Cardinality({d \in {"timer", "turn", "delivery", "staged"} :
                      CASE d = "timer"    -> (\E t \in timers : t.call = v)
                        [] d = "turn"     -> Work("timer", v) \in ToSet(warm.mail)
                        [] d = "delivery" -> Draining(warm, v)
                        [] d = "staged"   -> \E n \in DOMAIN warm.staged : warm.staged[n].call = v}) = 1
  BY DEF WatchIsDriven
<1> DEFINE D == {d \in {"timer", "turn", "delivery", "staged"} :
                  CASE d = "timer"    -> (\E t \in timers : t.call = v)
                    [] d = "turn"     -> Work("timer", v) \in ToSet(warm.mail)
                    [] d = "delivery" -> Draining(warm, v)
                    [] d = "staged"   -> \E n \in DOMAIN warm.staged : warm.staged[n].call = v}
<1>1. OneOf(Armed(v), Rings(v), Awaits(v), Draining(warm, v))
  <2>1. ~Begins(v) /\ MovedOnce(v)
    BY Awake, HasIsIn DEF Begins
  <2> QED
    BY <2>1 DEF MovedOnce
<1>2. "timer" \in D <=> Armed(v)
  BY DEF Armed
<1>3. "turn" \in D <=> Rings(v)
  BY HasIsIn DEF Rings, Alarm
<1>4. "delivery" \in D <=> Draining(warm, v)
  OBVIOUS
<1>5. "staged" \in D <=> Awaits(v)
  BY DEF Awaits, ToSet
<1>6. D \subseteq {"timer", "turn", "delivery", "staged"}
  OBVIOUS
<1> HIDE DEF D
<1>7. \E x : D = {x}
  <2>1. CASE Armed(v)
    <3>1. D = {"timer"}
      BY <1>1, <1>2, <1>3, <1>4, <1>5, <1>6, <2>1 DEF OneOf
    <3> QED
      BY <3>1
  <2>2. CASE Rings(v)
    <3>1. D = {"turn"}
      BY <1>1, <1>2, <1>3, <1>4, <1>5, <1>6, <2>2 DEF OneOf
    <3> QED
      BY <3>1
  <2>3. CASE Awaits(v)
    <3>1. D = {"staged"}
      BY <1>1, <1>2, <1>3, <1>4, <1>5, <1>6, <2>3 DEF OneOf
    <3> QED
      BY <3>1
  <2>4. CASE Draining(warm, v)
    <3>1. D = {"delivery"}
      BY <1>1, <1>2, <1>3, <1>4, <1>5, <1>6, <2>4 DEF OneOf
    <3> QED
      BY <3>1
  <2> QED
    BY <1>1, <2>1, <2>2, <2>3, <2>4 DEF OneOf
<1>8. Cardinality(D) = 1
  BY <1>7, FS_Singleton
<1> QED
  BY <1>8 DEF D

\* The state has its type, and every timer belongs to a sleep or a watch that is
\* there, one to each: a call that is dropped loses its timer in the same turn.
THEOREM TimeTypes == ASSUME TimeAssumption PROVE Spec => []TypeOK
<1>1. TInv => TypeOK
  BY TInvTypeOK
<1> QED
  BY <1>1, TInvAlways, PTL

\* No sleep ends before its span is over, through hops, failures and reloads.
THEOREM NoSleepEarly == ASSUME TimeAssumption PROVE Spec => []NeverEarly
<1>1. TInv => NeverEarly
  BY TInvEarly
<1> QED
  BY <1>1, TInvAlways, PTL

\* What a watch delivers lies on the grid of its schedule, in order, nothing twice.
THEOREM EachOccurrenceOnce == ASSUME TimeAssumption PROVE Spec => []OccurrencesOnce
<1>1. TInv => OccurrencesOnce
  BY TInvOccurrences
<1> QED
  BY <1>1, TInvAlways, PTL

\* The deliveries of a watch do not overlap.
THEOREM OneDelivery == ASSUME TimeAssumption PROVE Spec => []Serialized
<1>1. TInv => Serialized
  BY TInvSerialized
<1> QED
  BY <1>1, TInvAlways, PTL

\* A watch that runs has exactly one thing that will move it on: neither is a
\* schedule lost by a failure, nor does it run twice after a reload.
THEOREM DrivenByOne == ASSUME TimeAssumption PROVE Spec => []WatchIsDriven
<1>1. TInv => WatchIsDriven
  BY TInvDriven
<1> QED
  BY <1>1, TInvAlways, PTL
=============================================================================
