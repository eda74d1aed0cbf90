-------------------------- MODULE SubstrateProofs --------------------------
(* Theorems about Substrate, for every workload and every bound.           *)
EXTENDS Substrate, SequenceLemmas, FiniteSetTheorems

LEMMA ToSetEventTurns ==
  ASSUME NEW s \in Seq(Event)
  PROVE  /\ EventTurns(s) \in Seq(Turn)
         /\ ToSet(EventTurns(s)) = {EventTurn(e) : e \in ToSet(s)}
         /\ Len(EventTurns(s)) = Len(s)
         /\ \A i \in 1..Len(s) : EventTurns(s)[i] = EventTurn(s[i])
<1>1. \A i \in 1..Len(s) : s[i] \in Event /\ EventTurn(s[i]) \in Turn
  BY DEF Turn
<1>2. EventTurns(s) \in Seq(Turn) /\ DOMAIN EventTurns(s) = 1..Len(s)
  BY <1>1 DEF EventTurns
<1>3. Len(EventTurns(s)) = Len(s)
  BY <1>2 DEF EventTurns
<1> QED
  BY <1>2, <1>3 DEF EventTurns, ToSet

-----------------------------------------------------------------------------
(* Typing.                                                                 *)

LEMMA TurnTypes ==
  /\ \A e \in Event : EventTurn(e) \in Turn
  /\ \A c \in Command : CommandTurn(c) \in Turn
  /\ \A k \in Completion : CompletionTurn(k) \in Turn
  /\ \A r \in Run : FailTurn(r) \in Turn
  /\ LoadTurn \in Turn
  /\ \A t \in Turn : t.kind = "event" => t.id \in Event /\ t = EventTurn(t.id)
<1>1. \A e \in Event : EventTurn(e) \in Turn
  BY DEF Turn
<1>2. \A c \in Command : CommandTurn(c) \in Turn
  BY DEF Turn
<1>3. \A k \in Completion : CompletionTurn(k) \in Turn
  BY DEF Turn
<1>4. \A r \in Run : FailTurn(r) \in Turn
  BY DEF Turn
<1>5. LoadTurn \in Turn
  BY DEF Turn
<1>6. ASSUME NEW t \in Turn, t.kind = "event"
      PROVE  t.id \in Event /\ t = EventTurn(t.id)
  <2>1. /\ \A c \in Command : CommandTurn(c).kind = "command"
        /\ \A k \in Completion : CompletionTurn(k).kind = "completion"
        /\ \A r \in Run : FailTurn(r).kind = "fail"
        /\ LoadTurn.kind = "load"
    BY DEF CommandTurn, CompletionTurn, FailTurn, LoadTurn
  <2>2. PICK e \in Event : t = EventTurn(e)
    BY <1>6, <2>1 DEF Turn
  <2>3. t.id = e
    BY <2>2 DEF EventTurn
  <2> QED
    BY <2>2, <2>3
<1> QED
  BY <1>1, <1>2, <1>3, <1>4, <1>5, <1>6

BatchType == [position : Nat, consumed : Seq(Event), pending : SUBSET Event,
              journal : Seq(Event), afterCommits : SUBSET Event, settles : SUBSET Turn]

LEMMA NoBatchType == NoBatch \in BatchType
BY DEF NoBatch, BatchType

LEMMA ShiftedType ==
  ASSUME batch \in BatchType, NEW t \in Turn
  PROVE  Shifted(t) \in BatchType
<1>1. t.kind = "event" => Append(batch.consumed, t.id) \in Seq(Event)
  BY TurnTypes DEF BatchType
<1> QED
  BY <1>1 DEF Shifted, BatchType

LEMMA InitTypeOK == Init => TypeOK
<1> SUFFICES ASSUME Init PROVE TypeOK
  OBVIOUS
<1>1. history \in Seq(Turn) /\ journal \in Seq(Event) /\ mailbox \in Seq(Turn) /\ warm \in Seq(Turn)
  BY DEF Init
<1>2. batch \in BatchType
  BY NoBatchType DEF Init
<1>3. retries \in [Event -> 0..MaxCommitRetries] /\ faults \in 0..MaxFaults
      /\ crashes \in 0..MaxCrashes /\ limit \in Nat \ {0}
  BY BoundsAssumption DEF Init
<1> QED
  BY <1>1, <1>2, <1>3 DEF Init, TypeOK, PumpState, BatchType

LEMMA DropWarmType ==
  ASSUME TypeOK, NEW turns, NEW queue \in Seq(Turn), NEW next \in PumpState,
         DropWarm(turns, queue, next)
  PROVE  /\ mailbox' \in Seq(Turn) /\ loaded' \in BOOLEAN /\ warm' \in Seq(Turn)
         /\ batch' \in BatchType /\ doomed' \subseteq Event /\ pump' \in PumpState
         /\ promise' \in [Command -> {"none", "pending", "resolved", "rejected", "lost"}]
         /\ unhandled' \in BOOLEAN
         /\ submitted' \subseteq Completion /\ notified' \subseteq Event
<1>1. unhandled' \in BOOLEAN
  BY DEF DropWarm, Reject, TypeOK, Unhandled
<1>2. promise' \in [Command -> {"none", "pending", "resolved", "rejected", "lost"}]
  BY DEF DropWarm, Reject, TypeOK
<1> QED
  BY <1>1, <1>2, NoBatchType DEF DropWarm, TypeOK, PumpState

LEMMA RetryableFailureType ==
  ASSUME TypeOK, NEW turns, NEW consumed \in Seq(Event), RetryableFailure(turns, consumed)
  PROVE  /\ mailbox' \in Seq(Turn) /\ loaded' \in BOOLEAN /\ warm' \in Seq(Turn)
         /\ batch' \in BatchType /\ doomed' \subseteq Event /\ pump' \in PumpState
         /\ promise' \in [Command -> {"none", "pending", "resolved", "rejected", "lost"}]
         /\ unhandled' \in BOOLEAN
         /\ submitted' \subseteq Completion /\ notified' \subseteq Event
         /\ limit' \in Nat \ {0}
         /\ retries' \in [Event -> 0..MaxCommitRetries] /\ timers' \in Nat
<1>1. << >> \in Seq(Turn) /\ "loading" \in PumpState /\ "idle" \in PumpState
  BY DEF PumpState
<1>2. CASE consumed = << >>
  <2>1. DropWarm(turns, << >>, "loading") /\ limit' = MaxBatchTurns
        /\ retries' = retries /\ timers' = timers
    BY <1>2 DEF RetryableFailure, Reload
  <2> QED
    BY <2>1, <1>1, DropWarmType, BoundsAssumption DEF TypeOK
<1>3. CASE consumed # << >>
  <2>1. consumed[1] \in Event
    BY <1>3
  <2>2. DropWarm(turns, << >>, "idle") /\ limit' = limit
    BY <1>3 DEF RetryableFailure
  <2>3. retries' \in [Event -> 0..MaxCommitRetries] /\ timers' \in Nat
    <3>1. retries[consumed[1]] + 1 \in Nat /\ 0 \in 0..MaxCommitRetries
      BY <2>1, BoundsAssumption DEF TypeOK
    <3>2. CASE retries[consumed[1]] + 1 <= MaxCommitRetries
      <4>1. retries[consumed[1]] + 1 \in 0..MaxCommitRetries
        BY <3>1, <3>2, BoundsAssumption
      <4>2. retries' = [retries EXCEPT ![consumed[1]] = retries[consumed[1]] + 1]
            /\ timers' = timers + 1
        BY <1>3, <3>2 DEF RetryableFailure
      <4>3. retries \in [Event -> 0..MaxCommitRetries] /\ timers \in Nat
        BY DEF TypeOK
      <4>4. \A n \in 0..MaxCommitRetries :
              [retries EXCEPT ![consumed[1]] = n] \in [Event -> 0..MaxCommitRetries]
        BY <4>3
      <4> QED
        BY <4>1, <4>2, <4>3, <4>4
    <3>3. CASE ~(retries[consumed[1]] + 1 <= MaxCommitRetries)
      <4>1. retries' = [retries EXCEPT ![consumed[1]] = 0] /\ timers' = timers
        BY <1>3, <3>3 DEF RetryableFailure
      <4>2. retries \in [Event -> 0..MaxCommitRetries] /\ timers \in Nat
        BY DEF TypeOK
      <4> QED
        BY <3>1, <4>1, <4>2
    <3> QED
      BY <3>2, <3>3
  <2> QED
    BY <2>2, <2>3, <1>1, DropWarmType DEF TypeOK
<1> QED
  BY <1>2, <1>3

LEMMA FaultType == ASSUME TypeOK, Fault PROVE faults' \in 0..MaxFaults
BY BoundsAssumption DEF TypeOK, Fault

LEMMA CommitBatchType ==
  ASSUME TypeOK, CommitBatch, batch.pending \subseteq ToSet(batch.journal)
  PROVE  /\ outbox' \subseteq Event /\ ordinal' \in [Event -> Nat]
         /\ history' \in Seq(Turn) /\ journal' \in Seq(Event) /\ dead' \subseteq Event
<1>1. \A e \in batch.pending : Place(e) \in DOMAIN batch.journal
  BY DEF Place, ToSet
<1>2. batch.journal \in Seq(Event) /\ batch.pending \subseteq Event
  BY DEF TypeOK
<1>3. \A e \in batch.pending : Len(journal) + Place(e) \in Nat
  BY SMTT(30), <1>1, <1>2 DEF TypeOK
<1>4. journal' \in Seq(Event)
  BY <1>2 DEF CommitBatch, TypeOK
<1> QED
  BY <1>2, <1>3, <1>4 DEF CommitBatch, TypeOK

-----------------------------------------------------------------------------
(* What sets of turns send and handle.                                     *)

LEMMA SentByCup ==
  ASSUME NEW A, NEW B
  PROVE  SentBy(A \cup B) = SentBy(A) \cup SentBy(B)
BY DEF SentBy

LEMMA SentBySingle == ASSUME NEW t PROVE SentBy({t}) = ToSet(Sends[t])
BY DEF SentBy

LEMMA HandledByCup ==
  ASSUME NEW A, NEW B
  PROVE  HandledBy(A \cup B) = HandledBy(A) \cup HandledBy(B)
BY DEF HandledBy

LEMMA HandledByMono ==
  ASSUME NEW A, NEW B, A \subseteq B
  PROVE  HandledBy(A) \subseteq HandledBy(B)
BY DEF HandledBy

LEMMA HandledByEvents ==
  ASSUME NEW E \in SUBSET Event
  PROVE  HandledBy({EventTurn(e) : e \in E}) = E
BY DEF HandledBy, EventTurn

LEMMA HandledBySingle ==
  ASSUME NEW t \in Turn
  PROVE  HandledBy({t}) = IF t.kind = "event" THEN {t.id} ELSE {}
<1>1. \A e \in Event : EventTurn(e).kind = "event" /\ EventTurn(e).id = e
  BY DEF EventTurn
<1> QED
  BY <1>1, TurnTypes DEF HandledBy

LEMMA TurnKinds ==
  /\ \A e \in Event : EventTurn(e).kind = "event"
  /\ \A c \in Command : CommandTurn(c).kind = "command"
  /\ \A k \in Completion : CompletionTurn(k).kind = "completion"
  /\ \A r \in Run : FailTurn(r).kind = "fail"
  /\ LoadTurn.kind = "load"
  /\ \A e \in Event : EventTurn(e).id = e
  /\ \A c \in Command : CommandTurn(c).id = c
  /\ \A k \in Completion : CompletionTurn(k).id = k
BY DEF EventTurn, CommandTurn, CompletionTurn, FailTurn, LoadTurn

\* A turn that has not run yet sends events nobody sent before.
LEMMA SendsFresh ==
  ASSUME NEW t \in Turn, NEW T \in SUBSET Turn, t \notin T
  PROVE  /\ Sends[t] \in Seq(Event) /\ IsInjective(Sends[t])
         /\ ToSet(Sends[t]) \cap SentBy(T) = {}
<1>1. Sends[t] \in Seq(Event)
  BY SendsAssumption
<1>2. IsInjective(Sends[t])
  BY FreshEvents DEF IsInjective
<1>3. ASSUME NEW e \in ToSet(Sends[t]), e \in SentBy(T) PROVE FALSE
  <2>1. PICK u \in T : e \in ToSet(Sends[u])
    BY <1>3 DEF SentBy
  <2>2. PICK i \in DOMAIN Sends[t] : e = Sends[t][i]
    BY <1>3 DEF ToSet
  <2>3. PICK j \in DOMAIN Sends[u] : e = Sends[u][j]
    BY <2>1 DEF ToSet
  <2>4. t = u
    BY <2>2, <2>3, FreshEvents
  <2> QED
    BY <2>4
<1> QED
  BY <1>1, <1>2, <1>3

LEMMA ToSetTurns == ASSUME TypeOK
  PROVE  ToSet(history) \subseteq Turn /\ ToSet(warm) \subseteq Turn /\ ToSet(mailbox) \subseteq Turn
BY DEF TypeOK, ToSet

-----------------------------------------------------------------------------
(* Initially.                                                              *)

LEMMA InitBusInv == Init => BusInv
<1> SUFFICES ASSUME Init PROVE BusInv
  OBVIOUS
<1>1. TypeOK
  BY InitTypeOK
<1>2. /\ ToSet(history) = {} /\ ToSet(journal) = {} /\ ToSet(mailbox) = {}
      /\ IsInjective(history) /\ IsInjective(journal) /\ mailbox = << >>
  BY ToSetEmpty DEF Init
<1>3. SentBy({}) = {} /\ HandledBy({}) = {}
  BY DEF SentBy, HandledBy
<1>4. RowsConsistent
  BY <1>2, <1>3 DEF Init, RowsConsistent, AppliedOnce, NothingLost, JournalIsTrace,
                    OnlyPoisonDropped, Handled
<1>5. LoopShape /\ FreshTurns /\ WarmAhead
  BY <1>2 DEF Init, LoopShape, FreshTurns, OnceEach, Issued, WarmAhead, WarmValid, NoBatch
<1>6. BatchAccount /\ MailAccount /\ SettleAccount
  BY <1>2, <1>3, ToSetEmpty DEF Init, BatchAccount, MailAccount, MailEvents, SettleAccount,
                    ResolvedIsDurable, NotifiedIsDurable, Handled, WarmValid, NoBatch
<1> QED
  BY <1>1, <1>4, <1>5, <1>6 DEF BusInv

-----------------------------------------------------------------------------
(* Failures: the warm state is dropped.                                    *)

\* Forgetting all that is in memory keeps the invariant whatever the rows
\* became, as long as they are consistent and hold nothing never issued.
LEMMA ForgetKeeps ==
  ASSUME BusInv, TypeOK',
         \A t \in ToSet(mailbox') : t.kind \notin OnceKind,
         loaded' = FALSE, batch' = NoBatch, doomed' = {},
         pump' \in {"loading", "idle", "exited"}, UNCHANGED <<submitted, notified>>,
         \A c \in Command : promise'[c] \in {"none", "resolved"} => promise[c] = promise'[c],
         RowsConsistent', Issued(ToSet(history')),
         ToSet(history) \subseteq ToSet(history')
  PROVE  BusInv'
<1>1. LoopShape'
  BY DEF LoopShape, NoBatch
<1>2. FreshTurns'
  <2>1. \A c \in Command : CommandTurn(c).kind \in OnceKind
    BY TurnKinds DEF OnceKind
  <2>2. \A k \in Completion : CompletionTurn(k).kind \in OnceKind
    BY TurnKinds DEF OnceKind
  <2>3. Issued(ToSet(mailbox) \cup ToSet(history))'
    BY <2>1, <2>2 DEF Issued
  <2>4. \A j \in DOMAIN mailbox' : mailbox'[j] \in ToSet(mailbox')
    BY DEF ToSet
  <2> QED
    BY <2>3, <2>4 DEF FreshTurns, OnceEach, WarmValid
<1>3. WarmAhead'
  BY DEF WarmAhead, WarmValid
<1>4. BatchAccount'
  BY ToSetEmpty DEF BatchAccount, WarmValid, NoBatch
<1>5. MailAccount'
  <2>1. \A e \in Event : EventTurn(e).kind \in OnceKind
    BY TurnKinds DEF OnceKind
  <2>2. HandledBy(ToSet(mailbox')) = {}
    BY <2>1 DEF HandledBy
  <2> QED
    BY <2>2 DEF MailAccount, MailEvents
<1>6. SettleAccount'
  <2>1. Handled \subseteq Handled'
    BY DEF Handled, HandledBy
  <2> QED
    BY <2>1 DEF SettleAccount, ResolvedIsDurable, NotifiedIsDurable, WarmValid, BusInv
<1> QED
  BY <1>1, <1>2, <1>3, <1>4, <1>5, <1>6 DEF BusInv

LEMMA DropKeeps ==
  ASSUME BusInv, TypeOK', NEW turns, NEW queue \in Seq(Turn),
         \A t \in ToSet(queue) : t.kind \notin OnceKind,
         NEW next \in {"loading", "idle"}, DropWarm(turns, queue, next),
         RowsConsistent', Issued(ToSet(history')),
         ToSet(history) \subseteq ToSet(history')
  PROVE  BusInv'
<1>1. /\ mailbox' = queue /\ loaded' = FALSE /\ batch' = NoBatch /\ doomed' = {}
      /\ pump' \in {"loading", "idle", "exited"} /\ UNCHANGED <<submitted, notified>>
  BY DEF DropWarm
<1>2. \A c \in Command : promise'[c] \in {"none", "resolved"} => promise[c] = promise'[c]
  BY DEF DropWarm, Reject, BusInv, TypeOK
<1> QED
  BY <1>1, <1>2, ForgetKeeps

LEMMA RowsUnchanged ==
  ASSUME BusInv, UNCHANGED durable
  PROVE  /\ RowsConsistent' /\ Issued(ToSet(history'))
         /\ ToSet(history) \subseteq ToSet(history')
<1>1. Issued(ToSet(history))
  BY DEF BusInv, FreshTurns, Issued
<1> QED
  BY <1>1 DEF BusInv, durable, RowsConsistent, AppliedOnce, NothingLost, JournalIsTrace,
              OnlyPoisonDropped, Handled

LEMMA RetryableKeeps ==
  ASSUME BusInv, TypeOK', NEW turns, NEW consumed, RetryableFailure(turns, consumed),
         RowsConsistent', Issued(ToSet(history')), ToSet(history) \subseteq ToSet(history')
  PROVE  BusInv'
<1>1. << >> \in Seq(Turn) /\ \A t \in ToSet(<< >>) : t.kind \notin OnceKind
  BY ToSetEmpty
<1>2. CASE DropWarm(turns, << >>, "loading")
  BY <1>1, <1>2, DropKeeps
<1>3. CASE DropWarm(turns, << >>, "idle")
  BY <1>1, <1>3, DropKeeps
<1> QED
  BY <1>2, <1>3 DEF RetryableFailure, Reload

LEMMA MidBatchFailureKeeps == ASSUME BusInv, MidBatchFailure PROVE BusInv'
<1>1. << >> \in Seq(Turn) /\ \A t \in ToSet(<< >>) : t.kind \notin OnceKind
  BY ToSetEmpty
<1>2. DropWarm({}, << >>, "loading") /\ limit' = batch.position
      /\ retries' = retries /\ timers' = timers /\ UNCHANGED durable /\ crashes' = crashes
  BY DEF MidBatchFailure, Reload
<1>3. faults' \in 0..MaxFaults
  BY FaultType DEF MidBatchFailure, BusInv, TypeOK
<1>4. limit' \in Nat \ {0}
  BY <1>2 DEF MidBatchFailure, BusInv, TypeOK
<1>5. TypeOK'
  BY <1>1, <1>2, <1>3, <1>4, DropWarmType DEF BusInv, TypeOK, PumpState, BatchType, durable
<1> QED
  BY <1>1, <1>2, <1>5, RowsUnchanged, DropKeeps

LEMMA TransientReactFailureKeeps == ASSUME BusInv, TransientReactFailure PROVE BusInv'
<1> DEFINE consumed == Shifted(Head(mailbox)).consumed
<1>1. Head(mailbox) \in Turn
  BY ToSetHeadTail DEF TransientReactFailure, Ready, BusInv, TypeOK
<1>2. consumed \in Seq(Event)
  BY <1>1, ShiftedType DEF BusInv, TypeOK, BatchType
<1>3. RetryableFailure({}, consumed) /\ UNCHANGED durable /\ crashes' = crashes
  BY DEF TransientReactFailure
<1>4. faults' \in 0..MaxFaults
  BY FaultType DEF TransientReactFailure, BusInv
<1>5. TypeOK'
  BY <1>2, <1>3, <1>4, RetryableFailureType DEF BusInv, TypeOK, BatchType, durable
<1> QED
  BY <1>3, <1>5, RowsUnchanged, RetryableKeeps

-----------------------------------------------------------------------------
(* The mailbox.                                                            *)

LEMMA OnceConcat ==
  ASSUME NEW s \in Seq(Turn), NEW u \in Seq(Turn), OnceEach(s), OnceEach(u),
         \A t \in ToSet(s) \cap ToSet(u) : t.kind \notin OnceKind
  PROVE  OnceEach(s \o u)
<1>1. DOMAIN (s \o u) = 1..(Len(s) + Len(u)) /\ DOMAIN s = 1..Len(s) /\ DOMAIN u = 1..Len(u)
  OBVIOUS
<1>2. \A i \in 1..Len(s) : (s \o u)[i] = s[i] /\ s[i] \in ToSet(s)
  BY <1>1 DEF ToSet
<1>3. \A i \in 1..(Len(s) + Len(u)) : i \notin 1..Len(s) =>
        i - Len(s) \in 1..Len(u) /\ (s \o u)[i] = u[i - Len(s)]
  OBVIOUS
<1>4. \A i \in 1..Len(u) : u[i] \in ToSet(u)
  BY <1>1 DEF ToSet
<1> SUFFICES ASSUME NEW i \in DOMAIN (s \o u), NEW j \in DOMAIN (s \o u),
                    (s \o u)[i] = (s \o u)[j], (s \o u)[i].kind \in OnceKind
             PROVE  i = j
  BY DEF OnceEach
<1>5. CASE i \in 1..Len(s) /\ j \in 1..Len(s)
  BY <1>1, <1>2, <1>5 DEF OnceEach
<1>6. CASE i \notin 1..Len(s) /\ j \notin 1..Len(s)
  <2>1. i - Len(s) = j - Len(s)
    BY <1>1, <1>3, <1>6 DEF OnceEach
  <2> QED
    BY <2>1, <1>1
<1>7. CASE i \in 1..Len(s) /\ j \notin 1..Len(s)
  BY <1>1, <1>2, <1>3, <1>4, <1>7
<1>8. CASE i \notin 1..Len(s) /\ j \in 1..Len(s)
  BY <1>1, <1>2, <1>3, <1>4, <1>8
<1> QED
  BY <1>5, <1>6, <1>7, <1>8

LEMMA OnceAppend ==
  ASSUME NEW s \in Seq(Turn), NEW t \in Turn, OnceEach(s),
         t.kind \in OnceKind => t \notin ToSet(s)
  PROVE  OnceEach(Append(s, t))
<1>1. Append(s, t) = s \o <<t>>
  OBVIOUS
<1>2. OnceEach(<<t>>) /\ ToSet(<<t>>) = {t} /\ <<t>> \in Seq(Turn)
  BY DEF OnceEach, ToSet
<1> QED
  BY <1>1, <1>2, OnceConcat

\* Taking the next turn from the mailbox.
LEMMA OnceTail ==
  ASSUME NEW s \in Seq(Turn), OnceEach(s), s # << >>
  PROVE  /\ OnceEach(Tail(s))
         /\ Head(s).kind \in OnceKind => Head(s) \notin ToSet(Tail(s))
<1>1. Len(s) > 0 /\ DOMAIN s = 1..Len(s) /\ Head(s) = s[1]
  OBVIOUS
<1>2. Tail(s) \in Seq(Turn) /\ DOMAIN Tail(s) = 1..(Len(s) - 1)
  OBVIOUS
<1>3. \A i \in 1..(Len(s) - 1) : Tail(s)[i] = s[i + 1]
  OBVIOUS
<1>4. OnceEach(Tail(s))
  BY <1>1, <1>2, <1>3 DEF OnceEach
<1>5. ASSUME NEW i \in DOMAIN Tail(s), Tail(s)[i] = Head(s), Head(s).kind \in OnceKind
      PROVE  FALSE
  BY <1>1, <1>2, <1>3, <1>5 DEF OnceEach
<1> QED
  BY <1>4, <1>5 DEF ToSet

LEMMA EventTurnsOnce ==
  ASSUME NEW s \in Seq(Event), IsInjective(s)
  PROVE  OnceEach(EventTurns(s))
<1>1. DOMAIN EventTurns(s) = 1..Len(s) /\ DOMAIN s = 1..Len(s)
  BY DEF EventTurns
<1>2. \A i \in 1..Len(s) : EventTurns(s)[i].id = s[i]
  BY TurnKinds, ToSetEventTurns
<1> QED
  BY <1>1, <1>2 DEF OnceEach, IsInjective

\* What the head of the mailbox is, and what remains behind it.
LEMMA NextTurn ==
  ASSUME BusInv, mailbox # << >>
  PROVE  /\ Head(mailbox) \in Turn /\ Tail(mailbox) \in Seq(Turn)
         /\ ToSet(mailbox) = {Head(mailbox)} \cup ToSet(Tail(mailbox))
         /\ OnceEach(Tail(mailbox))
         /\ Head(mailbox).kind \in OnceKind => Head(mailbox) \notin ToSet(Tail(mailbox))
         /\ HandledBy(ToSet(Tail(mailbox))) =
              MailEvents \ (IF Head(mailbox).kind = "event" THEN {Head(mailbox).id} ELSE {})
         /\ Head(mailbox).kind = "event" =>
              Head(mailbox).id \in MailEvents /\ Head(mailbox) = EventTurn(Head(mailbox).id)
<1> DEFINE t == Head(mailbox)
           rest == ToSet(Tail(mailbox))
<1>1. mailbox \in Seq(Turn) /\ OnceEach(mailbox)
  BY DEF BusInv, TypeOK, FreshTurns
<1>2. t \in Turn /\ Tail(mailbox) \in Seq(Turn) /\ ToSet(mailbox) = {t} \cup rest
  BY <1>1, ToSetHeadTail
<1>3. OnceEach(Tail(mailbox)) /\ (t.kind \in OnceKind => t \notin rest)
  BY <1>1, OnceTail
<1>4. MailEvents = HandledBy({t}) \cup HandledBy(rest)
  BY <1>2, HandledByCup DEF MailEvents
<1>5. HandledBy({t}) = IF t.kind = "event" THEN {t.id} ELSE {}
  BY <1>2, HandledBySingle
<1>6. t.kind = "event" => t = EventTurn(t.id) /\ t.id \in Event
  BY <1>2, TurnTypes
<1>7. t.kind = "event" => t.id \notin HandledBy(rest)
  BY <1>3, <1>6 DEF HandledBy, OnceKind
<1>8. HandledBy(rest) = MailEvents \ (IF t.kind = "event" THEN {t.id} ELSE {})
  BY <1>4, <1>5, <1>7
<1> QED
  BY <1>2, <1>3, <1>4, <1>5, <1>6, <1>8

-----------------------------------------------------------------------------
(* A deterministic throw.                                                  *)

LEMMA ReactFailureKeeps == ASSUME BusInv, ReactFailure PROVE BusInv'
<1> DEFINE t == Head(mailbox)
<1>1. mailbox # << >> /\ t \in Poison /\ pump = "reacting" /\ batch.position = 0
      /\ UNCHANGED durable /\ faults' = faults /\ crashes' = crashes
  BY DEF ReactFailure, Ready, budgets
<1>2. CASE t.kind # "event"
  <2>1. << >> \in Seq(Turn) /\ (\A u \in ToSet(<< >>) : u.kind \notin OnceKind)
        /\ "loading" \in PumpState
    BY ToSetEmpty DEF PumpState
  <2>2. DropWarm({}, << >>, "loading") /\ limit' = MaxBatchTurns
        /\ retries' = retries /\ timers' = timers
    BY <1>2 DEF ReactFailure, Reload
  <2>3. TypeOK'
    BY <1>1, <2>1, <2>2, DropWarmType, BoundsAssumption DEF BusInv, TypeOK, BatchType, durable
  <2> QED
    BY <1>1, <2>1, <2>2, <2>3, RowsUnchanged, DropKeeps
<1>3. CASE t.kind = "event"
  <2>1. /\ pump' = "deadEvent" /\ doomed' = {t.id} /\ mailbox' = Tail(mailbox)
        /\ warm' = Append(warm, t) /\ loaded' = loaded /\ batch' = batch
        /\ promise' = promise /\ submitted' = submitted
        /\ UNCHANGED <<limit, retries, timers, callers>>
    BY <1>3 DEF ReactFailure, callers
  <2>2. /\ t \in Turn /\ Tail(mailbox) \in Seq(Turn) /\ OnceEach(Tail(mailbox))
        /\ ToSet(mailbox) = {t} \cup ToSet(Tail(mailbox))
        /\ HandledBy(ToSet(Tail(mailbox))) = MailEvents \ {t.id}
        /\ t.id \in MailEvents /\ t = EventTurn(t.id)
    BY <1>1, <1>3, NextTurn
  <2>3. loaded /\ batch = NoBatch /\ MailEvents = outbox
    <3>1. loaded /\ batch = NoBatch
      BY <1>1 DEF BusInv, LoopShape
    <3>2. batch.pending = {} /\ ToSet(batch.consumed) = {}
      BY <3>1, ToSetEmpty DEF NoBatch
    <3> QED
      BY <1>1, <3>1, <3>2 DEF BusInv, MailAccount
  <2>4. RowsConsistent' /\ Issued(ToSet(history'))
    BY <1>1, RowsUnchanged
  <2>5. TypeOK'
    <3>1. warm' \in Seq(Turn) /\ mailbox' \in Seq(Turn) /\ t.id \in Event
      BY <2>1, <2>2, <2>3 DEF BusInv, TypeOK
    <3> QED
      BY <1>1, <2>1, <3>1 DEF BusInv, TypeOK, PumpState, durable, callers
  <2>6. LoopShape'
    BY <1>1, <2>1, <2>2, <2>3 DEF LoopShape, NoBatch, durable
  <2>7. FreshTurns'
    <3>1. ~WarmValid'
      BY <2>1 DEF WarmValid
    <3>2. Issued(ToSet(mailbox) \cup ToSet(history))'
      BY <1>1, <2>1, <2>2 DEF BusInv, FreshTurns, Issued, durable
    <3> QED
      BY <1>1, <2>1, <2>2, <3>1, <3>2 DEF BusInv, FreshTurns, durable
  <2>8. WarmAhead' /\ BatchAccount'
    BY <2>1, <2>3, ToSetEmpty DEF WarmAhead, BatchAccount, WarmValid, NoBatch
  <2>9. MailAccount'
    BY <1>1, <2>1, <2>2, <2>3 DEF MailAccount, MailEvents, durable
  <2>10. SettleAccount'
    BY <1>1, <2>1 DEF BusInv, SettleAccount, ResolvedIsDurable, NotifiedIsDurable, Handled,
                      WarmValid, durable, callers
  <2> QED
    BY <2>4, <2>5, <2>6, <2>7, <2>8, <2>9, <2>10 DEF BusInv
<1> QED
  BY <1>2, <1>3

LEMMA ConsumeDeadEventKeeps == ASSUME BusInv, ConsumeDeadEvent PROVE BusInv'
<1>1. PICK e \in outbox : doomed = {e} /\ EventTurn(e) \in Poison
  BY DEF ConsumeDeadEvent, BusInv, LoopShape
<1> DEFINE queue == <<FailTurn(RunOf[e])>>
<1>2. DropWarm({}, queue, "loading") /\ limit' = MaxBatchTurns
      /\ UNCHANGED <<ordinal, history, journal, timers, crashes>>
  BY <1>1 DEF ConsumeDeadEvent
<1>3. e \in Event /\ queue \in Seq(Turn) /\ ToSet(queue) = {FailTurn(RunOf[e])}
      /\ \A t \in ToSet(queue) : t.kind \notin OnceKind
  <2>1. e \in Event
    BY <1>1 DEF BusInv, TypeOK
  <2>2. FailTurn(RunOf[e]) \in Turn /\ FailTurn(RunOf[e]).kind = "fail"
    BY <2>1, RunAssumption, TurnTypes, TurnKinds
  <2> QED
    BY <2>1, <2>2 DEF ToSet, OnceKind
<1>4. Issued(ToSet(history')) /\ ToSet(history) \subseteq ToSet(history')
  BY <1>2 DEF BusInv, FreshTurns, Issued
<1>5. CASE outbox' = outbox \ doomed /\ dead' = dead \cup doomed
           /\ retries' = [f \in Event |-> IF f \in doomed THEN 0 ELSE retries[f]]
           /\ faults' = faults
  <2>1. RowsConsistent'
    <3>1. NothingLost'
      BY <1>1, <1>2, <1>5 DEF BusInv, RowsConsistent, NothingLost, Handled
    <3>2. OnlyPoisonDropped'
      BY <1>1, <1>5 DEF BusInv, RowsConsistent, OnlyPoisonDropped
    <3> QED
      BY <1>2, <3>1, <3>2 DEF BusInv, RowsConsistent, AppliedOnce, JournalIsTrace
  <2>2. retries' \in [Event -> 0..MaxCommitRetries]
    BY <1>5, BoundsAssumption DEF BusInv, TypeOK
  <2>3. TypeOK'
    BY <1>1, <1>2, <1>3, <1>5, <2>2, DropWarmType, BoundsAssumption
       DEF BusInv, TypeOK, BatchType, PumpState
  <2> QED
    BY <1>2, <1>3, <1>4, <2>1, <2>3, DropKeeps
<1>6. CASE Fault /\ UNCHANGED <<outbox, dead, retries>>
  <2>1. RowsConsistent'
    BY <1>2, <1>6, RowsUnchanged DEF durable
  <2>2. faults' \in 0..MaxFaults
    BY <1>6, FaultType DEF BusInv
  <2>3. TypeOK'
    BY <1>1, <1>2, <1>3, <1>6, <2>2, DropWarmType, BoundsAssumption
       DEF BusInv, TypeOK, BatchType, PumpState
  <2> QED
    BY <1>2, <1>3, <1>4, <2>1, <2>3, DropKeeps
<1> QED
  BY <1>5, <1>6 DEF ConsumeDeadEvent

-----------------------------------------------------------------------------
(* The commit.                                                             *)

\* A commit moves the rows to what the batch accumulated, consistently.
LEMMA CommitRows ==
  ASSUME BusInv, pump = "committing", CommitBatch
  PROVE  /\ RowsConsistent' /\ Issued(ToSet(history'))
         /\ ToSet(history) \subseteq ToSet(history')
         /\ outbox' = (outbox \ ToSet(batch.consumed)) \cup batch.pending
         /\ history' = warm
<1> DEFINE C == ToSet(batch.consumed)
           J == ToSet(batch.journal)
<1>1. WarmValid
  BY DEF BusInv, LoopShape, WarmValid
<1>2. /\ history' = warm /\ journal' = journal \o batch.journal /\ dead' = dead
      /\ outbox' = (outbox \ C) \cup batch.pending
  BY DEF CommitBatch
<1>3. /\ batch.pending \subseteq J /\ C \subseteq outbox /\ IsInjective(batch.journal)
      /\ J \cap ToSet(journal) = {}
      /\ SentBy(ToSet(warm)) = SentBy(ToSet(history)) \cup J
      /\ HandledBy(ToSet(warm)) = Handled \cup C \cup (J \ batch.pending)
  BY <1>1 DEF BusInv, BatchAccount
<1>4. /\ SentBy(ToSet(history)) = outbox \cup Handled \cup dead
      /\ outbox \cap Handled = {} /\ outbox \cap dead = {} /\ Handled \cap dead = {}
      /\ ToSet(journal) = SentBy(ToSet(history)) /\ IsInjective(journal)
  BY DEF BusInv, RowsConsistent, NothingLost, JournalIsTrace
<1>5. IsInjective(warm) /\ ToSet(warm) \cap Poison = {} /\ ToSet(history) \subseteq ToSet(warm)
  BY <1>1 DEF BusInv, WarmAhead
<1>6. JournalIsTrace'
  <2>1. journal \in Seq(Event) /\ batch.journal \in Seq(Event)
    BY DEF BusInv, TypeOK
  <2>2. ToSet(journal') = ToSet(journal) \cup J
    BY <1>2, <2>1, ToSetConcat
  <2>3. IsInjective(journal')
    BY <1>2, <1>3, <1>4, <2>1, InjectiveConcat
  <2> QED
    BY <1>2, <1>3, <1>4, <2>2, <2>3 DEF JournalIsTrace
<1>7. NothingLost'
  <2>1. Handled' = Handled \cup C \cup (J \ batch.pending)
    BY <1>2, <1>3 DEF Handled
  <2>2. outbox \cap J = {} /\ Handled \cap J = {} /\ dead \cap J = {}
    BY <1>3, <1>4
  <2>3. SentBy(ToSet(history'))= outbox' \cup Handled' \cup dead'
    BY <1>2, <1>3, <1>4, <2>1
  <2>4. outbox' \cap Handled' = {}
    BY <1>2, <1>3, <1>4, <2>1, <2>2
  <2>5. outbox' \cap dead' = {} /\ Handled' \cap dead' = {}
    BY <1>2, <1>3, <1>4, <2>1, <2>2
  <2> QED
    BY <2>3, <2>4, <2>5 DEF NothingLost
<1>8. RowsConsistent'
  BY <1>2, <1>5, <1>6, <1>7 DEF BusInv, RowsConsistent, AppliedOnce, OnlyPoisonDropped
<1>9. Issued(ToSet(history'))
  BY <1>1, <1>2 DEF BusInv, FreshTurns
<1> QED
  BY <1>2, <1>5, <1>8, <1>9

LEMMA CommitFailsKeeps == ASSUME BusInv, CommitFails PROVE BusInv'
<1>1. pump = "committing" /\ RetryableFailure({}, batch.consumed) /\ crashes' = crashes
  BY DEF CommitFails
<1>2. batch.consumed \in Seq(Event)
  BY DEF BusInv, TypeOK
<1>3. faults' \in 0..MaxFaults
  BY FaultType DEF CommitFails, BusInv
<1>4. /\ outbox' \subseteq Event /\ ordinal' \in [Event -> Nat]
      /\ history' \in Seq(Turn) /\ journal' \in Seq(Event) /\ dead' \subseteq Event
  <2>1. CASE CommitBatch
    BY <2>1, CommitBatchType DEF BusInv, BatchAccount
  <2>2. CASE UNCHANGED durable
    BY <2>2 DEF durable, BusInv, TypeOK
  <2> QED
    BY <2>1, <2>2 DEF CommitFails
<1>5. TypeOK'
  BY <1>1, <1>2, <1>3, <1>4, RetryableFailureType DEF BusInv, TypeOK, BatchType
<1>6. /\ RowsConsistent' /\ Issued(ToSet(history'))
      /\ ToSet(history) \subseteq ToSet(history')
  BY <1>1, CommitRows, RowsUnchanged DEF CommitFails
<1> QED
  BY <1>1, <1>5, <1>6, RetryableKeeps

LEMMA CommitSucceedsKeeps == ASSUME BusInv, CommitSucceeds PROVE BusInv'
<1>1. /\ pump = "committing" /\ pump' = "committed" /\ CommitBatch
      /\ retries' = [e \in Event |-> IF e \in ToSet(batch.consumed) THEN 0 ELSE retries[e]]
      /\ mailbox' = mailbox /\ limit' = limit /\ loaded' = loaded /\ warm' = warm
      /\ batch' = batch /\ doomed' = doomed /\ timers' = timers
      /\ promise' = promise /\ submitted' = submitted
      /\ UNCHANGED <<callers, budgets>>
  BY DEF CommitSucceeds, callers
<1>2. /\ RowsConsistent' /\ Issued(ToSet(history'))
      /\ ToSet(history) \subseteq ToSet(history') /\ history' = warm
      /\ outbox' = (outbox \ ToSet(batch.consumed)) \cup batch.pending
  BY <1>1, CommitRows
<1>3. WarmValid /\ WarmValid' /\ loaded
  BY <1>1 DEF BusInv, LoopShape, WarmValid
<1>4. TypeOK'
  <2>1. retries' \in [Event -> 0..MaxCommitRetries]
    BY <1>1, BoundsAssumption DEF BusInv, TypeOK
  <2>2. /\ outbox' \subseteq Event /\ ordinal' \in [Event -> Nat]
        /\ history' \in Seq(Turn) /\ journal' \in Seq(Event) /\ dead' \subseteq Event
    BY <1>1, CommitBatchType DEF BusInv, BatchAccount
  <2> QED
    BY <1>1, <2>1, <2>2 DEF BusInv, TypeOK, PumpState, callers, budgets
<1>5. LoopShape'
  BY <1>1 DEF BusInv, LoopShape
<1>6. FreshTurns'
  <2>1. \A t \in ToSet(mailbox) : t.kind \in OnceKind => t \notin ToSet(warm)
    BY <1>3 DEF BusInv, FreshTurns
  <2>2. Issued(ToSet(mailbox) \cup ToSet(warm))
    BY <1>3 DEF BusInv, FreshTurns, Issued
  <2>3. Issued(ToSet(mailbox) \cup ToSet(history))' /\ Issued(ToSet(warm))'
    BY <1>1, <1>2, <2>2 DEF Issued
  <2> QED
    BY <1>1, <1>2, <2>1, <2>3 DEF BusInv, FreshTurns
<1>7. WarmAhead'
  BY <1>1, <1>2, <1>3 DEF BusInv, WarmAhead
<1>8. BatchAccount'
  BY <1>1 DEF BusInv, BatchAccount
<1>9. MailAccount'
  BY <1>1, <1>2, <1>3 DEF BusInv, MailAccount, MailEvents
<1>10. SettleAccount'
  <2>1. Handled \subseteq Handled'
    BY <1>2, HandledByMono DEF Handled
  <2> QED
    BY <1>1, <1>2, <1>3, <2>1 DEF BusInv, SettleAccount, ResolvedIsDurable, NotifiedIsDurable,
                                  callers
<1> QED
  BY <1>2, <1>4, <1>5, <1>6, <1>7, <1>8, <1>9, <1>10 DEF BusInv

LEMMA AfterCommitKeeps == ASSUME BusInv, AfterCommit PROVE BusInv'
<1>1. /\ pump = "committed" /\ pump' = "reacting" /\ batch' = NoBatch
      /\ promise' = [c \in Command |-> IF CommandTurn(c) \in batch.settles
                                         THEN "resolved" ELSE promise[c]]
      /\ limit' = MaxBatchTurns
      /\ UNCHANGED <<durable, mailbox, loaded, warm, doomed, retries, timers,
                     submitted, unhandled, crashes>>
  BY DEF AfterCommit
<1>2. WarmValid /\ WarmValid' /\ loaded /\ warm = history
  BY <1>1 DEF BusInv, LoopShape, WarmValid, WarmAhead
<1>3. RowsConsistent' /\ Issued(ToSet(history'))
  <2>1. Issued(ToSet(history'))
    BY <1>1 DEF BusInv, FreshTurns, Issued, durable
  <2> QED
    BY <1>1, <2>1, RowsUnchanged
<1>4. TypeOK'
  <2>1. faults' \in 0..MaxFaults /\ notified' \subseteq Event
    BY FaultType DEF AfterCommit, BusInv, TypeOK
  <2>2. promise' \in [Command -> {"none", "pending", "resolved", "rejected", "lost"}]
    BY <1>1 DEF BusInv, TypeOK
  <2> QED
    BY <1>1, <2>1, <2>2, NoBatchType, BoundsAssumption
       DEF BusInv, TypeOK, BatchType, PumpState, durable
<1>5. LoopShape'
  BY <1>1, <1>2 DEF BusInv, LoopShape, NoBatch
<1>6. FreshTurns'
  <2>1. \A c \in Command : promise'[c] = "none" => promise[c] = "none"
    BY <1>1
  <2>2. Issued(ToSet(mailbox) \cup ToSet(history))' /\ Issued(ToSet(warm))'
    BY <1>1, <1>2, <2>1 DEF BusInv, FreshTurns, Issued, durable
  <2> QED
    BY <1>1, <1>2, <2>2 DEF BusInv, FreshTurns, durable
<1>7. WarmAhead'
  BY <1>1, <1>2 DEF BusInv, WarmAhead, durable
<1>8. BatchAccount'
  <2>1. /\ batch'.pending = {} /\ ToSet(batch'.consumed) = {} /\ ToSet(batch'.journal) = {}
        /\ IsInjective(batch'.journal)
    BY <1>1, ToSetEmpty DEF NoBatch
  <2> QED
    BY <1>1, <1>2, <2>1 DEF BatchAccount, Handled, durable
<1>9. MailAccount'
  <2>1. /\ batch'.pending = {} /\ ToSet(batch'.consumed) = {}
    BY <1>1, ToSetEmpty DEF NoBatch
  <2> QED
    BY <1>1, <1>2, <2>1 DEF BusInv, MailAccount, MailEvents, durable
<1>10. SettleAccount'
  <2>1. \A c \in Command : CommandTurn(c) \in batch.settles => CommandTurn(c) \in ToSet(history)
    BY <1>2 DEF BusInv, SettleAccount
  <2>2. batch'.settles = {} /\ batch'.afterCommits = {}
    BY <1>1 DEF NoBatch
  <2>3. notified' \subseteq Handled /\ Handled' = Handled
    <3>1. batch.afterCommits \subseteq Handled /\ notified \subseteq Handled
      BY <1>2 DEF BusInv, SettleAccount, NotifiedIsDurable, Handled
    <3>2. notified' \subseteq notified \cup batch.afterCommits
      BY DEF AfterCommit
    <3> QED
      BY <1>1, <3>1, <3>2 DEF durable, Handled
  <2> QED
    BY <1>1, <2>1, <2>2, <2>3 DEF BusInv, SettleAccount, ResolvedIsDurable, NotifiedIsDurable, durable
<1> QED
  BY <1>3, <1>4, <1>5, <1>6, <1>7, <1>8, <1>9, <1>10 DEF BusInv

-----------------------------------------------------------------------------
(* A turn runs.                                                            *)

LEMMA KindsOfTurn ==
  \A t \in Turn : t.kind \in OnceKind \/ t.kind = "fail" \/ t = LoadTurn
BY TurnKinds DEF Turn, OnceKind

\* The events the next turn sends.
NextSends == IF Effective(Head(mailbox)) THEN Sends[Head(mailbox)] ELSE << >>

\* The next turn has no effect in the warm store yet, and the events it sends
\* are in no row, batch or mailbox.
LEMMA NextSendsFresh ==
  ASSUME BusInv, pump = "reacting", mailbox # << >>
  PROVE  /\ WarmValid
         /\ Effective(Head(mailbox)) => Head(mailbox) \notin ToSet(warm)
         /\ NextSends \in Seq(Event) /\ IsInjective(NextSends)
         /\ ToSet(NextSends) \cap (ToSet(journal) \cup ToSet(batch.journal)) = {}
         /\ outbox \cup Handled \subseteq ToSet(journal)
         /\ MailEvents = (outbox \ ToSet(batch.consumed)) \cup batch.pending
         /\ MailEvents \subseteq ToSet(journal) \cup ToSet(batch.journal)
         /\ HandledBy(ToSet(warm)) \subseteq ToSet(journal) \cup ToSet(batch.journal)
<1> DEFINE t == Head(mailbox)
<1>1. WarmValid /\ loaded
  BY DEF BusInv, LoopShape, WarmValid
<1>2. t \in Turn /\ t \in ToSet(mailbox)
  BY NextTurn
<1>3. Effective(t) => t \notin ToSet(warm)
  <2>1. t.kind \in OnceKind => t \notin ToSet(warm)
    BY <1>1, <1>2 DEF BusInv, FreshTurns
  <2>2. t = LoadTurn => ~Effective(t)
    BY TurnKinds DEF Effective
  <2> QED
    BY <1>2, <2>1, <2>2, KindsOfTurn DEF Effective
<1>4. /\ ToSet(journal) = SentBy(ToSet(history))
      /\ SentBy(ToSet(history)) = outbox \cup Handled \cup dead
  BY DEF BusInv, RowsConsistent, JournalIsTrace, NothingLost
<1>5. /\ SentBy(ToSet(warm)) = SentBy(ToSet(history)) \cup ToSet(batch.journal)
      /\ HandledBy(ToSet(warm)) =
           Handled \cup ToSet(batch.consumed) \cup (ToSet(batch.journal) \ batch.pending)
      /\ ToSet(batch.consumed) \subseteq outbox
      /\ batch.pending \subseteq ToSet(batch.journal)
  BY <1>1 DEF BusInv, BatchAccount
<1>6. MailEvents = (outbox \ ToSet(batch.consumed)) \cup batch.pending
  BY <1>1 DEF BusInv, MailAccount
<1>7. /\ NextSends \in Seq(Event) /\ IsInjective(NextSends)
      /\ ToSet(NextSends) \cap SentBy(ToSet(warm)) = {}
  <2>1. CASE Effective(t)
    <3>1. ToSet(warm) \in SUBSET Turn
      BY ToSetTurns DEF BusInv
    <3> QED
      BY <1>2, <1>3, <2>1, <3>1, SendsFresh DEF NextSends
  <2>2. CASE ~Effective(t)
    BY <2>2, ToSetEmpty DEF NextSends
  <2> QED
    BY <2>1, <2>2
<1> QED
  BY <1>1, <1>3, <1>4, <1>5, <1>6, <1>7

\* What a turn does to the batch, in terms of sets.
LEMMA ReactBatch ==
  ASSUME BusInv, React
  PROVE  LET t == Head(mailbox)
             S == ToSet(NextSends)
             I == IF t.kind = "event" THEN {t.id} ELSE {}
         IN /\ batch' \in BatchType /\ batch'.position > 0
            /\ batch'.pending = (batch.pending \ I) \cup S
            /\ ToSet(batch'.consumed) = ToSet(batch.consumed) \cup (I \ batch.pending)
            /\ batch'.journal = batch.journal \o NextSends
            /\ ToSet(batch'.journal) = ToSet(batch.journal) \cup S
            /\ batch'.settles = batch.settles \cup (IF t.kind = "event" THEN {} ELSE {t})
            /\ batch'.afterCommits = batch.afterCommits \cup I
            /\ mailbox' = Tail(mailbox) \o EventTurns(NextSends)
            /\ warm' = IF Effective(t) THEN Append(warm, t) ELSE warm
            /\ t \notin Poison /\ mailbox # << >> /\ pump = "reacting"
            /\ UNCHANGED <<durable, pump, limit, loaded, doomed, retries, timers,
                           callers, budgets>>
<1> DEFINE t == Head(mailbox)
           b == Shifted(t)
           E == IF t.kind = "event" THEN {t.id} ELSE {}
<1>1. /\ mailbox # << >> /\ pump = "reacting" /\ t \notin Poison
      /\ warm' = (IF Effective(t) THEN Append(warm, t) ELSE warm)
      /\ mailbox' = Tail(mailbox) \o EventTurns(NextSends)
      /\ batch' = [b EXCEPT !.position = @ + 1,
                            !.pending = @ \cup ToSet(NextSends),
                            !.journal = @ \o NextSends,
                            !.afterCommits = @ \cup E,
                            !.settles = @ \cup (IF t.kind = "event" THEN {} ELSE {t})]
      /\ UNCHANGED <<durable, pump, limit, loaded, doomed, retries, timers, callers, budgets>>
  BY DEF React, Ready, NextSends
<1>2. t \in Turn
  BY <1>1, NextTurn
<1>3. batch \in BatchType
  BY DEF BusInv, TypeOK, BatchType
<1>4. b \in BatchType
  BY <1>2, <1>3, ShiftedType
<1>5. t.kind = "event" => t.id \in Event
  BY <1>2, TurnTypes
<1>6. /\ b.position = batch.position /\ b.journal = batch.journal
      /\ b.afterCommits = batch.afterCommits
      /\ b.settles = batch.settles /\ b.pending = batch.pending \ E
      /\ ToSet(b.consumed) = ToSet(batch.consumed) \cup (E \ batch.pending)
  <2>1. CASE t.kind # "event"
    BY <2>1, <1>3 DEF Shifted, BatchType
  <2>2. CASE t.kind = "event" /\ t.id \in batch.pending
    BY <2>2, <1>3 DEF Shifted, BatchType
  <2>3. CASE t.kind = "event" /\ t.id \notin batch.pending
    <3>1. b = [batch EXCEPT !.consumed = Append(@, t.id)]
      BY <2>3 DEF Shifted
    <3>2. batch.consumed \in Seq(Event)
      BY <1>3 DEF BatchType
    <3>3. ToSet(Append(batch.consumed, t.id)) = ToSet(batch.consumed) \cup {t.id}
      BY <3>2, <2>3, <1>5, ToSetAppend
    <3> QED
      BY ZenonT(30), <3>1, <3>3, <2>3, <1>3 DEF BatchType
  <2> QED
    BY <2>1, <2>2, <2>3
<1>7. NextSends \in Seq(Event)
  BY <1>1, NextSendsFresh
<1>8. batch.journal \in Seq(Event) /\ ToSet(NextSends) \subseteq Event
  BY <1>3, <1>7 DEF BatchType, ToSet
<1>9. /\ b.journal \o NextSends \in Seq(Event)
      /\ ToSet(b.journal \o NextSends) = ToSet(b.journal) \cup ToSet(NextSends)
  BY <1>6, <1>7, <1>8, ToSetConcat
<1>10. /\ batch'.position = b.position + 1 /\ batch'.consumed = b.consumed
       /\ batch'.pending = b.pending \cup ToSet(NextSends)
       /\ batch'.journal = b.journal \o NextSends
       /\ batch'.settles = b.settles \cup (IF t.kind = "event" THEN {} ELSE {t})
       /\ batch'.afterCommits = b.afterCommits \cup E
  BY <1>1, <1>4 DEF BatchType
<1>11. batch' \in BatchType /\ batch'.position > 0
  <2>1. E \subseteq Event
    BY <1>5
  <2>2. /\ b.position + 1 \in Nat /\ b.position + 1 > 0
        /\ b.pending \cup ToSet(NextSends) \subseteq Event
        /\ b.journal \o NextSends \in Seq(Event)
        /\ b.afterCommits \cup E \subseteq Event
        /\ b.settles \cup (IF t.kind = "event" THEN {} ELSE {t}) \subseteq Turn
    BY <1>2, <1>4, <1>8, <1>9, <2>1 DEF BatchType
  <2>3. batch' \in BatchType
    BY <1>1, <1>4, <2>2 DEF BatchType
  <2> QED
    BY <1>10, <2>2, <2>3
<1> QED
  BY <1>1, <1>6, <1>9, <1>10, <1>11

LEMMA ReactKeeps == ASSUME BusInv, React PROVE BusInv'
<1> DEFINE t == Head(mailbox)
           S == ToSet(NextSends)
           I == IF t.kind = "event" THEN {t.id} ELSE {}
           C == ToSet(batch.consumed)
           J == ToSet(batch.journal)
           P == batch.pending
<1>1. /\ batch' \in BatchType /\ batch'.position > 0
      /\ batch'.pending = (P \ I) \cup S
      /\ ToSet(batch'.consumed) = C \cup (I \ P)
      /\ batch'.journal = batch.journal \o NextSends
      /\ ToSet(batch'.journal) = J \cup S
      /\ batch'.settles = batch.settles \cup (IF t.kind = "event" THEN {} ELSE {t})
      /\ batch'.afterCommits = batch.afterCommits \cup I
      /\ mailbox' = Tail(mailbox) \o EventTurns(NextSends)
      /\ warm' = (IF Effective(t) THEN Append(warm, t) ELSE warm)
      /\ t \notin Poison /\ mailbox # << >> /\ pump = "reacting"
      /\ UNCHANGED <<durable, pump, limit, loaded, doomed, retries, timers,
                     callers, budgets>>
  BY ReactBatch
<1>2. /\ WarmValid
      /\ Effective(t) => t \notin ToSet(warm)
      /\ NextSends \in Seq(Event) /\ IsInjective(NextSends)
      /\ S \cap (ToSet(journal) \cup J) = {}
      /\ outbox \cup Handled \subseteq ToSet(journal)
      /\ MailEvents = (outbox \ C) \cup P
      /\ MailEvents \subseteq ToSet(journal) \cup J
      /\ HandledBy(ToSet(warm)) \subseteq ToSet(journal) \cup J
  BY <1>1, NextSendsFresh
<1>3. /\ t \in Turn /\ Tail(mailbox) \in Seq(Turn)
      /\ ToSet(mailbox) = {t} \cup ToSet(Tail(mailbox))
      /\ OnceEach(Tail(mailbox))
      /\ t.kind \in OnceKind => t \notin ToSet(Tail(mailbox))
      /\ HandledBy(ToSet(Tail(mailbox))) = MailEvents \ I
      /\ t.kind = "event" => t.id \in MailEvents /\ t = EventTurn(t.id)
  BY <1>1, NextTurn
<1>4. /\ WarmValid' /\ loaded /\ loaded' /\ pump' = "reacting"
      /\ UNCHANGED <<outbox, history, journal, dead, promise, submitted>>
  BY <1>1, <1>2 DEF WarmValid, durable, callers
<1>5. /\ EventTurns(NextSends) \in Seq(Turn)
      /\ ToSet(EventTurns(NextSends)) = {EventTurn(e) : e \in S}
      /\ OnceEach(EventTurns(NextSends))
  BY <1>2, ToSetEventTurns, EventTurnsOnce
<1>6. /\ mailbox' \in Seq(Turn)
      /\ ToSet(mailbox') = ToSet(Tail(mailbox)) \cup {EventTurn(e) : e \in S}
  <2>1. /\ Tail(mailbox) \o EventTurns(NextSends) \in Seq(Turn)
        /\ ToSet(Tail(mailbox) \o EventTurns(NextSends)) =
             ToSet(Tail(mailbox)) \cup ToSet(EventTurns(NextSends))
    <3>1. Tail(mailbox) \in Seq(Turn) /\ EventTurns(NextSends) \in Seq(Turn)
      BY <1>3, <1>5
    <3> HIDE DEF t, S, I, C, J, P
    <3> QED
      BY ZenonT(30), <3>1, ToSetConcat
  <2> QED
    BY <1>1, <1>5, <2>1
<1>7. S \subseteq Event
  BY <1>2 DEF ToSet
<1>8. warm \in Seq(Turn) /\ warm' \in Seq(Turn)
      /\ ToSet(warm') = ToSet(warm) \cup (IF Effective(t) THEN {t} ELSE {})
  BY SMTT(30), <1>1, <1>3, ToSetAppend DEF BusInv, TypeOK
<1>9. t.kind = "event" => Effective(t)
  BY DEF Effective
<1>10. /\ P \subseteq J /\ C \subseteq outbox /\ IsInjective(batch.journal)
       /\ J \cap ToSet(journal) = {}
       /\ SentBy(ToSet(warm)) = SentBy(ToSet(history)) \cup J
       /\ HandledBy(ToSet(warm)) = Handled \cup C \cup (J \ P)
  BY <1>1, <1>2 DEF BusInv, BatchAccount
<1>11. TypeOK'
  BY <1>1, <1>6, <1>8 DEF BusInv, TypeOK, BatchType, PumpState, durable, callers, budgets
<1>12. LoopShape'
  BY <1>1, <1>4 DEF BusInv, LoopShape
<1>13. RowsConsistent'
  BY <1>1, RowsUnchanged
<1>14. FreshTurns'
  <2>1. \A u \in ToSet(Tail(mailbox)) \cap {EventTurn(e) : e \in S} : FALSE
    <3> SUFFICES ASSUME NEW e \in S, EventTurn(e) \in ToSet(Tail(mailbox)) PROVE FALSE
      OBVIOUS
    <3>1. e \in MailEvents
      BY <1>3, <1>7 DEF HandledBy
    <3> QED
      BY <3>1, <1>2
  <2>2. OnceEach(mailbox')
    BY <1>1, <1>3, <1>5, <2>1, OnceConcat
  <2>3. ASSUME NEW u \in ToSet(mailbox'), u.kind \in OnceKind
        PROVE  u \notin ToSet(history) /\ u \notin ToSet(warm')
    <3>1. CASE u \in ToSet(Tail(mailbox))
      <4>1. u \notin ToSet(history) /\ u \notin ToSet(warm)
        BY <1>2, <1>3, <2>3, <3>1 DEF BusInv, FreshTurns
      <4>2. u # t
        BY <1>3, <2>3, <3>1
      <4> QED
        BY <4>1, <4>2, <1>8
    <3>2. CASE u \in {EventTurn(e) : e \in S}
      <4>1. PICK e \in S : u = EventTurn(e)
        BY <3>2
      <4>2. e \notin Handled /\ e \notin HandledBy(ToSet(warm)) /\ e \in Event
        BY <1>2, <1>7
      <4>3. u \notin ToSet(history) /\ u \notin ToSet(warm)
        BY <4>1, <4>2 DEF Handled, HandledBy
      <4>4. u # t
        BY <4>1, <1>2, <1>3, TurnKinds, <1>7
      <4> QED
        BY <4>3, <4>4, <1>8
    <3> QED
      BY <3>1, <3>2, <1>6
  <2>4. Issued(ToSet(mailbox) \cup ToSet(history)) /\ Issued(ToSet(warm))
    BY <1>2 DEF BusInv, FreshTurns
  <2>5. \A e \in S : /\ \A c \in Command : EventTurn(e) # CommandTurn(c)
                     /\ \A k \in Completion : EventTurn(e) # CompletionTurn(k)
    <3>1. \A e \in S : EventTurn(e).kind = "event"
      BY TurnKinds, <1>7
    <3>2. \A c \in Command : CommandTurn(c).kind = "command"
      BY TurnKinds
    <3>3. \A k \in Completion : CompletionTurn(k).kind = "completion"
      BY TurnKinds
    <3> QED
      BY <3>1, <3>2, <3>3
  <2>6. Issued(ToSet(mailbox) \cup ToSet(history))'
    BY <1>3, <1>4, <1>6, <2>4, <2>5 DEF Issued
  <2>7. Issued(ToSet(warm))'
    BY <1>3, <1>4, <1>8, <2>4 DEF Issued
  <2> QED
    BY <1>4, <2>2, <2>3, <2>6, <2>7 DEF FreshTurns
<1>15. WarmAhead'
  <2>1. IsInjective(warm')
    BY <1>1, <1>2, <1>3, <1>8, InjectiveAppend DEF BusInv, WarmAhead
  <2> QED
    BY <1>1, <1>2, <1>4, <1>8, <2>1 DEF BusInv, WarmAhead, BatchType
<1>16. HandledBy(ToSet(warm')) = HandledBy(ToSet(warm)) \cup I
  <2>1. CASE Effective(t)
    <3>1. HandledBy(ToSet(warm) \cup {t}) = HandledBy(ToSet(warm)) \cup HandledBy({t})
      BY HandledByCup
    <3>2. HandledBy({t}) = I
      BY <1>3, HandledBySingle
    <3> QED
      BY <1>8, <2>1, <3>1, <3>2
  <2>2. CASE ~Effective(t)
    BY <1>8, <1>9, <2>2
  <2> QED
    BY <2>1, <2>2
<1>17. BatchAccount'
  <2>1. SentBy(ToSet(warm')) = SentBy(ToSet(warm)) \cup S
    <3>1. CASE Effective(t)
      <4>1. ToSet(warm') = ToSet(warm) \cup {t} /\ NextSends = Sends[t]
        BY <1>8, <3>1 DEF NextSends
      <4>2. SentBy(ToSet(warm) \cup {t}) = SentBy(ToSet(warm)) \cup SentBy({t})
        BY SentByCup
      <4>3. SentBy({t}) = ToSet(Sends[t])
        BY SentBySingle
      <4> QED
        BY <4>1, <4>2, <4>3
    <3>2. CASE ~Effective(t)
      BY <1>8, <3>2, ToSetEmpty DEF NextSends
    <3> QED
      BY <3>1, <3>2
  <2>2. I \subseteq (outbox \ C) \cup P
    BY <1>2, <1>3
  <2>3. (J \cup S) \ ((P \ I) \cup S) = (J \ P) \cup (I \cap P)
    BY <1>2, <1>10
  <2>4. Handled' = Handled
    BY <1>4 DEF Handled
  <2>5. HandledBy(ToSet(warm')) =
          Handled' \cup ToSet(batch'.consumed) \cup (ToSet(batch'.journal) \ batch'.pending)
    BY <1>1, <1>10, <1>16, <2>3, <2>4
  <2>6. ToSet(batch'.consumed) \subseteq outbox'
    BY <1>1, <1>4, <1>10, <2>2
  <2>7. IsInjective(batch'.journal)
    <3>1. batch.journal \in Seq(Event)
      BY DEF BusInv, TypeOK
    <3> QED
      BY <1>1, <1>2, <1>10, <3>1, InjectiveConcat
  <2> QED
    BY <1>1, <1>2, <1>4, <1>10, <2>1, <2>5, <2>6, <2>7 DEF BatchAccount
<1>18. MailAccount'
  <2>1. MailEvents' = (MailEvents \ I) \cup S
    <3>1. HandledBy({EventTurn(e) : e \in S}) = S
      BY <1>7, HandledByEvents
    <3> QED
      BY <1>3, <1>6, <3>1, HandledByCup DEF MailEvents
  <2>2. P \cap outbox = {}
    BY <1>2, <1>10
  <2>3. MailEvents' = (outbox \ (C \cup (I \ P))) \cup ((P \ I) \cup S)
    BY <1>2, <1>3, <2>1, <2>2
  <2> QED
    BY <1>1, <1>4, <2>3 DEF MailAccount
<1>19. SettleAccount'
  <2>1. \A c \in Command : CommandTurn(c) = t => Effective(t)
    BY TurnKinds DEF Effective
  <2> QED
    BY <1>1, <1>2, <1>4, <1>8, <1>16, <2>1
       DEF BusInv, SettleAccount, ResolvedIsDurable, NotifiedIsDurable, Handled, callers
<1> QED
  BY <1>11, <1>12, <1>13, <1>14, <1>15, <1>17, <1>18, <1>19 DEF BusInv

-----------------------------------------------------------------------------
(* The process.                                                            *)

LEMMA WipeKeeps ==
  ASSUME BusInv, Wipe, pump' \in {"loading", "exited"}, UNCHANGED faults,
         crashes' \in 0..MaxCrashes
  PROVE  BusInv'
<1>1. /\ mailbox' = << >> /\ limit' = MaxBatchTurns
      /\ loaded' = FALSE /\ warm' = << >> /\ batch' = NoBatch /\ doomed' = {}
      /\ retries' = [e \in Event |-> 0] /\ timers' = 0
      /\ promise' = [c \in Command |-> IF promise[c] = "pending" THEN "lost" ELSE promise[c]]
      /\ unhandled' = FALSE
      /\ UNCHANGED <<durable, submitted, notified>>
  BY DEF Wipe
<1>2. mailbox' \in Seq(Turn) /\ warm' \in Seq(Turn) /\ ToSet(mailbox') = {}
  BY <1>1, ToSetEmpty
<1>3. TypeOK'
  <2>1. retries' \in [Event -> 0..MaxCommitRetries] /\ timers' \in Nat
        /\ limit' \in Nat \ {0} /\ batch' \in BatchType
    BY <1>1, BoundsAssumption, NoBatchType
  <2>2. promise' \in [Command -> {"none", "pending", "resolved", "rejected", "lost"}]
    BY <1>1 DEF BusInv, TypeOK
  <2> QED
    BY <1>1, <1>2, <2>1, <2>2 DEF BusInv, TypeOK, BatchType, PumpState, durable
<1>4. /\ RowsConsistent' /\ Issued(ToSet(history'))
      /\ ToSet(history) \subseteq ToSet(history')
  BY <1>1, RowsUnchanged
<1>5. \A c \in Command : promise'[c] \in {"none", "resolved"} => promise[c] = promise'[c]
  BY <1>1
<1> QED
  BY <1>1, <1>2, <1>3, <1>4, <1>5, ForgetKeeps

LEMMA CrashKeeps == ASSUME BusInv, Crash PROVE BusInv'
<1>1. crashes' \in 0..MaxCrashes
  BY BoundsAssumption DEF Crash, BusInv, TypeOK
<1> QED
  BY <1>1, WipeKeeps DEF Crash

LEMMA BootKeeps == ASSUME BusInv, Boot PROVE BusInv'
<1>1. crashes' \in 0..MaxCrashes
  BY DEF Boot, budgets, BusInv, TypeOK
<1> QED
  BY <1>1, WipeKeeps DEF Boot, budgets

LEMMA LoadFailsKeeps == ASSUME BusInv, LoadFails PROVE BusInv'
<1>1. /\ pump \in {"loading", "replaying"} /\ ~loaded /\ Fault
      /\ Reject(ToSet(mailbox)) /\ mailbox' = << >>
      /\ pump' \in {"idle", "exited"}
      /\ UNCHANGED <<durable, limit, loaded, warm, batch, doomed, retries, timers,
                     submitted, notified, crashes>>
  BY DEF LoadFails
<1>2. mailbox' \in Seq(Turn) /\ ToSet(mailbox') = {}
  BY <1>1, ToSetEmpty
<1>3. batch' = NoBatch /\ doomed' = {} /\ loaded' = FALSE
  BY <1>1 DEF BusInv, LoopShape, TypeOK
<1>4. /\ promise' \in [Command -> {"none", "pending", "resolved", "rejected", "lost"}]
      /\ unhandled' \in BOOLEAN
      /\ \A c \in Command : promise'[c] \in {"none", "resolved"} => promise[c] = promise'[c]
  BY <1>1 DEF Reject, Unhandled, BusInv, TypeOK
<1>5. TypeOK'
  <2>1. faults' \in 0..MaxFaults
    BY <1>1, FaultType DEF BusInv
  <2> QED
    BY <1>1, <1>2, <1>4, <2>1 DEF BusInv, TypeOK, PumpState, durable
<1>6. /\ RowsConsistent' /\ Issued(ToSet(history'))
      /\ ToSet(history) \subseteq ToSet(history')
  BY <1>1, RowsUnchanged
<1> QED
  BY <1>1, <1>2, <1>3, <1>4, <1>5, <1>6, ForgetKeeps

-----------------------------------------------------------------------------
(* The loop goes on.                                                       *)

\* Steps that only move the loop: nothing that the invariant relates changes,
\* and the loop is on either side of them between two batches or loading.
LEMMA MoveKeeps ==
  ASSUME BusInv, UNCHANGED <<durable, mailbox, loaded, warm, batch, doomed, callers>>,
         retries' \in [Event -> 0..MaxCommitRetries], timers' \in Nat, limit' \in Nat \ {0},
         UNCHANGED budgets,
         pump' # pump => /\ pump \in {"idle", "loading", "reacting"}
                         /\ pump' \in {"idle", "loading", "reacting", "committing"},
         pump' = "reacting" /\ pump # "reacting" => loaded,
         pump' \in {"idle", "loading"} /\ pump # pump' => batch.position = 0,
         pump' = "committing" /\ pump # "committing" => pump = "reacting" /\ batch.position > 0
  PROVE  BusInv'
<1>1. RowsConsistent'
  BY RowsUnchanged
<1>2. TypeOK'
  BY DEF BusInv, TypeOK, durable, callers, budgets, PumpState
<1>3. LoopShape'
  BY DEF BusInv, LoopShape, durable
<1>4. WarmValid' = WarmValid /\ loaded' = loaded
      /\ (pump' = "committed" <=> pump = "committed")
      /\ (pump' = "deadEvent" <=> pump = "deadEvent")
      /\ (pump' = "replaying" <=> pump = "replaying")
  BY DEF WarmValid
<1>5. FreshTurns'
  BY <1>4 DEF BusInv, FreshTurns, Issued, durable, callers
<1>6. WarmAhead'
  BY <1>4 DEF BusInv, WarmAhead, durable
<1>7. BatchAccount'
  BY <1>4 DEF BusInv, BatchAccount, Handled, durable
<1>8. MailAccount'
  BY <1>4 DEF BusInv, MailAccount, MailEvents, durable
<1>9. SettleAccount'
  BY <1>4 DEF BusInv, SettleAccount, ResolvedIsDurable, NotifiedIsDurable, Handled, durable, callers
<1> QED
  BY <1>1, <1>2, <1>3, <1>5, <1>6, <1>7, <1>8, <1>9 DEF BusInv

LEMMA TypedRest ==
  ASSUME BusInv
  PROVE  retries \in [Event -> 0..MaxCommitRetries] /\ timers \in Nat /\ limit \in Nat \ {0}
         /\ MaxBatchTurns \in Nat \ {0} /\ (pump = "idle" => batch.position = 0)
         /\ (pump = "loading" => batch.position = 0)
BY BoundsAssumption DEF BusInv, TypeOK, LoopShape

LEMMA LoopMovesKeep ==
  ASSUME BusInv, SkipLoad \/ GoIdle \/ EndReactLoop \/ Activate \/ BackoffElapsed
  PROVE  BusInv'
<1>1. CASE SkipLoad
  BY <1>1, TypedRest, MoveKeeps DEF SkipLoad
<1>2. CASE GoIdle
  BY <1>2, TypedRest, MoveKeeps DEF GoIdle
<1>3. CASE EndReactLoop
  <2>1. pump' = "committing" /\ pump = "reacting" /\ batch.position > 0
    BY <1>3 DEF EndReactLoop
  <2> QED
    BY <1>3, <2>1, TypedRest, MoveKeeps DEF EndReactLoop
<1>4. CASE Activate
  BY <1>4, TypedRest, MoveKeeps DEF Activate, Wake
<1>5. CASE BackoffElapsed
  <2>1. timers' \in Nat
    BY <1>5, TypedRest DEF BackoffElapsed
  <2> QED
    BY <1>5, <2>1, TypedRest, MoveKeeps DEF BackoffElapsed, Wake
<1> QED
  BY <1>1, <1>2, <1>3, <1>4, <1>5

LEMMA StutterKeeps == ASSUME BusInv, UNCHANGED vars PROVE BusInv'
BY TypedRest, MoveKeeps DEF vars, process

-----------------------------------------------------------------------------
(* New work.                                                               *)

\* A caller's turn, issued for the first time, joins the mailbox.
LEMMA IssueKeeps ==
  ASSUME BusInv, NEW t \in Turn, t.kind \in {"command", "completion"},
         t \notin ToSet(mailbox) \cup ToSet(history), WarmValid => t \notin ToSet(warm),
         mailbox' = Append(mailbox, t), Wake,
         UNCHANGED <<durable, loaded, warm, batch, doomed, retries, timers, budgets>>,
         UNCHANGED <<notified, unhandled>>,
         promise' \in [Command -> {"none", "pending", "resolved", "rejected", "lost"}],
         submitted' \subseteq Completion, submitted \subseteq submitted',
         \A c \in Command : promise'[c] = "none" => promise[c] = "none" /\ CommandTurn(c) # t,
         \A c \in Command : promise'[c] = "resolved" => promise[c] = "resolved",
         \A k \in Completion : CompletionTurn(k) = t => k \in submitted'
  PROVE  BusInv'
<1>1. mailbox \in Seq(Turn)
  BY DEF BusInv, TypeOK
<1>2. /\ mailbox' \in Seq(Turn) /\ ToSet(mailbox') = ToSet(mailbox) \cup {t}
  BY <1>1, ToSetAppend
<1>3. OnceEach(mailbox')
  BY <1>1, OnceAppend DEF BusInv, FreshTurns
<1>4. /\ pump' # pump => pump = "idle" /\ pump' = "loading" /\ batch.position = 0
      /\ limit' \in Nat \ {0}
  BY TypedRest DEF Wake
<1>5. WarmValid' = WarmValid /\ loaded' = loaded
      /\ (pump' = "committed" <=> pump = "committed")
      /\ (pump' = "deadEvent" <=> pump = "deadEvent")
      /\ (pump' = "replaying" <=> pump = "replaying")
  BY <1>4 DEF WarmValid
<1>6. TypeOK'
  BY <1>2, <1>4 DEF BusInv, TypeOK, durable, budgets, PumpState
<1>7. LoopShape'
  BY <1>4 DEF BusInv, LoopShape, durable
<1>8. RowsConsistent'
  BY RowsUnchanged
<1>9. FreshTurns'
  <2>1. Issued(ToSet(mailbox) \cup ToSet(history))'
    BY <1>2 DEF BusInv, FreshTurns, Issued, durable
  <2>2. WarmValid => Issued(ToSet(warm))'
    BY DEF BusInv, FreshTurns, Issued
  <2> QED
    BY <1>2, <1>3, <1>5, <2>1, <2>2 DEF BusInv, FreshTurns, durable
<1>10. WarmAhead'
  BY <1>5 DEF BusInv, WarmAhead, durable
<1>11. BatchAccount'
  BY <1>5 DEF BusInv, BatchAccount, Handled, durable
<1>12. MailAccount'
  <2>1. HandledBy({t}) = {}
    BY HandledBySingle
  <2>2. MailEvents' = MailEvents
    <3>1. HandledBy(ToSet(mailbox) \cup {t}) = HandledBy(ToSet(mailbox)) \cup HandledBy({t})
      BY HandledByCup
    <3> QED
      BY <1>2, <2>1, <3>1 DEF MailEvents
  <2> QED
    BY <1>5, <2>2 DEF BusInv, MailAccount, durable
<1>13. SettleAccount'
  BY <1>5 DEF BusInv, SettleAccount, ResolvedIsDurable, NotifiedIsDurable, Handled, durable
<1> QED
  BY <1>6, <1>7, <1>8, <1>9, <1>10, <1>11, <1>12, <1>13 DEF BusInv

LEMMA EnqueueCommandKeeps ==
  ASSUME BusInv, NEW c \in Command, EnqueueCommand(c) PROVE BusInv'
<1> DEFINE t == CommandTurn(c)
<1>1. /\ promise[c] = "none" /\ promise' = [promise EXCEPT ![c] = "pending"]
      /\ mailbox' = Append(mailbox, t) /\ Wake
      /\ UNCHANGED <<durable, loaded, warm, batch, doomed, retries, timers,
                     submitted, notified, unhandled, budgets>>
  BY DEF EnqueueCommand
<1>2. t \in Turn /\ t.kind = "command" /\ \A k \in Completion : CompletionTurn(k) # t
  BY TurnTypes, TurnKinds
<1>3. t \notin ToSet(mailbox) \cup ToSet(history) /\ (WarmValid => t \notin ToSet(warm))
  BY <1>1 DEF BusInv, FreshTurns, Issued
<1>4. promise' \in [Command -> {"none", "pending", "resolved", "rejected", "lost"}]
      /\ submitted \subseteq Completion
  BY <1>1 DEF BusInv, TypeOK
<1>5. \A d \in Command : CommandTurn(d) = t => d = c
  BY TurnKinds
<1>6. \A d \in Command : promise'[d] = IF d = c THEN "pending" ELSE promise[d]
  BY <1>1 DEF BusInv, TypeOK
<1> QED
  BY <1>1, <1>2, <1>3, <1>4, <1>5, <1>6, IssueKeeps

LEMMA SubmitKeeps ==
  ASSUME BusInv, NEW k \in Completion, Submit(k) PROVE BusInv'
<1> DEFINE t == CompletionTurn(k)
<1>1. /\ k \notin submitted /\ submitted' = submitted \cup {k}
      /\ mailbox' = Append(mailbox, t) /\ Wake
      /\ UNCHANGED <<durable, loaded, warm, batch, doomed, retries, timers,
                     promise, notified, unhandled, budgets>>
  BY DEF Submit
<1>2. t \in Turn /\ t.kind = "completion" /\ \A c \in Command : CommandTurn(c) # t
  BY TurnTypes, TurnKinds
<1>3. t \notin ToSet(mailbox) \cup ToSet(history) /\ (WarmValid => t \notin ToSet(warm))
  BY <1>1 DEF BusInv, FreshTurns, Issued
<1>4. promise' \in [Command -> {"none", "pending", "resolved", "rejected", "lost"}]
      /\ submitted' \subseteq Completion
  BY <1>1 DEF BusInv, TypeOK
<1>5. \A d \in Completion : CompletionTurn(d) = t => d = k
  BY TurnKinds
<1> QED
  BY <1>1, <1>2, <1>3, <1>4, <1>5, IssueKeeps

-----------------------------------------------------------------------------
(* Loading.                                                                *)

\* Replaying the outbox puts each row into the mailbox once.
LEMMA OutboxRows ==
  ASSUME BusInv, NEW s \in SetToSeqs(outbox)
  PROVE  s \in Seq(Event) /\ IsInjective(s) /\ ToSet(s) = outbox
<1> DEFINE n == Cardinality(outbox)
<1>1. outbox \subseteq Event
  BY DEF BusInv, TypeOK
<1>2. IsFiniteSet(outbox) /\ n \in Nat
  BY <1>1, EventAssumption, FS_Subset, FS_CardinalityType
<1>3. s \in [1..n -> outbox] /\ \A i, j \in 1..n : i # j => s[i] # s[j]
  BY DEF SetToSeqs
<1>4. s \in Injection(1..n, outbox)
  BY <1>3 DEF Injection, IsInjective
<1>5. IsFiniteSet(1..n) /\ Cardinality(1..n) = n
  BY <1>2, FS_Interval
<1>6. s \in Surjection(1..n, outbox)
  BY <1>2, <1>4, <1>5, FS_Injection
<1>7. ToSet(s) = outbox
  BY <1>3, <1>6 DEF Surjection, ToSet
<1>8. s \in Seq(Event)
  BY <1>1, <1>2, <1>3
<1> QED
  BY <1>3, <1>7, <1>8 DEF IsInjective

LEMMA LoadReactorsKeeps == ASSUME BusInv, LoadReactors PROVE BusInv'
<1>1. /\ pump = "loading" /\ ~loaded /\ warm' = history /\ pump' = "replaying"
      /\ mailbox' \in {mailbox, Append(mailbox, LoadTurn)}
      /\ UNCHANGED <<durable, limit, loaded, batch, doomed, retries, timers, callers, budgets>>
  BY DEF LoadReactors
<1>2. LoadTurn \in Turn /\ LoadTurn.kind \notin OnceKind /\ LoadTurn.kind # "event"
  BY TurnTypes, TurnKinds DEF OnceKind
<1>3. /\ mailbox' \in Seq(Turn) /\ OnceEach(mailbox')
      /\ ToSet(mailbox') \in {ToSet(mailbox), ToSet(mailbox) \cup {LoadTurn}}
  <2>1. mailbox \in Seq(Turn) /\ OnceEach(mailbox)
    BY DEF BusInv, TypeOK, FreshTurns
  <2>2. CASE mailbox' = mailbox
    BY <2>1, <2>2
  <2>3. CASE mailbox' = Append(mailbox, LoadTurn)
    <3>1. OnceEach(mailbox')
      BY <1>2, <2>1, <2>3, OnceAppend
    <3>2. mailbox' \in Seq(Turn) /\ ToSet(mailbox') = ToSet(mailbox) \cup {LoadTurn}
      BY <1>2, <2>1, <2>3, ToSetAppend
    <3> QED
      BY <3>1, <3>2
  <2> QED
    BY <1>1, <2>2, <2>3
<1>4. RowsConsistent'
  BY <1>1, RowsUnchanged
<1>5. TypeOK'
  BY <1>1, <1>3 DEF BusInv, TypeOK, durable, callers, budgets, PumpState
<1>6. LoopShape'
  BY <1>1 DEF BusInv, LoopShape, durable
<1>7. ~WarmValid'
  BY <1>1 DEF WarmValid
<1>8. FreshTurns'
  <2>1. \A c \in Command : CommandTurn(c) # LoadTurn
    BY TurnKinds
  <2>2. \A k \in Completion : CompletionTurn(k) # LoadTurn
    BY TurnKinds
  <2>3. Issued(ToSet(mailbox) \cup ToSet(history))'
    BY <1>1, <1>3, <2>1, <2>2 DEF BusInv, FreshTurns, Issued, durable, callers
  <2> QED
    BY <1>1, <1>2, <1>3, <1>7, <2>3 DEF BusInv, FreshTurns, durable
<1>9. WarmAhead' /\ BatchAccount'
  BY <1>1, <1>7 DEF BusInv, WarmAhead, BatchAccount, durable
<1>10. MailAccount'
  <2>1. HandledBy({LoadTurn}) = {}
    BY <1>2, HandledBySingle
  <2>2. HandledBy(ToSet(mailbox) \cup {LoadTurn}) = HandledBy(ToSet(mailbox)) \cup HandledBy({LoadTurn})
    BY HandledByCup
  <2>3. MailEvents' = MailEvents
    BY <1>3, <2>1, <2>2 DEF MailEvents
  <2> QED
    BY <1>1, <2>3 DEF BusInv, MailAccount
<1>11. SettleAccount'
  BY <1>1, <1>7 DEF BusInv, SettleAccount, ResolvedIsDurable, NotifiedIsDurable, Handled, durable, callers
<1> QED
  BY <1>4, <1>5, <1>6, <1>8, <1>9, <1>10, <1>11 DEF BusInv

LEMMA ReplayOutboxKeeps == ASSUME BusInv, ReplayOutbox PROVE BusInv'
<1>1. PICK s \in SetToSeqs(outbox) : mailbox' = mailbox \o EventTurns(s)
  BY DEF ReplayOutbox
<1>2. /\ pump = "replaying" /\ loaded' = TRUE /\ pump' = "reacting"
      /\ UNCHANGED <<durable, limit, warm, batch, doomed, retries, timers, callers, budgets>>
  BY DEF ReplayOutbox
<1>3. s \in Seq(Event) /\ IsInjective(s) /\ ToSet(s) = outbox
  BY OutboxRows
<1>4. EventTurns(s) \in Seq(Turn) /\ ToSet(EventTurns(s)) = {EventTurn(e) : e \in outbox}
      /\ OnceEach(EventTurns(s))
  BY <1>3, ToSetEventTurns, EventTurnsOnce
<1>5. ~loaded /\ batch = NoBatch /\ warm = history /\ MailEvents = {} /\ outbox \subseteq Event
      /\ mailbox \in Seq(Turn) /\ OnceEach(mailbox)
  BY <1>2 DEF BusInv, LoopShape, WarmAhead, MailAccount, TypeOK, FreshTurns
<1>6. \A e \in outbox : EventTurn(e) \notin ToSet(mailbox)
  BY <1>5 DEF MailEvents, HandledBy
<1>7. mailbox' \in Seq(Turn) /\ ToSet(mailbox') = ToSet(mailbox) \cup {EventTurn(e) : e \in outbox}
  BY <1>1, <1>4, <1>5, ToSetConcat
<1>8. OnceEach(mailbox')
  BY <1>1, <1>4, <1>5, <1>6, OnceConcat
<1>9. WarmValid' /\ warm' = history'
  BY <1>2, <1>5 DEF WarmValid, durable
<1>10. RowsConsistent'
  BY <1>2, RowsUnchanged
<1>11. TypeOK'
  BY <1>2, <1>7 DEF BusInv, TypeOK, durable, callers, budgets, PumpState
<1>12. LoopShape'
  BY <1>2 DEF BusInv, LoopShape, durable
<1>13. batch' = NoBatch /\ ToSet(batch'.consumed) = {} /\ ToSet(batch'.journal) = {}
       /\ batch'.pending = {} /\ IsInjective(batch'.journal) /\ batch'.settles = {} /\ batch'.afterCommits = {}
       /\ batch'.position = 0
  BY <1>2, <1>5, ToSetEmpty DEF NoBatch
<1>14. FreshTurns'
  <2>1. \A e \in outbox : EventTurn(e) \notin ToSet(history)
    BY <1>5 DEF BusInv, RowsConsistent, NothingLost, Handled, HandledBy
  <2>2. \A e \in Event : /\ \A c \in Command : CommandTurn(c) # EventTurn(e)
                         /\ \A k \in Completion : CompletionTurn(k) # EventTurn(e)
    <3>1. \A e \in Event : EventTurn(e).kind = "event"
      BY TurnKinds
    <3>2. \A c \in Command : CommandTurn(c).kind = "command"
      BY TurnKinds
    <3>3. \A k \in Completion : CompletionTurn(k).kind = "completion"
      BY TurnKinds
    <3> QED
      BY <3>1, <3>2, <3>3
  <2>3. Issued(ToSet(mailbox) \cup ToSet(history))'
    BY <1>2, <1>5, <1>7, <2>2 DEF BusInv, FreshTurns, Issued, durable, callers
  <2>4. \A t \in ToSet(mailbox') : t.kind \in OnceKind => t \notin ToSet(history)
    BY <1>7, <2>1 DEF BusInv, FreshTurns
  <2>5. Issued(ToSet(warm))'
    BY <1>9, <2>3 DEF Issued
  <2> QED
    BY <1>2, <1>8, <1>9, <2>3, <2>4, <2>5 DEF FreshTurns, durable
<1>15. WarmAhead'
  BY <1>2, <1>9 DEF BusInv, WarmAhead, RowsConsistent, AppliedOnce, durable
<1>16. BatchAccount'
  BY <1>9, <1>13 DEF BatchAccount, Handled
<1>17. MailAccount'
  <2>1. HandledBy(ToSet(mailbox) \cup {EventTurn(e) : e \in outbox}) =
          HandledBy(ToSet(mailbox)) \cup HandledBy({EventTurn(e) : e \in outbox})
    BY HandledByCup
  <2>2. HandledBy({EventTurn(e) : e \in outbox}) = outbox
    BY <1>5, HandledByEvents
  <2>3. MailEvents' = outbox
    BY <1>5, <1>7, <2>1, <2>2 DEF MailEvents
  <2> QED
    BY <1>2, <1>13, <2>3 DEF MailAccount, durable
<1>18. SettleAccount'
  BY <1>2, <1>5, <1>13 DEF BusInv, SettleAccount, ResolvedIsDurable, NotifiedIsDurable, Handled, durable, callers
<1> QED
  BY <1>10, <1>11, <1>12, <1>14, <1>15, <1>16, <1>17, <1>18 DEF BusInv

-----------------------------------------------------------------------------
(* The invariant.                                                          *)

LEMMA NextKeeps == ASSUME BusInv, [Next]_vars PROVE BusInv'
<1>1. CASE LoopStep
  BY <1>1, LoopMovesKeep, LoadReactorsKeeps, ReplayOutboxKeeps, ReactKeeps,
     MidBatchFailureKeeps, ReactFailureKeeps, ConsumeDeadEventKeeps, CommitSucceedsKeeps,
     AfterCommitKeeps, BootKeeps DEF LoopStep
<1>2. CASE LoadFails \/ TransientReactFailure \/ CommitFails \/ Activate \/ Crash
  BY <1>2, LoadFailsKeeps, TransientReactFailureKeeps, CommitFailsKeeps, LoopMovesKeep,
     CrashKeeps
<1>3. CASE \E c \in Command : EnqueueCommand(c)
  BY <1>3, EnqueueCommandKeeps
<1>4. CASE \E k \in Completion : Submit(k)
  BY <1>4, SubmitKeeps
<1>5. CASE UNCHANGED vars
  BY <1>5, StutterKeeps
<1> QED
  BY <1>1, <1>2, <1>3, <1>4, <1>5 DEF Next

\* The inductive invariant of the bus: mailbox, open batch and warm store
\* account for the committed rows at every point of the loop, for any workload,
\* any batch bound and any number of failures and crashes.
THEOREM BusInvariant == Spec => []BusInv
<1>1. Init => BusInv
  BY InitBusInv
<1>2. BusInv /\ [Next]_vars => BusInv'
  BY NextKeeps
<1> QED
  BY <1>1, <1>2, PTL DEF Spec

\* Every variable keeps its type, the retry counters their bound.
THEOREM TypeCorrect == Spec => []TypeOK
<1>1. BusInv => TypeOK
  BY DEF BusInv
<1> QED
  BY <1>1, BusInvariant, PTL

\* Exactly-once: no turn's effects are committed twice.
THEOREM ExactlyOnce == Spec => []AppliedOnce
<1>1. BusInv => AppliedOnce
  BY DEF BusInv, RowsConsistent
<1> QED
  BY <1>1, BusInvariant, PTL

\* An event sent by committed work is a row, handled or dead: never lost, never
\* two of these.
THEOREM NoEventLost == Spec => []NothingLost
<1>1. BusInv => NothingLost
  BY DEF BusInv, RowsConsistent
<1> QED
  BY <1>1, BusInvariant, PTL

\* A resolved command is durable.
THEOREM ResolvedDurable == Spec => []ResolvedIsDurable
<1>1. BusInv => ResolvedIsDurable
  BY DEF BusInv, SettleAccount
<1> QED
  BY <1>1, BusInvariant, PTL

\* Post-commit side effects ran for committed events only.
THEOREM NotifiedDurable == Spec => []NotifiedIsDurable
<1>1. BusInv => NotifiedIsDurable
  BY DEF BusInv, SettleAccount
<1> QED
  BY <1>1, BusInvariant, PTL

\* The run trace is what the committed turns sent, each event once.
THEOREM JournalComplete == Spec => []JournalIsTrace
<1>1. BusInv => JournalIsTrace
  BY DEF BusInv, RowsConsistent
<1> QED
  BY <1>1, BusInvariant, PTL

\* Only poison is ever discarded.
THEOREM DropsOnlyPoison == Spec => []OnlyPoisonDropped
<1>1. BusInv => OnlyPoisonDropped
  BY DEF BusInv, RowsConsistent
<1> QED
  BY <1>1, BusInvariant, PTL

\* No outbox row is stranded while the actor is loaded.
THEOREM NoRowStranded == Spec => []EveryRowScheduled
<1>1. ASSUME BusInv PROVE EveryRowScheduled
  <2> SUFFICES ASSUME loaded, NEW e \in outbox
               PROVE  \/ EventTurn(e) \in ToSet(mailbox)
                      \/ e \in ToSet(batch.consumed) \/ e \in doomed
    BY DEF EveryRowScheduled
  <2>1. e \in MailEvents \/ e \in ToSet(batch.consumed) \/ e \in doomed
    BY <1>1 DEF BusInv, MailAccount
  <2> QED
    BY <2>1 DEF MailEvents, HandledBy
<1> QED
  BY <1>1, BusInvariant, PTL

\* Between batches the warm store is exactly what the rows hold.
THEOREM WarmMatchesRows == Spec => []WarmIsDurable
<1>1. BusInv => WarmIsDurable
  BY DEF BusInv, LoopShape, WarmAhead, WarmIsDurable, WarmValid
<1> QED
  BY <1>1, BusInvariant, PTL

-----------------------------------------------------------------------------
(* The bus implements EventDelivery.                                       *)

\* A change of the rows that gives nothing up is a Perform, or invisible.
LEMMA RowsStep ==
  ASSUME RowsConsistent, RowsConsistent', TypeOK, TypeOK',
         ToSet(history) \subseteq ToSet(history'), dead' = dead
  PROVE  [Delivery!Next]_(Delivery!vars)
<1> DEFINE new == ToSet(history') \ ToSet(history)
<1>1. /\ ToSet(journal) = SentBy(ToSet(history)) /\ ToSet(journal') = SentBy(ToSet(history'))
      /\ SentBy(ToSet(history')) = outbox' \cup Handled' \cup dead' /\ Handled' \cap dead' = {}
      /\ ToSet(history') \cap Poison = {}
  BY DEF RowsConsistent, JournalIsTrace, NothingLost
<1>2. CASE new = {}
  <2>1. ToSet(history') = ToSet(history)
    BY <1>2
  <2>2. ToSet(journal') = ToSet(journal)
    BY <1>1, <2>1
  <2> QED
    BY <2>1, <2>2 DEF Delivery!vars
<1>3. CASE new # {}
  <2>1. SentBy(ToSet(history')) = SentBy(ToSet(history)) \cup SentBy(new)
    <3>1. ToSet(history') = ToSet(history) \cup new
      OBVIOUS
    <3> QED
      BY <3>1, SentByCup
  <2>2. \A e \in Event : EventTurn(e) \in new => e \in ToSet(journal') \ dead'
    BY <1>1 DEF Handled, HandledBy
  <2>3. \A e \in Event : [f \in Event |-> EventTurn(f)][e] = EventTurn(e)
    OBVIOUS
  <2>4. Delivery!Perform(new)
    BY <1>1, <1>3, <2>1, <2>2, <2>3 DEF Delivery!Perform
  <2> QED
    BY <2>4 DEF Delivery!Next
<1> QED
  BY <1>2, <1>3

LEMMA GiveUpStep == ASSUME BusInv, ConsumeDeadEvent, dead' # dead PROVE Delivery!Next
<1>1. PICK e \in outbox : doomed = {e} /\ EventTurn(e) \in Poison
  BY DEF ConsumeDeadEvent, BusInv, LoopShape
<1>2. dead' = dead \cup {e} /\ history' = history /\ journal' = journal
  BY <1>1 DEF ConsumeDeadEvent
<1>3. e \in ToSet(journal) \ dead /\ EventTurn(e) \notin ToSet(history) /\ e \in Event
  BY <1>1 DEF BusInv, TypeOK, RowsConsistent, JournalIsTrace, NothingLost
<1>4. [f \in Event |-> EventTurn(f)][e] = EventTurn(e)
  BY <1>3
<1>5. Delivery!GiveUp(e)
  BY <1>1, <1>2, <1>3, <1>4 DEF Delivery!GiveUp
<1> QED
  BY <1>3, <1>5 DEF Delivery!Next

LEMMA DeliveryStep ==
  ASSUME BusInv, BusInv', [Next]_vars
  PROVE  [Delivery!Next]_(Delivery!vars)
<1>1. RowsConsistent /\ RowsConsistent' /\ TypeOK /\ TypeOK'
  BY DEF BusInv
<1>2. CASE ConsumeDeadEvent
  <2>1. ToSet(history) \subseteq ToSet(history')
    BY <1>2 DEF ConsumeDeadEvent
  <2> QED
    BY <1>1, <1>2, <2>1, RowsStep, GiveUpStep
<1>3. CASE CommitSucceeds \/ CommitFails
  <2>1. ToSet(history) \subseteq ToSet(history') /\ dead' = dead
    BY <1>3, CommitRows DEF CommitSucceeds, CommitFails, CommitBatch, durable
  <2> QED
    BY <1>1, <2>1, RowsStep
<1>4. CASE UNCHANGED durable
  BY <1>1, <1>4, RowsStep DEF durable
<1>5. \A c \in Command : EnqueueCommand(c) => UNCHANGED durable
  BY DEF EnqueueCommand
<1>6. \A k \in Completion : Submit(k) => UNCHANGED durable
  BY DEF Submit
<1>7. SkipLoad \/ LoadReactors \/ ReplayOutbox \/ React \/ MidBatchFailure \/ ReactFailure
      \/ GoIdle \/ EndReactLoop \/ AfterCommit \/ BackoffElapsed \/ Boot => UNCHANGED durable
  BY DEF SkipLoad, LoadReactors, ReplayOutbox, React, MidBatchFailure, ReactFailure,
         GoIdle, EndReactLoop, AfterCommit, BackoffElapsed, Boot, Wipe
<1>8. LoadFails \/ TransientReactFailure \/ Activate \/ Crash \/ UNCHANGED vars
        => UNCHANGED durable
  BY DEF LoadFails, TransientReactFailure, Activate, Crash, Wipe, vars
<1> QED
  BY <1>2, <1>3, <1>4, <1>5, <1>6, <1>7, <1>8 DEF Next, LoopStep

\* The committed rows behave as if turns took effect atomically and once, only
\* sent events were handled, and only poison was given up; failures, replays
\* and restarts are invisible.
THEOREM BusImplementsDelivery == Spec => DeliverySpec
<1>1. Init => Delivery!Init
  BY ToSetEmpty DEF Init, Delivery!Init
<1>2. BusInv /\ BusInv' /\ [Next]_vars => [Delivery!Next]_(Delivery!vars)
  BY DeliveryStep
<1> QED
  BY <1>1, <1>2, BusInvariant, PTL DEF Spec, DeliverySpec, Delivery!Spec

-----------------------------------------------------------------------------
(* The order in which events take effect.                                  *)

\* The events of a sequence of turns come in the order of L.
Ordered(turns, L) ==
  \A e, f \in Event : Precedes(turns, EventTurn(e), EventTurn(f)) => Precedes(L, e, f)

\* Everything sent so far: the journal, and what the open batch adds to it.
Line == IF pump = "committed" THEN journal ELSE journal \o batch.journal

\* A row's ordinal is the place of its event in the journal.
RowsInPlace == \A e \in outbox : ordinal[e] \in DOMAIN journal /\ journal[ordinal[e]] = e

\* What the rows still hold was sent behind all that is handled.
HandledAhead == \A e \in Handled : \A f \in outbox : Precedes(journal, e, f)

\* The committed turns are in order, and so are the turns of the warm store
\* followed by those that wait in the mailbox.
OrderInv ==
  /\ Ordered(history, journal)
  /\ RowsInPlace
  /\ HandledAhead
  /\ WarmValid => Ordered(warm \o mailbox, Line)
-----------------------------------------------------------------------------
(* Order and the turns of events.                                          *)

LEMMA HasToSet == ASSUME NEW s, NEW x PROVE Has(s, x) <=> x \in ToSet(s)
BY DEF Has, ToSet

LEMMA HandledHas ==
  ASSUME NEW s, NEW e \in Event
  PROVE  e \in HandledBy(ToSet(s)) <=> Has(s, EventTurn(e))
BY HasToSet DEF HandledBy

LEMMA EventTurnsOrder ==
  ASSUME NEW s \in Seq(Event), NEW e \in Event, NEW f \in Event
  PROVE  /\ Has(EventTurns(s), EventTurn(e)) <=> Has(s, e)
         /\ Precedes(EventTurns(s), EventTurn(e), EventTurn(f)) <=> Precedes(s, e, f)
<1>1. /\ EventTurns(s) \in Seq(Turn) /\ Len(EventTurns(s)) = Len(s)
      /\ \A i \in 1..Len(s) : EventTurns(s)[i] = EventTurn(s[i])
  BY ToSetEventTurns
<1>2. DOMAIN EventTurns(s) = 1..Len(s) /\ DOMAIN s = 1..Len(s) /\ Len(s) \in Nat
  BY <1>1
<1>3. \A i \in 1..Len(s) : s[i] \in Event
  OBVIOUS
<1>4. \A x, y \in Event : EventTurn(x) = EventTurn(y) <=> x = y
  BY DEF EventTurn
<1>5. \A i \in 1..Len(s) : /\ EventTurns(s)[i] = EventTurn(e) <=> s[i] = e
                           /\ EventTurns(s)[i] = EventTurn(f) <=> s[i] = f
  BY <1>1, <1>3, <1>4
<1>6. Has(EventTurns(s), EventTurn(e)) <=> Has(s, e)
  BY <1>2, <1>5 DEF Has
<1>7. Precedes(EventTurns(s), EventTurn(e), EventTurn(f)) <=> Precedes(s, e, f)
  BY <1>2, <1>5 DEF Precedes
<1> QED
  BY <1>6, <1>7

LEMMA NoEventTurn ==
  ASSUME NEW t \in Turn, t.kind # "event"
  PROVE  \A e \in Event : EventTurn(e) # t
BY TurnKinds

LEMMA OrderInOnePlace ==
  ASSUME NEW L, NEW e, NEW f, IsInjective(L), Precedes(L, e, f),
         NEW k \in DOMAIN L, NEW l \in DOMAIN L, L[k] = e, L[l] = f
  PROVE  k < l
BY DEF Precedes, IsInjective

\* The order of the committed turns is what HandledInOrder asks for.
LEMMA OrderGivesProperty ==
  ASSUME BusInv, OrderInv PROVE HandledInOrder
<1> SUFFICES ASSUME NEW i \in DOMAIN history, NEW j \in DOMAIN history,
                    NEW k \in DOMAIN journal, NEW l \in DOMAIN journal,
                    i < j, history[i] = EventTurn(journal[k]),
                    history[j] = EventTurn(journal[l])
             PROVE  k < l
  BY DEF HandledInOrder
<1>1. journal \in Seq(Event) /\ IsInjective(journal)
  BY DEF BusInv, TypeOK, RowsConsistent, JournalIsTrace
<1>2. journal[k] \in Event /\ journal[l] \in Event
  BY <1>1
<1>3. Precedes(history, EventTurn(journal[k]), EventTurn(journal[l]))
  BY DEF Precedes
<1>4. Precedes(journal, journal[k], journal[l])
  BY <1>2, <1>3 DEF OrderInv, Ordered
<1> QED
  BY <1>1, <1>4, OrderInOnePlace
-----------------------------------------------------------------------------
(* Steps that leave the rows alone.                                        *)

LEMMA InitOrder == Init => OrderInv
<1> SUFFICES ASSUME Init PROVE OrderInv
  OBVIOUS
<1>1. history = << >> /\ journal = << >> /\ outbox = {} /\ ~WarmValid
  BY DEF Init, WarmValid
<1>2. Ordered(history, journal)
  BY <1>1, OrderEmpty DEF Ordered
<1> QED
  BY <1>1, <1>2 DEF OrderInv, RowsInPlace, HandledAhead

\* The warm state is gone, or not to be relied upon.
LEMMA ColdOrder ==
  ASSUME OrderInv, UNCHANGED <<outbox, ordinal, history, journal>>, ~WarmValid'
  PROVE  OrderInv'
<1>1. Handled' = Handled
  BY DEF Handled
<1> QED
  BY <1>1 DEF OrderInv, Ordered, RowsInPlace, HandledAhead

LEMMA DropCold ==
  ASSUME NEW turns, NEW queue, NEW next, DropWarm(turns, queue, next)
  PROVE  ~WarmValid'
BY DEF DropWarm, WarmValid

LEMMA RetryableCold ==
  ASSUME NEW turns, NEW consumed, RetryableFailure(turns, consumed)
  PROVE  ~WarmValid'
BY DropCold DEF RetryableFailure, Reload

\* The warm store and the mailbox hold the same events in the same order.
LEMMA WarmOrder ==
  ASSUME OrderInv, UNCHANGED <<outbox, ordinal, history, journal>>,
         WarmValid' => WarmValid /\ Ordered((warm \o mailbox)', Line')
  PROVE  OrderInv'
<1>1. Handled' = Handled
  BY DEF Handled
<1> QED
  BY <1>1 DEF OrderInv, Ordered, RowsInPlace, HandledAhead

LEMMA MoveOrder ==
  ASSUME OrderInv, UNCHANGED <<outbox, ordinal, history, journal, mailbox, loaded, warm, batch>>,
         pump' = pump \/ {pump, pump'} \subseteq {"idle", "loading", "reacting", "committing"}
  PROVE  OrderInv'
<1>1. Line' = Line
  BY DEF Line
<1>2. WarmValid' => WarmValid
  BY DEF WarmValid
<1>3. WarmValid' => Ordered((warm \o mailbox)', Line')
  BY <1>1, <1>2 DEF OrderInv, Ordered
<1> QED
  BY <1>2, <1>3, WarmOrder
-----------------------------------------------------------------------------
(* New work and a turn.                                                    *)

LEMMA ConcatAssociative ==
  ASSUME NEW a \in Seq(Event), NEW b \in Seq(Event), NEW c \in Seq(Event)
  PROVE  a \o (b \o c) = (a \o b) \o c
<1>1. /\ Len(a) \in Nat /\ Len(b) \in Nat /\ Len(c) \in Nat
      /\ a \o b \in Seq(Event) /\ b \o c \in Seq(Event)
      /\ Len(a \o b) = Len(a) + Len(b) /\ Len(b \o c) = Len(b) + Len(c)
  OBVIOUS
<1>2. /\ a \o (b \o c) \in Seq(Event) /\ (a \o b) \o c \in Seq(Event)
      /\ Len(a \o (b \o c)) = Len(a) + Len(b) + Len(c)
      /\ Len((a \o b) \o c) = Len(a) + Len(b) + Len(c)
  BY <1>1
<1>3. ASSUME NEW i \in 1..(Len(a) + Len(b) + Len(c))
      PROVE  (a \o (b \o c))[i] = ((a \o b) \o c)[i]
  <2>1. CASE i <= Len(a)
    BY <1>1, <2>1
  <2>2. CASE i > Len(a) /\ i <= Len(a) + Len(b)
    BY <1>1, <2>2
  <2>3. CASE i > Len(a) + Len(b)
    BY <1>1, <2>3
  <2> QED
    BY <1>1, <2>1, <2>2, <2>3
<1> QED
  BY <1>2, <1>3

LEMMA SeqTypes ==
  ASSUME BusInv
  PROVE  /\ history \in Seq(Turn) /\ warm \in Seq(Turn) /\ mailbox \in Seq(Turn)
         /\ journal \in Seq(Event) /\ batch.journal \in Seq(Event)
         /\ journal \o batch.journal \in Seq(Event) /\ Line \in Seq(Event)
         /\ warm \o mailbox \in Seq(Turn)
BY DEF BusInv, TypeOK, Line

\* A turn that is no event's joins the mailbox.
LEMMA IssueOrder ==
  ASSUME BusInv, OrderInv, NEW t \in Turn, t.kind # "event", mailbox' = Append(mailbox, t),
         UNCHANGED <<outbox, ordinal, history, journal, loaded, warm, batch>>,
         pump # "exited", Wake
  PROVE  OrderInv'
<1>1. /\ pump' = pump \/ (pump = "idle" /\ pump' = "loading")
  BY DEF Wake
<1>2. Line' = Line /\ (WarmValid' => WarmValid)
  BY <1>1 DEF Line, WarmValid
<1>3. ASSUME WarmValid PROVE Ordered((warm \o mailbox)', Line')
  <2>1. warm' \o mailbox' = Append(warm \o mailbox, t) /\ warm \o mailbox \in Seq(Turn)
    BY SeqTypes
  <2> SUFFICES ASSUME NEW e \in Event, NEW f \in Event,
                      Precedes(warm' \o mailbox', EventTurn(e), EventTurn(f))
               PROVE  Precedes(Line', e, f)
    BY DEF Ordered
  <2>2. Precedes(warm \o mailbox, EventTurn(e), EventTurn(f))
    <3>1. EventTurn(f) # t
      BY NoEventTurn
    <3> DEFINE q == warm \o mailbox
    <3>2. q \in Seq(Turn) /\ Precedes(Append(q, t), EventTurn(e), EventTurn(f))
      BY <2>1
    <3> HIDE DEF q
    <3>3. Precedes(q, EventTurn(e), EventTurn(f))
      BY <3>1, <3>2, OrderAppend
    <3> QED
      BY <3>3 DEF q
  <2> QED
    BY <1>2, <1>3, <2>2 DEF OrderInv, Ordered
<1> QED
  BY <1>2, <1>3, WarmOrder

\* The head of the mailbox moves to the end of the warm store, what it sends
\* to the end of the mailbox and of the line.
LEMMA ReactOrder ==
  ASSUME BusInv, OrderInv, React PROVE OrderInv'
<1> DEFINE t == Head(mailbox)
           new == EventTurns(NextSends)
<1>1. /\ batch'.journal = batch.journal \o NextSends
      /\ mailbox' = Tail(mailbox) \o new
      /\ warm' = (IF Effective(t) THEN Append(warm, t) ELSE warm)
      /\ mailbox # << >> /\ pump = "reacting"
      /\ UNCHANGED <<outbox, ordinal, history, journal, pump>>
  BY ReactBatch DEF durable
<1>2. /\ WarmValid /\ NextSends \in Seq(Event)
      /\ MailEvents \subseteq ToSet(journal) \cup ToSet(batch.journal)
      /\ HandledBy(ToSet(warm)) \subseteq ToSet(journal) \cup ToSet(batch.journal)
  BY <1>1, NextSendsFresh
<1>3. t \in Turn /\ Tail(mailbox) \in Seq(Turn) /\ t = mailbox[1]
  BY <1>1, NextTurn
<1>4. new \in Seq(Turn)
  BY <1>2, ToSetEventTurns
<1>5. /\ warm \in Seq(Turn) /\ mailbox \in Seq(Turn) /\ warm' \in Seq(Turn)
      /\ mailbox' \in Seq(Turn)
      /\ Line = journal \o batch.journal /\ Line' = Line \o NextSends
      /\ Line \in Seq(Event)
  <2>1. journal \in Seq(Event) /\ batch.journal \in Seq(Event)
    BY SeqTypes
  <2>2. Line = journal \o batch.journal /\ Line' = journal \o (batch.journal \o NextSends)
    BY <1>1 DEF Line
  <2>3. journal \o (batch.journal \o NextSends) = (journal \o batch.journal) \o NextSends
    <3>1. \A a, b, c \in Seq(Event) : a \o (b \o c) = (a \o b) \o c
      BY SMTT(30), ConcatAssociative
    <3>2. NextSends \in Seq(Event)
      BY <1>2
    <3> QED
      BY <3>1, <3>2, <2>1, Zenon
  <2> QED
    BY <1>1, <1>3, <1>4, <2>1, <2>2, <2>3, SeqTypes
<1> SUFFICES ASSUME NEW e \in Event, NEW f \in Event,
                    Precedes(warm' \o mailbox', EventTurn(e), EventTurn(f))
             PROVE  Precedes(Line', e, f)
  BY <1>1, <1>2, WarmOrder DEF Ordered
<1> DEFINE x == EventTurn(e)
           y == EventTurn(f)
<1>6. \/ Precedes(warm', x, y) \/ Precedes(mailbox', x, y)
      \/ Has(warm', x) /\ Has(mailbox', y)
  BY <1>5, OrderConcat
<1>7. /\ Has(mailbox', y) => Has(Tail(mailbox), y) \/ Has(NextSends, f)
      /\ Precedes(mailbox', x, y) =>
           \/ Precedes(Tail(mailbox), x, y) \/ Precedes(NextSends, e, f)
           \/ Has(Tail(mailbox), x) /\ Has(NextSends, f)
  BY <1>1, <1>2, <1>3, <1>4, OrderConcat, EventTurnsOrder
<1>8. /\ Has(warm', x) => Has(warm, x) \/ x = t
      /\ Precedes(warm', x, y) => Precedes(warm, x, y) \/ (Has(warm, x) /\ y = t)
  <2>1. CASE Effective(t)
    <3>1. warm' = Append(warm, t)
      BY <1>1, <2>1
    <3>2. /\ Has(Append(warm, t), x) <=> Has(warm, x) \/ x = t
          /\ Precedes(Append(warm, t), x, y) <=> Precedes(warm, x, y) \/ (Has(warm, x) /\ y = t)
      BY <1>3, <1>5, OrderAppend
    <3> QED
      BY <3>1, <3>2
  <2>2. CASE ~Effective(t)
    BY <1>1, <2>2
  <2> QED
    BY <2>1, <2>2
<1>9. /\ Has(mailbox, y) <=> y = t \/ Has(Tail(mailbox), y)
      /\ Has(mailbox, x) <=> x = t \/ Has(Tail(mailbox), x)
      /\ Precedes(mailbox, x, y) <=> (x = t /\ Has(Tail(mailbox), y)) \/ Precedes(Tail(mailbox), x, y)
  BY <1>1, <1>3, <1>5, OrderTail
<1>10. Precedes(warm \o mailbox, x, y) <=>
         Precedes(warm, x, y) \/ Precedes(mailbox, x, y) \/ (Has(warm, x) /\ Has(mailbox, y))
  BY <1>5, OrderConcat
<1>11. Precedes(warm \o mailbox, x, y) => Precedes(Line, e, f)
  BY <1>2 DEF OrderInv, Ordered
<1>12. Has(warm, x) \/ Has(mailbox, x) => Has(Line, e)
  <2>1. Has(warm, x) => e \in HandledBy(ToSet(warm))
    BY HandledHas
  <2>2. Has(mailbox, x) => e \in MailEvents
    BY HandledHas DEF MailEvents
  <2>3. ToSet(Line) = ToSet(journal) \cup ToSet(batch.journal)
    BY <1>5, SeqTypes, ToSetConcat
  <2> QED
    BY <1>2, <2>1, <2>2, <2>3, HasToSet
<1>13. \/ Precedes(Line, e, f) \/ Precedes(NextSends, e, f)
       \/ Has(Line, e) /\ Has(NextSends, f)
  BY <1>6, <1>7, <1>8, <1>9, <1>10, <1>11, <1>12
<1> QED
  BY <1>2, <1>5, <1>13, OrderConcat
-----------------------------------------------------------------------------
(* The commit and the load.                                                *)

\* A commit makes the warm store's turns durable, with what was sent so far.
LEMMA CommitOrder ==
  ASSUME BusInv, OrderInv, pump = "committing", CommitBatch
  PROVE  /\ Ordered(history', journal') /\ RowsInPlace' /\ HandledAhead'
         /\ journal' = journal \o batch.journal /\ Ordered(warm \o mailbox, journal')
<1>1. /\ history' = warm /\ journal' = journal \o batch.journal
      /\ outbox' = (outbox \ ToSet(batch.consumed)) \cup batch.pending
      /\ ordinal' = [e \in Event |-> IF e \in batch.pending THEN Len(journal) + Place(e)
                                                            ELSE ordinal[e]]
  BY DEF CommitBatch
<1>2. /\ journal \in Seq(Event) /\ batch.journal \in Seq(Event)
      /\ warm \in Seq(Turn) /\ mailbox \in Seq(Turn)
  BY SeqTypes
<1>3. WarmValid /\ loaded
  BY DEF BusInv, LoopShape, WarmValid
<1>4. Ordered(warm \o mailbox, journal')
  BY <1>1, <1>3 DEF OrderInv, Line
<1>5. Ordered(history', journal')
  <2> SUFFICES ASSUME NEW e \in Event, NEW f \in Event,
                      Precedes(warm, EventTurn(e), EventTurn(f))
               PROVE  Precedes(journal', e, f)
    BY <1>1 DEF Ordered
  <2>1. Precedes(warm \o mailbox, EventTurn(e), EventTurn(f))
    BY <1>2, OrderConcat
  <2> QED
    BY <1>4, <2>1 DEF Ordered
<1>6. RowsInPlace'
  <2> SUFFICES ASSUME NEW e \in outbox'
               PROVE  ordinal'[e] \in DOMAIN journal' /\ journal'[ordinal'[e]] = e
    BY DEF RowsInPlace
  <2>1. e \in Event
    BY <1>1 DEF BusInv, TypeOK
  <2>2. CASE e \in batch.pending
    <3>1. e \in ToSet(batch.journal)
      BY <2>2 DEF BusInv, BatchAccount
    <3>2. \E i \in DOMAIN batch.journal : batch.journal[i] = e
      BY <3>1 DEF ToSet
    <3>3. Place(e) \in DOMAIN batch.journal /\ batch.journal[Place(e)] = e
      BY <3>2 DEF Place
    <3>4. ordinal'[e] = Len(journal) + Place(e)
      BY <1>1, <2>1, <2>2
    <3> QED
      BY SMTT(30), <1>1, <1>2, <3>3, <3>4
  <2>3. CASE e \notin batch.pending
    <3>1. e \in outbox /\ ordinal'[e] = ordinal[e]
      BY <1>1, <2>1, <2>3
    <3>2. ordinal[e] \in DOMAIN journal /\ journal[ordinal[e]] = e
      BY <3>1 DEF OrderInv, RowsInPlace
    <3> QED
      BY <1>1, <1>2, <3>1, <3>2
  <2> QED
    BY <2>2, <2>3
<1>7. HandledAhead'
  <2> SUFFICES ASSUME NEW e \in Handled', NEW f \in outbox'
               PROVE  Precedes(journal', e, f)
    BY DEF HandledAhead
  <2>1. e \in Event /\ Has(warm, EventTurn(e))
    BY <1>1, HandledHas DEF Handled, HandledBy
  <2>2. f \in MailEvents
    BY <1>1, <1>3 DEF BusInv, MailAccount
  <2>3. f \in Event /\ Has(mailbox, EventTurn(f))
    BY <2>2, HandledHas DEF MailEvents, HandledBy
  <2>4. Precedes(warm \o mailbox, EventTurn(e), EventTurn(f))
    BY <1>2, <2>1, <2>3, OrderConcat
  <2> QED
    BY <1>4, <2>1, <2>3, <2>4 DEF Ordered
<1> QED
  BY <1>1, <1>4, <1>5, <1>6, <1>7

\* The undrained rows join the mailbox in the order of their ordinals.
LEMMA ReplayOrder ==
  ASSUME BusInv, OrderInv, ReplayOutbox PROVE OrderInv'
<1> PICK s \in SetToSeqs(outbox) : InOrdinalOrder(s) /\ mailbox' = mailbox \o EventTurns(s)
  BY DEF ReplayOutbox
<1>1. /\ pump = "replaying" /\ pump' = "reacting"
      /\ UNCHANGED <<outbox, ordinal, history, journal, warm, batch>>
  BY DEF ReplayOutbox, durable
<1>2. warm = history /\ ~loaded /\ batch = NoBatch
  BY <1>1 DEF BusInv, LoopShape, WarmAhead
<1>3. MailEvents = {}
  BY <1>2 DEF BusInv, MailAccount
<1>4. s \in Seq(Event) /\ ToSet(s) = outbox
  BY OutboxRows
<1>5. /\ history \in Seq(Turn) /\ mailbox \in Seq(Turn) /\ EventTurns(s) \in Seq(Turn)
      /\ mailbox' \in Seq(Turn)
  BY <1>4, SeqTypes, ToSetEventTurns
<1>6. Line' = journal
  BY <1>1, <1>2, SeqTypes DEF Line, NoBatch
<1>7. Ordered((warm \o mailbox)', Line')
  <2> SUFFICES ASSUME NEW e \in Event, NEW f \in Event,
                      Precedes(history \o mailbox', EventTurn(e), EventTurn(f))
               PROVE  Precedes(journal, e, f)
    BY <1>1, <1>2, <1>6 DEF Ordered
  <2> DEFINE x == EventTurn(e)
             y == EventTurn(f)
  <2>1. \/ Precedes(history, x, y) \/ Precedes(mailbox', x, y)
        \/ Has(history, x) /\ Has(mailbox', y)
    BY <1>5, OrderConcat
  <2>2. ~Has(mailbox, x) /\ ~Has(mailbox, y)
    BY <1>3, HandledHas DEF MailEvents
  <2>3. /\ Has(mailbox', y) => Has(s, f)
        /\ Precedes(mailbox', x, y) => Precedes(s, e, f)
    <3>1. ~Precedes(mailbox, x, y)
      BY <2>2, OrderHas
    <3> QED
      BY <1>4, <1>5, <2>2, <3>1, OrderConcat, EventTurnsOrder
  <2>4. CASE Precedes(history, x, y)
    BY <2>4 DEF OrderInv, Ordered
  <2>5. CASE Has(history, x) /\ Has(mailbox', y)
    <3>1. e \in Handled
      BY <2>5, HandledHas DEF Handled
    <3>2. f \in outbox
      BY <1>4, <2>3, <2>5, HasToSet
    <3> QED
      BY <3>1, <3>2 DEF OrderInv, HandledAhead
  <2>6. CASE Precedes(mailbox', x, y)
    <3>1. PICK i, j \in DOMAIN s : i < j /\ s[i] = e /\ s[j] = f
      BY <2>3, <2>6 DEF Precedes
    <3>2. ordinal[e] < ordinal[f]
      BY <3>1 DEF InOrdinalOrder
    <3>3. e \in outbox /\ f \in outbox
      BY <1>4, <3>1 DEF ToSet
    <3>4. /\ ordinal[e] \in DOMAIN journal /\ journal[ordinal[e]] = e
          /\ ordinal[f] \in DOMAIN journal /\ journal[ordinal[f]] = f
      BY <3>3 DEF OrderInv, RowsInPlace
    <3> QED
      BY <3>2, <3>4 DEF Precedes
  <2> QED
    BY <2>1, <2>4, <2>5, <2>6
<1>8. Handled' = Handled
  BY <1>1 DEF Handled
<1> QED
  BY <1>1, <1>7, <1>8 DEF OrderInv, Ordered, RowsInPlace, HandledAhead
\* Commit, in either outcome, and what follows it.
LEMMA CommitSucceedsOrder ==
  ASSUME BusInv, OrderInv, CommitSucceeds PROVE OrderInv'
<1>1. /\ pump = "committing" /\ CommitBatch /\ pump' = "committed"
      /\ UNCHANGED <<warm, mailbox>>
  BY DEF CommitSucceeds
<1>2. Line' = journal'
  BY <1>1 DEF Line
<1> QED
  BY <1>1, <1>2, CommitOrder DEF OrderInv, Ordered

LEMMA CommitFailsOrder ==
  ASSUME BusInv, OrderInv, CommitFails PROVE OrderInv'
<1>1. ~WarmValid' /\ pump = "committing"
  BY RetryableCold DEF CommitFails
<1>2. CASE CommitBatch
  BY <1>1, <1>2, CommitOrder DEF OrderInv
<1>3. CASE UNCHANGED durable
  BY <1>1, <1>3, ColdOrder DEF durable
<1> QED
  BY <1>2, <1>3 DEF CommitFails

LEMMA AfterCommitOrder ==
  ASSUME BusInv, OrderInv, AfterCommit PROVE OrderInv'
<1>1. /\ pump = "committed" /\ pump' = "reacting" /\ batch' = NoBatch
      /\ UNCHANGED <<outbox, ordinal, history, journal, mailbox, loaded, warm>>
  BY DEF AfterCommit, durable
<1>2. Line = journal /\ Line' = journal
  BY <1>1, SeqTypes DEF Line, NoBatch
<1>3. WarmValid /\ Ordered(warm \o mailbox, journal)
  BY <1>1, <1>2 DEF OrderInv, BusInv, LoopShape, WarmValid
<1> QED
  BY <1>1, <1>2, <1>3, WarmOrder DEF Ordered

\* A dead event leaves the rows; the order of the others stays.
LEMMA ConsumeDeadEventOrder ==
  ASSUME BusInv, OrderInv, ConsumeDeadEvent PROVE OrderInv'
<1>1. /\ outbox' \subseteq outbox /\ UNCHANGED <<ordinal, history, journal>>
      /\ ~WarmValid'
  BY DropCold DEF ConsumeDeadEvent
<1>2. Handled' = Handled
  BY <1>1 DEF Handled
<1> QED
  BY <1>1, <1>2 DEF OrderInv, Ordered, RowsInPlace, HandledAhead

LEMMA ReactFailureOrder ==
  ASSUME OrderInv, ReactFailure PROVE OrderInv'
<1>1. UNCHANGED <<outbox, ordinal, history, journal>>
  BY DEF ReactFailure, durable
<1>2. ~WarmValid'
  <2>1. CASE Head(mailbox).kind = "event"
    BY <2>1 DEF ReactFailure, WarmValid
  <2>2. CASE Head(mailbox).kind # "event"
    BY <2>2, DropCold DEF ReactFailure, Reload
  <2> QED
    BY <2>1, <2>2
<1> QED
  BY <1>1, <1>2, ColdOrder

\* The other failures, a crash and a boot: the rows stay, the warm state goes.
LEMMA FailureOrder ==
  ASSUME BusInv, OrderInv,
         \/ MidBatchFailure \/ TransientReactFailure \/ LoadFails
         \/ Crash \/ Boot \/ LoadReactors
  PROVE  OrderInv'
<1>1. UNCHANGED <<outbox, ordinal, history, journal>>
  BY DEF MidBatchFailure, TransientReactFailure, LoadFails, Crash, Boot, LoadReactors, Wipe, durable
<1>2. ~WarmValid'
  <2>1. CASE MidBatchFailure
    BY <2>1, DropCold DEF MidBatchFailure, Reload
  <2>2. CASE TransientReactFailure
    BY <2>2, RetryableCold DEF TransientReactFailure
  <2>3. CASE LoadFails \/ LoadReactors \/ Crash \/ Boot
    BY <2>3 DEF LoadFails, LoadReactors, Crash, Boot, Wipe, WarmValid
  <2> QED
    BY <2>1, <2>2, <2>3
<1> QED
  BY <1>1, <1>2, ColdOrder
-----------------------------------------------------------------------------
(* The invariant.                                                          *)

LEMMA OrderStep == ASSUME BusInv, OrderInv, [Next]_vars PROVE OrderInv'
<1>1. CASE SkipLoad \/ GoIdle \/ EndReactLoop \/ Activate \/ BackoffElapsed
  <2>1. UNCHANGED <<outbox, ordinal, history, journal, mailbox, loaded, warm, batch>>
    BY <1>1 DEF SkipLoad, GoIdle, EndReactLoop, Activate, BackoffElapsed, durable
  <2>2. pump' = pump \/ {pump, pump'} \subseteq {"idle", "loading", "reacting", "committing"}
    BY <1>1 DEF SkipLoad, GoIdle, EndReactLoop, Activate, BackoffElapsed, Wake
  <2> QED
    BY <2>1, <2>2, MoveOrder
<1>2. CASE MidBatchFailure \/ TransientReactFailure \/ LoadFails \/ Crash \/ Boot \/ LoadReactors
  BY <1>2, FailureOrder
<1>3. CASE React
  BY <1>3, ReactOrder
<1>4. CASE ReactFailure \/ ConsumeDeadEvent
  BY <1>4, ReactFailureOrder, ConsumeDeadEventOrder
<1>5. CASE CommitSucceeds \/ CommitFails \/ AfterCommit
  BY <1>5, CommitSucceedsOrder, CommitFailsOrder, AfterCommitOrder
<1>6. CASE ReplayOutbox
  BY <1>6, ReplayOrder
<1>7. ASSUME NEW c \in Command, EnqueueCommand(c) PROVE OrderInv'
  <2>1. /\ CommandTurn(c) \in Turn /\ CommandTurn(c).kind # "event"
    BY TurnTypes, TurnKinds
  <2>2. /\ pump # "exited" /\ mailbox' = Append(mailbox, CommandTurn(c)) /\ Wake
        /\ UNCHANGED <<outbox, ordinal, history, journal, loaded, warm, batch>>
    BY <1>7 DEF EnqueueCommand, durable
  <2> QED
    BY <2>1, <2>2, IssueOrder
<1>8. ASSUME NEW k \in Completion, Submit(k) PROVE OrderInv'
  <2>1. /\ CompletionTurn(k) \in Turn /\ CompletionTurn(k).kind # "event"
    BY TurnTypes, TurnKinds
  <2>2. /\ pump # "exited" /\ mailbox' = Append(mailbox, CompletionTurn(k)) /\ Wake
        /\ UNCHANGED <<outbox, ordinal, history, journal, loaded, warm, batch>>
    BY <1>8 DEF Submit, durable
  <2> QED
    BY <2>1, <2>2, IssueOrder
<1>9. CASE UNCHANGED vars
  BY <1>9, MoveOrder DEF vars, durable, process
<1> QED
  BY <1>1, <1>2, <1>3, <1>4, <1>5, <1>6, <1>7, <1>8, <1>9 DEF Next, LoopStep

\* Events take effect in the order in which they were sent, over batch seams,
\* replays, commits in doubt and restarts: substrate.ts drains one mailbox from
\* its head, appends what a turn sends behind it, and replays the rows by ordinal.
THEOREM EventsInOrder == Spec => []HandledInOrder
<1>1. Init => OrderInv
  BY InitOrder
<1>2. BusInv /\ BusInv' /\ OrderInv /\ [Next]_vars => OrderInv'
  BY OrderStep
<1>3. BusInv /\ OrderInv => HandledInOrder
  BY OrderGivesProperty
<1> QED
  BY <1>1, <1>2, <1>3, BusInvariant, PTL DEF Spec
=============================================================================
