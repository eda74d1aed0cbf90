--------------------------- MODULE EventDelivery ---------------------------
(***************************************************************************)
(* What the bus promises its reactors, with no mailbox, batch, outbox or   *)
(* crash in sight: a set of turns takes effect at once, a turn at most     *)
(* once; the turn of an event runs only if the event was sent; and an      *)
(* event is given up only if computing it throws, and then for ever.       *)
(***************************************************************************)
CONSTANTS Turn,    \* what can run
          Event,   \* what turns send
          TurnOf,  \* [Event -> Turn]: the turn that handles an event
          SentBy(_), \* the events a set of turns sends
          Poison   \* turns that throw

VARIABLES done,    \* turns that took effect
          sent,    \* events that were sent
          dead     \* events that were given up

vars == <<done, sent, dead>>

Init == done = {} /\ sent = {} /\ dead = {}

\* A batch of turns takes effect, all or none.
Perform(turns) ==
  /\ turns # {}
  /\ turns \cap (done \cup Poison) = {}
  /\ done' = done \cup turns
  /\ sent' = sent \cup SentBy(turns)
  /\ \A e \in Event : TurnOf[e] \in turns => e \in sent' \ dead
  /\ UNCHANGED dead

GiveUp(e) ==
  /\ e \in sent \ dead
  /\ TurnOf[e] \in Poison \ done
  /\ dead' = dead \cup {e}
  /\ UNCHANGED <<done, sent>>

Next ==
  \/ Perform(done' \ done)
  \/ \E e \in Event : GiveUp(e)

Spec == Init /\ [][Next]_vars
=============================================================================
