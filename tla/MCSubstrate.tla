---------------------------- MODULE MCSubstrate ----------------------------
(* Small instances of Substrate: a workload is a graph of turns and sends. *)
EXTENDS Substrate, TLC

CONSTANTS e1, e2, e3, e4, e5, c1, c2, k1, r1, r2

\* c1 sends a burst, e1 goes on to e3, a completion sends e4, and failing the
\* run r2 sends its terminate, e5.
MCSends == [t \in Turn |->
  CASE t = CommandTurn(c1)    -> <<e1, e2>>
    [] t = EventTurn(e1)      -> <<e3>>
    [] t = CompletionTurn(k1) -> <<e4>>
    [] t = FailTurn(r2)       -> <<e5>>
    [] OTHER                  -> << >>]

MCRunOf == [e \in Event |-> IF e \in {e1, e4} THEN r1 ELSE r2]

PoisonE2   == {EventTurn(e2)}
PoisonMany == {EventTurn(e2), EventTurn(e4), CommandTurn(c2)}
OpenedByC1 == {CommandTurn(c1)}
=============================================================================
