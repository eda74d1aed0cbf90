---------------------------- MODULE MCApiReactor ----------------------------
(* Runs and their programs for ApiReactor, and how a user may answer.      *)
EXTENDS ApiReactor

CONSTANTS ra, rb, rc, rd, rw, rh

Does(kind, wait, body) == [kind |-> kind, wait |-> wait, body |-> body]
Store == Does("store", TRUE, <<>>)
Ask == Does("user", TRUE, <<>>)
Fails == Does("failure", TRUE, <<>>)
Section(body) == Does("exclusive", TRUE, body)
\* Raised in a parallel branch: the raiser goes on, and may return, without it.
Beside(body) == Does("exclusive", FALSE, body)

MCProgram ==
  [r \in Runs |->
     CASE r = ra -> <<Beside(<<Store>>), Ask>>
       [] r = rb -> <<Section(<<Store, Fails>>)>>
       [] r = rc -> <<Section(<<Store>>)>>
       [] r = rd -> <<Section(<<Store>>), Store>>
       [] r = rw -> <<Section(<<Section(<<>>)>>)>>
       [] r = rh -> <<Beside(<<Store>>), Store>>]

Bounds(runs, reloads, drops, cancels, answers, storeFails, follow) ==
  [runs |-> runs, reloads |-> reloads, drops |-> drops, cancels |-> cancels, answers |-> answers,
   storeFails |-> storeFails, follow |-> follow]
MCPlans == {
  Bounds({ra}, 1, 0, 0, 2, FALSE, <<>>),
  Bounds({ra}, 0, 0, 1, 1, FALSE, <<ra>>),
  Bounds({ra, rb}, 0, 0, 1, 0, FALSE, <<ra>>),
  Bounds({ra, rb}, 1, 0, 0, 0, FALSE, <<>>),
  Bounds({rc, rd}, 0, 0, 1, 0, FALSE, <<rd, 1>>),
  Bounds({rc, rd}, 1, 0, 0, 0, FALSE, <<rd, 1>>),
  Bounds({rc}, 1, 0, 1, 0, TRUE, <<rc, 1>>),
  Bounds({rd}, 1, 0, 1, 0, FALSE, <<>>),
  Bounds({rc, rw}, 0, 0, 1, 0, FALSE, <<rw>>),
  Bounds({rh}, 0, 1, 0, 0, TRUE, <<>>)}
Torn == {Bounds({rc, rd}, 0, 0, 1, 0, FALSE, <<>>)}
=============================================================================
