------------------------------- MODULE MCFfi -------------------------------
(* One call, with one inner call and every misfortune, or with two inner    *)
(* calls and a reload.                                                      *)
EXTENDS Ffi

CONSTANT f1

MCParentOf == [i \in Inner |-> f1]

Bounds(inner, asks, abandons, faultsMax, crashesMax, deathsMax) ==
  [calls |-> {f1}, abandons |-> abandons, inner |-> inner, asks |-> asks,
   faults |-> faultsMax, crashes |-> crashesMax, deaths |-> deathsMax]

MCPlans == {
  Bounds({1}, {1}, {f1}, 1, 0, 1),
  Bounds({1}, {1}, {f1}, 0, 1, 0),
  Bounds({1, 2}, {2}, {}, 0, 0, 0)}
=============================================================================
