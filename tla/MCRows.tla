-------------------------------- MODULE MCRows --------------------------------
(* The instance of Rows that TLC checks: one shape of program for each        *)
(* question, so that each can be followed further.                            *)
EXTENDS Rows

Shape(dele, esc, crashed, requests, targets, moves, cancel) ==
  [dele |-> dele, esc |-> esc, crashes |-> crashed, requests |-> requests,
   targets |-> targets, moves |-> moves, cancel |-> cancel]

MCPlans ==
  {Shape(2, 1, 1, Requests, {"core", "call"}, 1, TRUE),
   Shape(3, 2, 1, {"exclusive"}, {"core"}, 1, FALSE),
   Shape(3, 2, 0, {"exclusive"}, {}, 2, TRUE),
   Shape(3, 2, 1, {"ask"}, {"call"}, 1, FALSE),
   Shape(3, 2, 1, {"panic"}, {"call"}, 1, FALSE),
   Shape(3, 1, 1, {"panic"}, {"core"}, 2, FALSE),
   Shape(4, 2, 1, {"exclusive", "panic"}, {}, 1, FALSE)}
=============================================================================
