----------------------------- MODULE RunOutcome -----------------------------
(***************************************************************************)
(* What the api reactor promises of a run: it is started once, it may be   *)
(* asked to stop, and it reaches one outcome that nothing replaces.  Only  *)
(* a run that was asked to stop ends as cancelled.                         *)
(***************************************************************************)
CONSTANT Runs
VARIABLE outcome

Alive == {"running", "cancelling"}
Terminal == {"done", "cancelled", "error"}
Outcomes == {"none"} \cup Alive \cup Terminal

Init == outcome = [r \in Runs |-> "none"]

Move(r, from, to) == outcome[r] \in from /\ outcome' = [outcome EXCEPT ![r] = to]

Start(r) == Move(r, {"none"}, "running")
RequestCancel(r) == Move(r, Alive, "cancelling")
Finish(r) == Move(r, Alive, "done")
FailIt(r) == Move(r, Alive, "error")
Cancelled(r) == Move(r, {"cancelling"}, "cancelled")

Next == \E r \in Runs : Start(r) \/ RequestCancel(r) \/ Finish(r) \/ FailIt(r) \/ Cancelled(r)
Spec == Init /\ [][Next]_outcome
=============================================================================
