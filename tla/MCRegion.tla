----------------------------- MODULE MCRegion -----------------------------
(* One nursery: its provide, and forks, watches and cancels around it, some *)
(* of them in a behaviour.                                                   *)
EXTENDS Region

CONSTANTS p, f2, f3, bad, v1, v2, k1, k2, r

MCCall == {p, f2, f3, bad, v1, v2, k1, k2, r}
MCParentOf == [i \in Inner |-> p]
MCFiberOf == [f \in Fork |-> IF f = f2 THEN 2 ELSE IF f = f3 THEN 3 ELSE 4]
MCTarget == [k \in Cancel |-> 2]

Bounds(calls, abandons, asks, fails, returns, faultsMax, crashesMax, follow) ==
  [calls |-> calls, abandons |-> abandons, asks |-> asks, fails |-> fails, returns |-> returns, faults |-> faultsMax,
   crashes |-> crashesMax, follow |-> follow]
MCPlans == {
  Bounds({p, f2, v1}, {p}, {}, {2}, {}, 1, 0, None),
  Bounds({p, f2}, {p}, {}, {}, {1, 2}, 1, 0, None),
  Bounds({p, f2, k1}, {k1}, {}, {2}, {2}, 1, 0, None),
  Bounds({p, f2, v1, v2}, {v1}, {2}, {}, {}, 0, 0, None),
  Bounds({p, f2, f3, v1}, {}, {2, 3}, {}, {}, 0, 0, None),
  Bounds({p, f2, v1}, {v1}, {2}, {}, {}, 0, 1, None),
  Bounds({p, f2, k1}, {}, {2}, {2}, {1, 2}, 0, 1, k1),
  Bounds({p, f2, r}, {}, {1}, {}, {1, 2}, 0, 0, p),
  Bounds({p, bad}, {}, {}, {}, {1}, 0, 0, p)}
=============================================================================
