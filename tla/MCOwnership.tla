---------------------------- MODULE MCOwnership ----------------------------
(* Small runs of Ownership: each plan gives the program a few operations.  *)
EXTENDS Ownership

Ops == {"block", "handle", "for", "forever", "iterate", "close", "drop", "finally",
        "produce", "free", "call", "ask", "break", "advance", "cancel", "upload"}

Plan(given) == [op \in Ops |-> IF op \in DOMAIN given THEN given[op] ELSE 0]

MCPlans ==
  {Plan([call |-> 2, close |-> 1, ask |-> 1, handle |-> 1]),
   Plan([call |-> 2, close |-> 1, ask |-> 1, handle |-> 1, cancel |-> 1]),
   Plan([call |-> 2, ask |-> 1, produce |-> 1, handle |-> 1]),
   Plan([call |-> 2, ask |-> 1, produce |-> 1, handle |-> 1, break |-> 1]),
   Plan([call |-> 1, ask |-> 1, close |-> 1, block |-> 1, finally |-> 1, cancel |-> 1]),
   Plan([call |-> 2, ask |-> 1, close |-> 1, handle |-> 1, drop |-> 1]),
   Plan([call |-> 1, ask |-> 1, close |-> 1, forever |-> 1, handle |-> 1, advance |-> 1]),
   Plan([call |-> 1, ask |-> 1, close |-> 1, for |-> 1, handle |-> 1, advance |-> 1]),
   Plan([call |-> 2, close |-> 1, for |-> 1, iterate |-> 1]),
   Plan([call |-> 1, ask |-> 1, close |-> 1, handle |-> 1, break |-> 1, finally |-> 1]),
   Plan([call |-> 1, ask |-> 1, produce |-> 1, free |-> 1, upload |-> 1])}
=============================================================================
