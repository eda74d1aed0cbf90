SPECIFICATION Spec
CONSTANTS
  p = p  f2 = f2  f3 = f3  bad = bad  v1 = v1  v2 = v2  k1 = k1  k2 = k2  r = r
  Call <- MCCall
  Inner = {1, 2, 3, 4}
  ParentOf <- MCParentOf
  Plans <- MCPlans
  Provide = p
  Fork = {f2, f3, bad}  Watch = {v1, v2}  Cancel = {k1, k2}  Roster = {r}
  FiberOf <- MCFiberOf
  Target <- MCTarget
  Continuation = 1
  Malformed = {bad}
INVARIANTS TypeOK FibersKept MailboxKept
PROPERTY CallsEnd
CHECK_DEADLOCK FALSE
