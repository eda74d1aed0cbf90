SPECIFICATION FairSpec
CONSTANTS
  e1 = e1  e2 = e2  e3 = e3  e4 = e4  e5 = e5
  c1 = c1  c2 = c2  k1 = k1  r1 = r1  r2 = r2
  Event = {e1, e2, e3, e4, e5}
  Command = {c1, c2}
  Completion = {k1}
  Run = {r1, r2}
  Sends <- MCSends
  RunOf <- MCRunOf
  Poison <- PoisonMany
  Opens <- OpenedByC1
  LoadKind = "none"
  MaxBatchTurns = 2
  MaxCommitRetries = 1
  MaxFaults = 2
  MaxCrashes = 1
INVARIANTS TypeOK BusInv HandledInOrder
PROPERTIES DeliverySpec ReplayEnds CallsSettle
CHECK_DEADLOCK FALSE
