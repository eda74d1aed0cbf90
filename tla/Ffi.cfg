SPECIFICATION LiveSpec
CONSTANTS
  f1 = f1
  Call = {f1}
  Inner = {1, 2}
  ParentOf <- MCParentOf
  Plans <- MCPlans
INVARIANTS TypeOK HandlersServed NothingOutlives
PROPERTY CallsEnd
CHECK_DEADLOCK FALSE
