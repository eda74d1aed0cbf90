SPECIFICATION Spec
CONSTANTS
  Plans <- MCPlans
  MaxCore = 3
  MaxScope = 8
  MaxBlob = 2
INVARIANTS TypeOK EnvironmentsKept ResourcesKept
CHECK_DEADLOCK FALSE
