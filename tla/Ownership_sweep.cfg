SPECIFICATION Spec
CONSTANTS
  Plans <- MCPlans
  MaxCore = 3
  MaxScope = 8
  MaxBlob = 2
INVARIANT HeldOnly
CHECK_DEADLOCK FALSE
