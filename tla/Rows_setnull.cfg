SPECIFICATION Spec
CONSTANTS
  NoOne = NoOne
  ApiRoot = ApiRoot
  Run = Run
  Plans <- MCPlans
INVARIANT OutlivedByDelegation
CHECK_DEADLOCK FALSE
