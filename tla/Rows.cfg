SPECIFICATION Spec
CONSTANTS
  NoOne = NoOne
  ApiRoot = ApiRoot
  Run = Run
  Plans <- MCPlans
INVARIANTS TypeOK Commits Reloads EdgesMeet
CHECK_DEADLOCK FALSE
