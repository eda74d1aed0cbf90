SPECIFICATION Spec
CONSTANT Plans <- MCPlans
INVARIANT TypeOK
PROPERTIES TreeKept FinalizersKept TerminateCompletes
CHECK_DEADLOCK FALSE
