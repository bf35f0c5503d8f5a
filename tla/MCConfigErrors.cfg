SPECIFICATION Spec
CONSTANT FloatMax = 2000000000
CHECK_DEADLOCK FALSE
INVARIANT FailuresAreConfigErrors
