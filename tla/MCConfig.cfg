SPECIFICATION Spec
CONSTANT FloatMax = 2000000000
CHECK_DEADLOCK FALSE
INVARIANTS
  AcceptsDocumented
  OverrideIsFileValue
  AcceptedIsUsable
  ParsedFailsCleanly
