SPECIFICATION Spec
CONSTANTS
  MaxFaults <- MCMaxFaults
  MaxPresses <- MCMaxPresses
  None = None
CHECK_DEADLOCK FALSE
INVARIANT EachPressRecordedOnce
