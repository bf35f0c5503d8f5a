SPECIFICATION FairSpec
CONSTANTS
  MaxFaults = 1
  MaxPresses = 1
  None = None
CHECK_DEADLOCK FALSE
PROPERTY LostHookReplaced
