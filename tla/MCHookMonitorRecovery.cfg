SPECIFICATION FairSpec
CONSTANTS
  MaxFaults <- MCMaxFaults
  MaxPresses <- MCMaxPresses
  None = None
CHECK_DEADLOCK FALSE
INVARIANTS
  AliveMeansInstalled
  StartedMeansHooked
  NoDuplicateRecords
  ShutdownUnhooks
PROPERTIES
  StopEndsThread
  HookRecovers
