SPECIFICATION Spec
CONSTANTS
  Timeout <- MCTimeout
  Gap <- MCGap
  Poll = 1
  Horizon <- MCHorizon
  MaintenanceDelays <- MCMaintenanceDelays
  StartupDelays <- MCPromptStart
  StallLengths <- MCLongSuspend
  MaxInputs = 1
  MaxStalls = 1
  None = None
CHECK_DEADLOCK FALSE
INVARIANT UnseenInputResumeGrace
