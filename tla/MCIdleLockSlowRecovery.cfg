SPECIFICATION FairSpec
CONSTANTS
  Timeout <- MCShortTimeout
  Gap <- MCLongGap
  Poll = 1
  Horizon <- MCShortHorizon
  MaintenanceDelays <- MCSlowRecovery
  StartupDelays <- MCShortStartupDelays
  StallLengths <- MCShortStallLengths
  MaxInputs = 1
  MaxStalls = 0
  None = None
CHECK_DEADLOCK FALSE
PROPERTY UnattendedLocks
