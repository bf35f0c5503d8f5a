SPECIFICATION FairSpec
CONSTANTS
  Timeout <- MCTimeout
  Gap <- MCGap
  Poll = 1
  Horizon <- MCHorizon
  MaintenanceDelays <- MCMaintenanceDelays
  StartupDelays <- MCStartupDelays
  StallLengths <- MCStallLengths
  MaxInputs = 2
  MaxStalls = 1
  None = None
CHECK_DEADLOCK FALSE
INVARIANTS
  ControllerInv
  NoPrematureLock
  CoveredResumeGrace
  RequestKept
PROPERTIES
  TimeoutFailureRetried
  OneLockPerEpisode
  UnattendedLocks
  LockedSessionRearms
  ExitHonoured
