SPECIFICATION Spec
CONSTANTS
  Timeout <- MCTimeout
  Gap <- MCGap
  Poll = 1
  Horizon <- MCHorizon
  MaintenanceDelays <- MCMaintenanceDelays
  StartupDelays <- MCStartupDelays
  StallLengths <- MCStallLengths
  MaxInputs = 0
  MaxStalls = 0
  None = None
CHECK_DEADLOCK FALSE
PROPERTY RequestFailureRetried
