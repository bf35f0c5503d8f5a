SPECIFICATION FairSpec
CONSTANTS
  N = 3
  Recoverable <- MCRecoverable
  Reliable <- MCReliable
  MaxInterrupts = 2
CHECK_DEADLOCK FALSE
INVARIANTS
  StartedIsStopped
  ReportAddsUp
PROPERTIES
  OthersRecover
  EvaluationReached
  ShutdownEnds
