SPECIFICATION FairSpec
CONSTANTS
  MaxFaults <- MCMaxFaults
  MaxEvents <- MCMaxEvents
  MaxChoices <- MCMaxChoices
CHECK_DEADLOCK FALSE
INVARIANTS
  StatusHonest
  NoFalseBalloon
  IconNeverForgotten
PROPERTIES
  StartSettles
  ExitEndsRuntime
  StopEndsTray
