SPECIFICATION Spec
CONSTANTS
  Hooks <- MCTwoHooks
  Messages <- MCMessages
  Window = 1
  Refresh = 2
  MaxTime = 5
  None = None
INVARIANTS
  RefreshesAreSpaced
PROPERTIES
  IsolatedMovementIgnored
  SustainedMovementRefreshes
