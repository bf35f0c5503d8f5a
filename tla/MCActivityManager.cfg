SPECIFICATION Spec
CONSTANTS
  Threads <- MCThreads
  Kinds <- MCKinds
  Untyped = "untyped"
  MaxTime = 1
  MaxCalls = 3
  None = None
INVARIANTS
  SnapshotConsistent
  RecordReturnsOwnEvent
PROPERTIES
  RecordsAreAtomic
