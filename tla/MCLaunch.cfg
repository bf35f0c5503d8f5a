SPECIFICATION Spec
CONSTANTS
  FloatMax = 2000000000
  Processes = {p1, p2}
  Dirs = {"home", "system"}
  Home = "home"
  SignInDir = "system"
  Writable = {"home"}
  AbsoluteLogs = {}
  NulLogs = {"NUL"}
  ConfigFiles <- MCConfigFiles
  Commands <- MCCommands
  MaxEdits = 1
  MaxStarts = 3
SYMMETRY MCSymmetry
CHECK_DEADLOCK FALSE
INVARIANTS
  RegisteredIsValid
  DryRunStaysDry
  SignInSameConfig
  RemovalsAddUp
