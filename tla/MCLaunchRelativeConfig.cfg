SPECIFICATION Spec
CONSTANTS
  FloatMax = 2000000000
  Processes = {p1, p2}
  Dirs = {"home", "system"}
  Home = "home"
  SignInDir = "system"
  Writable = {"home"}
  AbsoluteLogs = {}
  NulLogs = {"NUL"}
  ConfigFiles <- MCMissingFiles
  Commands <- MCCommands
  MaxEdits = 0
  MaxStarts = 2
SYMMETRY MCSymmetry
CHECK_DEADLOCK FALSE
INVARIANT SignInFindsConfig
