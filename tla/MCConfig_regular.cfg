SPECIFICATION Spec
CONSTANTS
  Proc = {p1, p2}
  Folder = {f1, f2, f3}
  Env = {"crash", "fails"}
  NoFile = NoFile
  MaxCalls = 5
SYMMETRY Symmetry
INVARIANTS
  ConfigInv
  FileFollowsCalls
PROPERTY
  OnlyNamedFolder
CHECK_DEADLOCK FALSE
