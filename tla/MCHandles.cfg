SPECIFICATION Spec
CONSTANTS
  Thread = {t1, t2}
  Folder = {f, g}
  View = {v}
  Env = {}
  None = None
  MaxOps = 2
  MaxMoves = 1
SYMMETRY Symmetric
INVARIANTS
  OneHandle
  RightRepo
  FailsLoudly
PROPERTIES
  FreesOnlyCrossed
CHECK_DEADLOCK FALSE
