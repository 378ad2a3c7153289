SPECIFICATION Spec
CONSTANTS
  Folder = {f1, f2}
  Env = {"early", "ufactl", "duplicate", "fail", "folder"}
  Nowhere = Nowhere
  MaxChanges = 3
  MaxListed = 2
SYMMETRY Symmetry
INVARIANTS
  WatchesKnown
CHECK_DEADLOCK FALSE
