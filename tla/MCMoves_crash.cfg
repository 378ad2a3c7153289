SPECIFICATION Spec
CONSTANTS
  Dir = {d1, d2}
  Name = {a, b}
  Inode = {i1, i2}
  Tag = {t1}
  Attr = {x1}
  Env = {"fast", "split", "rename", "replace", "unlist", "crash", "busy", "garbage"}
  Outside = Outside
  Absent = Absent
  NoRow = NoRow
  MaxEvents = 2
SYMMETRY Symmetry
INVARIANT
  TypeOK
PROPERTIES
  
  UnlistedLeftAlone
CHECK_DEADLOCK FALSE
