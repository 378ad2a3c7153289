SPECIFICATION Spec
CONSTANTS
  Dir = {d1, d2}
  Name = {a, b}
  Inode = {i1, i2}
  Tag = {t1}
  Attr = {x1}
  Env = {}
  Outside = Outside
  Absent = Absent
  NoRow = NoRow
  MaxEvents = 4
SYMMETRY Symmetry
INVARIANT
  MarksFollowFiles
CHECK_DEADLOCK FALSE
