SPECIFICATION Spec
CONSTANTS
  c1 = c1
  c2 = c2
  k1 = k1
  k2 = k2
  f1 = f1
  f2 = f2
  t1 = t1
  t2 = t2
  a1 = a1
  v1 = v1
  v2 = v2
  File = {f1, f2}
  Tag = {t1, t2}
  Attr = {a1}
  Value = {v1, v2}
  Client = {c1, c2}
  Conn = {k1, k2}
  ConnOf <- TwoThreads
  Requests <- TagCalls
  File0 <- NoRows
  Tag0 <- NoRows
  MaxCalls = 2
  NoName = NoName
PROPERTY
  SetTagEffect
CHECK_DEADLOCK FALSE
