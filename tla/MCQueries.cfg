SPECIFICATION Spec
CONSTANTS
  d = d
  e = e
  f = f
  g = g
  t = t
  u = u
  a = a
  b = b
  v = v
  w = w
  p = p
  Dir = {d, e}
  Config = {e}
  Shown = d
  Home = Home
  File = {f, g}
  Tag = {t, u}
  Attr = {a, b}
  Value = {v, w}
  Wildcard = {p}
  Like <- MCLike
  Null = Null
  NullText = NullText
  Indicator = Indicator
  Received <- ReceivedCall
  Printed <- PrintedPaths
  Commands <- MCCommands
  Contents <- MCContents
  Env = {}
  MaxWrites = 2
  MaxTokens = 4096
INVARIANTS
  TypeOK
  SearchFinds
  ListingShows
  EntriesOpen
  MessagesUnderstood
CHECK_DEADLOCK FALSE
