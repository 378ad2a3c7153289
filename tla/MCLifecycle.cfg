SPECIFICATION FairSpec
CONSTANTS
  Proc = {p1, p2}
  Env = {"crash", "fail"}
  NoProc = NoProc
INVARIANTS
  StageInv
  OneDaemon
  Reachable
  TablesInUse
PROPERTIES
  SignalEnds
  Serves
CHECK_DEADLOCK FALSE
