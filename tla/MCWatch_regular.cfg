SPECIFICATION FairSpec
CONSTANTS
  Folder = {f1, f2}
  Env = {"duplicate"}
  Nowhere = Nowhere
  MaxChanges = 3
  MaxListed = 2
INVARIANTS
  WatchesFollowConfig
  AssertInv
  TablesInv
PROPERTIES
  ListedGetsWatched
  UnlistedGetsDropped
CHECK_DEADLOCK FALSE
