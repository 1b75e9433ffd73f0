SPECIFICATION Spec
CONSTANTS
  CLUSTER_MAP_SIZE = 6
  TOTAL_DIRECTORY_ENTRY = 5
  Names = {"a", "b", "c"}
  Extensions = {"", "txt"}
  CAPACITY = 2
  Paddings = {TRUE}
  Texts = {"x"}
  MaxClusters = 2
  CrashBound = 0
INVARIANTS TreeIsRooted ReadGivesTheStoredData FindShowsEveryMatch
PROPERTIES StoreIsKept
