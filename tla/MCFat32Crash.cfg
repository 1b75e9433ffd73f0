SPECIFICATION Spec
CONSTANTS
  CLUSTER_MAP_SIZE = 6
  TOTAL_DIRECTORY_ENTRY = 4
  Names = {"a"}
  Extensions = {"", "txt"}
  CAPACITY = 2
  Paddings = {TRUE, FALSE}
  Texts = {"x"}
  MaxClusters = 2
  CrashBound = 1
INVARIANTS EveryClusterHasOneOwner
PROPERTIES CrashHurtsOneEntry HalfFormattedIsForGood
