SPECIFICATION Spec
CONSTANTS
  CLUSTER_MAP_SIZE = 5
  TOTAL_DIRECTORY_ENTRY = 4
  Names = {"a", "b"}
  Extensions = {"", "txt"}
  CAPACITY = 2
  Paddings = {TRUE}
  Texts = {"x"}
  MaxClusters = 2
  CrashBound = 1
PROPERTIES DeleteTakesOneEntry
