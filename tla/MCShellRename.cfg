SPECIFICATION ShellSpec
CONSTANTS
  CLUSTER_MAP_SIZE = 6
  TOTAL_DIRECTORY_ENTRY = 4
  Names = {"a", "b"}
  Extensions = {"", "txt"}
  Paddings = {TRUE}
  Texts = {"x", "blank"}
  MaxClusters = 2
  CrashBound = 0
  PathBound = 1
  InsertParents = {2, 3}
  StartupFiles <- MCStartupFiles
PROPERTIES RenameKeepsTheFile
