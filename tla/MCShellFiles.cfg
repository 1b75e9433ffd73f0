SPECIFICATION ShellSpec
CONSTANTS
  CLUSTER_MAP_SIZE = 6
  TOTAL_DIRECTORY_ENTRY = 4
  Names = {"a"}
  Extensions = {"", "txt"}
  Paddings = {TRUE}
  Texts = {"x", "blank"}
  MaxClusters = 1
  CrashBound = 1
  PathBound = 1
  InsertParents = {2, 3}
  StartupFiles <- MCStartupFiles
INVARIANTS ShellTypeOK AstrayOnlyWithoutFolder ListingIsOfSomeFolder
PROPERTIES MoveKeepsTheFile RenameLosesOneName WriteFindsRoomAgain
