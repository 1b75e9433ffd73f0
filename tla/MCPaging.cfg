SPECIFICATION PagingSpec
CONSTANTS
  PAGE_FRAME_MAX_COUNT = 3
  PAGING_DIRECTORY_TABLE_MAX_COUNT = 2
  UserPages = {0, 1}
  FREE_COUNT_BOUND = 5
INVARIANTS
  PagingTypeOK
  NoFrameMappedTwice
  CountNeverTooLow
  UnusedDirectoriesAreEmpty
CHECK_DEADLOCK FALSE
