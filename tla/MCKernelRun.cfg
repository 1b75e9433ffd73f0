SPECIFICATION FairSpec
CONSTANTS
  PAGE_FRAME_MAX_COUNT = 5
  PAGING_DIRECTORY_TABLE_MAX_COUNT = 5
  UserPages = {0}
  PROCESS_COUNT_MAX = 4
  COUNTER_SIZE = 64
  MaxEip = 1
  Shell = shell
  Programs = {shell, clock, notes, readme}
  Loadable = {shell, clock, notes}
  Exiting = {}
  Faulting = {clock}
  ListOutcomes = {"exact"}
  NoProgram = NoProgram
  shell = shell
  clock = clock
  notes = notes
  readme = readme
INVARIANTS ResumesWhereItStopped OneProcessPerProgram NeverLost
PROPERTIES EveryProcessGetsItsTurn
