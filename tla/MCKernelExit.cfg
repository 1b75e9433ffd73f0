SPECIFICATION Spec
CONSTANTS
  PAGE_FRAME_MAX_COUNT = 5
  PAGING_DIRECTORY_TABLE_MAX_COUNT = 5
  UserPages = {0}
  PROCESS_COUNT_MAX = 3
  COUNTER_SIZE = 64
  MaxEip = 0
  Shell = shell
  Programs = {shell, hello, readme}
  Loadable = {shell, hello}
  Exiting = {hello}
  Faulting = {hello}
  ListOutcomes = {"exact", "short", "long"}
  NoProgram = NoProgram
  shell = shell
  hello = hello
  readme = readme
INVARIANTS TypeOK RunningOwnsTheCpu ProcessesKeepTheirMemory FreeCountExact CreateNeverLeavesAHalf CountCoversLive ShellSurvives LostOnlyBesideTheShell KernelInv
PROPERTIES JobsAreKept
CHECK_DEADLOCK FALSE
