SPECIFICATION Spec
CONSTANTS
  PAGE_FRAME_MAX_COUNT = 4
  PAGING_DIRECTORY_TABLE_MAX_COUNT = 4
  UserPages = {0}
  PROCESS_COUNT_MAX = 3
  COUNTER_SIZE = 64
  MaxEip = 0
  Shell = shell
  Programs = {shell, hello}
  Loadable = {shell, hello}
  Exiting = {hello}
  Faulting = {}
  ListOutcomes = {"exact"}
  NoProgram = NoProgram
  shell = shell
  hello = hello
INVARIANTS ShellRunsWhenAlone
