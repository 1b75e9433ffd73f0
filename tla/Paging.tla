------------------------------- MODULE Paging -------------------------------
(***************************************************************************)
(* The page manager of the kernel, code/memory/paging.c: which 4 MiB       *)
(* physical frames are taken, how many are free, which page directories    *)
(* are handed out, and what each of them maps.                             *)
(*                                                                         *)
(* A page directory is a number, its index in page_directory_list plus     *)
(* one, so that 0 can be the NULL pointer; a virtual page is its index     *)
(* (virtual address >> 22), a physical frame likewise.  The entry of a     *)
(* page is the frame it maps, or PAGE_FRAME_UNMAPPED when its present bit  *)
(* is 0.                                                                   *)
(*                                                                         *)
(* This module holds the state and the operations the kernel calls: Kernel *)
(* composes them into process_create_user_process.  PagingApi adds the     *)
(* paging_free_* functions, which nothing in the kernel calls today, and   *)
(* takes the whole interface of header/memory/paging.h alone.              *)
(***************************************************************************)
EXTENDS Integers, FiniteSets

CONSTANTS
  PAGE_FRAME_MAX_COUNT,              \* physical frames the manager knows
  PAGING_DIRECTORY_TABLE_MAX_COUNT,  \* page directories the kernel owns
  UserPages                          \* virtual pages below the kernel in use

KERNEL_PAGE == 768           \* 0x300: the page of KERNEL_VIRTUAL_ADDRESS_BASE
PAGE_FRAME_UNMAPPED == 255   \* 0xFF: no frame has this number

(* The shipped values are 32 and 32; both are far below 0xFF.              *)
ASSUME PagingAssumption ==
  /\ PAGE_FRAME_MAX_COUNT \in 1 .. (PAGE_FRAME_UNMAPPED - 1)
  /\ PAGING_DIRECTORY_TABLE_MAX_COUNT \in Nat \ {0}
  /\ UserPages \subseteq 0 .. (KERNEL_PAGE - 1)
  /\ 0 \in UserPages

VARIABLES
  page_frame_map,         \* page_frame_map[f]: is frame f taken?
  free_page_frame_count,  \* how many frames the manager believes are free
  page_directory_used,    \* page_directory_used[d]: is directory d handed out?
  page_directory_list     \* page_directory_list[d][p]: the frame page p maps

pagingVars == <<page_frame_map, free_page_frame_count,
                page_directory_used, page_directory_list>>

Frames == 0 .. (PAGE_FRAME_MAX_COUNT - 1)
NULL == 0
Directories == 1 .. PAGING_DIRECTORY_TABLE_MAX_COUNT
Pages == UserPages \cup {KERNEL_PAGE}

(* A frame number past the end of page_frame_map, see AllocateOverrun.     *)
OUTSIDE == PAGE_FRAME_MAX_COUNT

PagingTypeOK ==
  /\ page_frame_map \in [Frames -> BOOLEAN]
  /\ free_page_frame_count \in Nat
  /\ page_directory_used \in [Directories -> BOOLEAN]
  /\ page_directory_list \in
       [Directories -> [Pages -> Frames \cup {OUTSIDE, PAGE_FRAME_UNMAPPED}]]

PagingInit ==
  /\ page_frame_map = [f \in Frames |-> FALSE]
  /\ free_page_frame_count = PAGE_FRAME_MAX_COUNT
  /\ page_directory_used = [d \in Directories |-> FALSE]
  /\ page_directory_list =
       [d \in Directories |-> [p \in Pages |-> PAGE_FRAME_UNMAPPED]]

-----------------------------------------------------------------------------
(* The searches of the page manager, as predicates on what they return.    *)

FreeFrames == {f \in Frames : ~page_frame_map[f]}
UsedDirectories == {d \in Directories : page_directory_used[d]}

IsFirstFreeFrame(f) ==
  f \in FreeFrames /\ \A g \in FreeFrames : f <= g

IsFirstUnusedDirectory(d) ==
  /\ d \in Directories \ UsedDirectories
  /\ \A e \in Directories \ UsedDirectories : d <= e

(* paging_allocate_check: compares a count, it does not look at the map.   *)
paging_allocate_check(amount) == free_page_frame_count >= amount

(* Taking a frame out of the map, with the count that goes with it.        *)
TakeFrameCountedTwice(f) ==
  /\ page_frame_map' = [page_frame_map EXCEPT ![f] = TRUE]
  /\ free_page_frame_count' = free_page_frame_count - 2
TakeFrameUncounted(f) ==
  /\ page_frame_map' = [page_frame_map EXCEPT ![f] = TRUE]
  /\ free_page_frame_count' = free_page_frame_count
TakeFrameUnmarked(f) ==
  /\ page_frame_map' = page_frame_map
  /\ free_page_frame_count' = free_page_frame_count - 1
TakeFrame(f) ==
  /\ page_frame_map' = [page_frame_map EXCEPT ![f] = TRUE]
  /\ free_page_frame_count' = free_page_frame_count - 1

(* The entry paging_create_new_page_directory prefills: the kernel half    *)
(* of every address space is frame 0 seen through page 0x300.              *)
WithKernelPage(table) == [table EXCEPT ![KERNEL_PAGE] = 0]
=============================================================================
