----------------------------- MODULE PagingApi ------------------------------
(***************************************************************************)
(* The whole interface of header/memory/paging.h taken alone: directories  *)
(* and frames are allocated and given back in any order a caller holding   *)
(* the directories may choose.  Nothing in the kernel calls the two        *)
(* paging_free_* functions today; this is what they would do if it did.    *)
(***************************************************************************)
EXTENDS Paging

CONSTANT FREE_COUNT_BOUND   \* bound: the count the free functions drift to

ASSUME FreeCountBoundAssumption == FREE_COUNT_BOUND \in Nat

paging_create_new_page_directory ==
  /\ \E d \in Directories :
       /\ IsFirstUnusedDirectory(d)
       /\ page_directory_used' = [page_directory_used EXCEPT ![d] = TRUE]
       /\ page_directory_list' =
            [page_directory_list EXCEPT ![d] = WithKernelPage(@)]
  /\ UNCHANGED <<page_frame_map, free_page_frame_count>>

paging_allocate_user_page_frame(d, p) ==
  /\ free_page_frame_count # 0
  /\ \E f \in Frames :
       /\ IsFirstFreeFrame(f)
       /\ TakeFrame(f)
       /\ page_directory_list' = [page_directory_list EXCEPT ![d][p] = f]
  /\ UNCHANGED page_directory_used

(* The same call when the count says a frame is left and the map has none. *)
(* The loop runs to PAGE_ENTRY_COUNT, so it reads past page_frame_map into *)
(* the packed counter behind it: the counter's low byte is not zero, its   *)
(* second byte is, so that byte is "the free frame" and becomes 1.  The    *)
(* page gets a frame that is not RAM the manager owns, and the counter     *)
(* jumps by 256 less the one taken.  Bound: only the first such overrun.   *)
AllocateOverrun(d, p) ==
  /\ free_page_frame_count \in 1 .. 255
  /\ FreeFrames = {}
  /\ page_directory_list' = [page_directory_list EXCEPT ![d][p] = OUTSIDE]
  /\ free_page_frame_count' = free_page_frame_count + 256 - 1
  /\ UNCHANGED <<page_frame_map, page_directory_used>>

(* paging_free_user_page_frame looks for the first FREE frame, clears the  *)
(* entry of the page and "releases" the frame that was free already: the   *)
(* frame the page mapped stays taken and the count grows by one.  With no  *)
(* free frame the search stops in the zero bytes behind the map, which     *)
(* changes nothing but the count either.                                   *)
FreeFirstFrame(d, p) ==
  /\ page_directory_list' =
       [page_directory_list EXCEPT ![d][p] = PAGE_FRAME_UNMAPPED]
  /\ page_frame_map' = [page_frame_map EXCEPT ![0] = FALSE]
  /\ free_page_frame_count' = free_page_frame_count + 1
  /\ UNCHANGED page_directory_used
paging_free_user_page_frame(d, p) ==
  /\ page_directory_list' =
       [page_directory_list EXCEPT ![d][p] = PAGE_FRAME_UNMAPPED]
  /\ free_page_frame_count' = free_page_frame_count + 1
  /\ UNCHANGED <<page_frame_map, page_directory_used>>

PresentPages(d) ==
  {p \in Pages : page_directory_list[d][p] # PAGE_FRAME_UNMAPPED}

(* paging_free_page_directory frees every present entry that way, the      *)
(* kernel's entry 0x300 included, then clears the table.                   *)
FreeDirectoryKeepsTable(d) ==
  /\ free_page_frame_count' =
       free_page_frame_count + Cardinality(PresentPages(d))
  /\ page_directory_used' = [page_directory_used EXCEPT ![d] = FALSE]
  /\ UNCHANGED <<page_frame_map, page_directory_list>>
paging_free_page_directory(d) ==
  /\ free_page_frame_count' =
       free_page_frame_count + Cardinality(PresentPages(d))
  /\ page_directory_list' =
       [page_directory_list EXCEPT ![d] = [p \in Pages |-> PAGE_FRAME_UNMAPPED]]
  /\ page_directory_used' = [page_directory_used EXCEPT ![d] = FALSE]
  /\ UNCHANGED page_frame_map

AllocateSome ==
  \E d \in UsedDirectories, p \in UserPages : paging_allocate_user_page_frame(d, p)

OverrunSome ==
  \E d \in UsedDirectories, p \in UserPages : AllocateOverrun(d, p)

FreeFrameSome ==
  \E d \in UsedDirectories, p \in UserPages :
    /\ free_page_frame_count < FREE_COUNT_BOUND
    /\ page_directory_list[d][p] # PAGE_FRAME_UNMAPPED
    /\ paging_free_user_page_frame(d, p)

FreeDirectorySome ==
  \E d \in UsedDirectories :
    /\ free_page_frame_count < FREE_COUNT_BOUND
    /\ paging_free_page_directory(d)

PagingNext ==
  \/ paging_create_new_page_directory
  \/ AllocateSome
  \/ OverrunSome
  \/ FreeFrameSome
  \/ FreeDirectorySome

PagingSpec == PagingInit /\ [][PagingNext]_pagingVars

-----------------------------------------------------------------------------
(* No two user pages, of the same or of two address spaces, ever map one   *)
(* physical frame, in whatever order directories and frames come and go.   *)
NoFrameMappedTwice ==
  \A d, e \in Directories : \A p, q \in UserPages :
    /\ <<d, p>> # <<e, q>>
    /\ page_directory_list[d][p] \in Frames
    => page_directory_list[d][p] # page_directory_list[e][q]

(* paging_allocate_check never refuses memory that is there: the count may *)
(* drift above the frames really free (the free functions see to that) but *)
(* never below them.                                                       *)
CountNeverTooLow == free_page_frame_count >= Cardinality(FreeFrames)

(* A directory that is not handed out maps nothing: the next process that  *)
(* gets it starts with the kernel page and no page of its predecessor.     *)
UnusedDirectoriesAreEmpty ==
  \A d \in Directories \ UsedDirectories, p \in Pages :
    page_directory_list[d][p] = PAGE_FRAME_UNMAPPED
=============================================================================
