---------------------------- MODULE KernelProofs ----------------------------
(***************************************************************************)
(* The kernel, for every number of slots, frames, directories and          *)
(* programs.                                                               *)
(*                                                                         *)
(* First the page manager taken alone, for every order of calls, the       *)
(* overrun of the frame search included: address spaces never share a      *)
(* frame, the count never falls below the frames that are free, and a      *)
(* directory that is not handed out maps nothing.                          *)
(*                                                                         *)
(* Then the whole: type correctness of Kernel, and the invariance of       *)
(* KernelInv, and with it the safety properties that say processes keep    *)
(* their memory, the CPU runs what the table says it runs, and the         *)
(* counters the kernel decides on are true.  The lemmas follow the         *)
(* operations: what building an address space does to the page manager,    *)
(* then create, destroy and switch, each with what it preserves and what   *)
(* it leaves alone; the step theorem puts them together action by action.  *)
(***************************************************************************)
EXTENDS Kernel, PagingApi, TLAPS, FiniteSetTheorems

-----------------------------------------------------------------------------
(* The page manager.                                                       *)

Entries == Frames \cup {OUTSIDE, PAGE_FRAME_UNMAPPED}

(* The two numbers that are no frames, and the page that is no user page.  *)
LEMMA NumbersApart ==
  /\ OUTSIDE \notin Frames /\ PAGE_FRAME_UNMAPPED \notin Frames
  /\ KERNEL_PAGE \notin UserPages /\ KERNEL_PAGE \in Pages /\ 0 \in Frames
BY PagingAssumption
   DEF OUTSIDE, PAGE_FRAME_UNMAPPED, Frames, KERNEL_PAGE, Pages

LEMMA FiniteFrames ==
  IsFiniteSet(FreeFrames) /\ Cardinality(FreeFrames) \in Nat
<1>1. IsFiniteSet(Frames)
  BY PagingAssumption, FS_Interval DEF Frames, PAGE_FRAME_UNMAPPED
<1>2. FreeFrames \subseteq Frames
  BY DEF FreeFrames
<1>3. QED
  BY <1>1, <1>2, FS_Subset, FS_CardinalityType

LEMMA FinitePages ==
  ASSUME NEW d
  PROVE  Cardinality(PresentPages(d)) \in Nat
<1>1. IsFiniteSet(0 .. KERNEL_PAGE)
  <2>1. 0 \in Int /\ KERNEL_PAGE \in Int
    BY DEF KERNEL_PAGE
  <2>2. QED
    BY <2>1, FS_Interval
<1>2. Pages \subseteq 0 .. KERNEL_PAGE
  <2>1. \A p \in 0 .. KERNEL_PAGE - 1 : p \in 0 .. KERNEL_PAGE
    BY DEF KERNEL_PAGE
  <2>2. KERNEL_PAGE \in 0 .. KERNEL_PAGE
    BY DEF KERNEL_PAGE
  <2>3. QED
    BY <2>1, <2>2, PagingAssumption DEF Pages
<1>3. PresentPages(d) \subseteq 0 .. KERNEL_PAGE
  BY <1>2 DEF PresentPages
<1>4. QED
  BY <1>1, <1>3, FS_Subset, FS_CardinalityType

(* Nothing gives a frame back to the map, so what a page maps is taken;    *)
(* that is why a frame that is found free is mapped nowhere.               *)
MappedIsTaken ==
  \A d \in Directories, p \in UserPages :
    page_directory_list[d][p] \in Frames
      => page_frame_map[page_directory_list[d][p]]

PagingInv ==
  /\ PagingTypeOK
  /\ MappedIsTaken
  /\ NoFrameMappedTwice
  /\ CountNeverTooLow
  /\ UnusedDirectoriesAreEmpty

-----------------------------------------------------------------------------
LEMMA PagingInitInv == PagingInit => PagingInv
<1> SUFFICES ASSUME PagingInit PROVE PagingInv
  OBVIOUS
<1>1. FreeFrames = Frames
  BY DEF FreeFrames, PagingInit
<1>2. CountNeverTooLow
  BY <1>1, PagingAssumption, FS_Interval
     DEF CountNeverTooLow, PagingInit, Frames, PAGE_FRAME_UNMAPPED
<1>3. PagingTypeOK
  BY PagingAssumption DEF PagingInit, PagingTypeOK, PAGE_FRAME_UNMAPPED
<1>4. \A d \in Directories, p \in Pages :
        page_directory_list[d][p] = PAGE_FRAME_UNMAPPED
  BY DEF PagingInit
<1>5. MappedIsTaken /\ NoFrameMappedTwice /\ UnusedDirectoriesAreEmpty
  BY <1>4, NumbersApart
     DEF MappedIsTaken, NoFrameMappedTwice, UnusedDirectoriesAreEmpty, Pages
<1>6. QED
  BY <1>2, <1>3, <1>5 DEF PagingInv

(* A new directory gets the kernel's page; its user pages stay empty.      *)
LEMMA CreateDirectoryInv ==
  ASSUME PagingInv, paging_create_new_page_directory
  PROVE  PagingInv'
<1>1. PICK d \in Directories :
        /\ page_directory_used' = [page_directory_used EXCEPT ![d] = TRUE]
        /\ page_directory_list' =
             [page_directory_list EXCEPT ![d] = WithKernelPage(@)]
  BY DEF paging_create_new_page_directory
<1>2. UNCHANGED <<page_frame_map, free_page_frame_count>> /\ FreeFrames' = FreeFrames
  BY DEF paging_create_new_page_directory, FreeFrames
<1>3. PagingTypeOK'
  <2>1. WithKernelPage(page_directory_list[d]) \in [Pages -> Entries]
    BY NumbersApart DEF PagingInv, PagingTypeOK, WithKernelPage, Entries
  <2>2. QED
    BY <1>1, <1>2, <2>1 DEF PagingInv, PagingTypeOK, Entries
<1>4. \A e \in Directories, p \in UserPages :
        page_directory_list'[e][p] = page_directory_list[e][p]
  BY <1>1, NumbersApart DEF PagingInv, PagingTypeOK, WithKernelPage, Pages
<1>5. \A e \in Directories \ UsedDirectories' :
        /\ e \notin UsedDirectories
        /\ page_directory_list'[e] = page_directory_list[e]
  BY <1>1 DEF PagingInv, PagingTypeOK, UsedDirectories
<1>6. MappedIsTaken' /\ NoFrameMappedTwice' /\ CountNeverTooLow'
  BY <1>2, <1>4 DEF PagingInv, MappedIsTaken, NoFrameMappedTwice, CountNeverTooLow
<1>7. UnusedDirectoriesAreEmpty'
  BY <1>5 DEF PagingInv, UnusedDirectoriesAreEmpty
<1>8. QED
  BY <1>3, <1>6, <1>7 DEF PagingInv

(* One entry of a directory in use becomes v.                              *)
LEMMA OneEntry ==
  ASSUME PagingTypeOK, UnusedDirectoriesAreEmpty,
         NEW d \in UsedDirectories, NEW p \in UserPages, NEW v \in Entries,
         page_directory_list' = [page_directory_list EXCEPT ![d][p] = v],
         UNCHANGED page_directory_used
  PROVE  /\ page_directory_list' \in [Directories -> [Pages -> Entries]]
         /\ page_directory_list'[d][p] = v
         /\ \A e \in Directories, q \in UserPages :
              <<e, q>> # <<d, p>> =>
                page_directory_list'[e][q] = page_directory_list[e][q]
         /\ UnusedDirectoriesAreEmpty'
<1>1. d \in Directories /\ p \in Pages /\ UserPages \subseteq Pages
  BY DEF UsedDirectories, Pages
<1>2. page_directory_list \in [Directories -> [Pages -> Entries]]
  BY DEF PagingTypeOK, Entries
<1>3. page_directory_list' \in [Directories -> [Pages -> Entries]]
  BY <1>1, <1>2
<1>4. /\ page_directory_list'[d][p] = v
      /\ \A e \in Directories \ {d} : page_directory_list'[e] = page_directory_list[e]
      /\ \A q \in Pages \ {p} : page_directory_list'[d][q] = page_directory_list[d][q]
  BY <1>1, <1>2
<1>5. UnusedDirectoriesAreEmpty'
  BY <1>4 DEF UnusedDirectoriesAreEmpty, UsedDirectories
<1>6. QED
  BY <1>1, <1>3, <1>4, <1>5

(* The frame that is found is free, so no page maps it yet.                *)
LEMMA AllocateInv ==
  ASSUME PagingInv, NEW d \in UsedDirectories, NEW p \in UserPages,
         paging_allocate_user_page_frame(d, p)
  PROVE  PagingInv'
<1>1. PICK f \in Frames :
        /\ f \in FreeFrames
        /\ TakeFrame(f)
        /\ page_directory_list' = [page_directory_list EXCEPT ![d][p] = f]
  BY DEF paging_allocate_user_page_frame, IsFirstFreeFrame
<1>2. /\ page_directory_list' \in [Directories -> [Pages -> Entries]]
      /\ page_directory_list'[d][p] = f
      /\ \A e \in Directories, q \in UserPages :
           <<e, q>> # <<d, p>> =>
             page_directory_list'[e][q] = page_directory_list[e][q]
      /\ UnusedDirectoriesAreEmpty'
  <2>1. f \in Entries /\ UNCHANGED page_directory_used
    BY DEF Entries, paging_allocate_user_page_frame
  <2>2. QED
    BY <1>1, <2>1, OneEntry DEF PagingInv
<1>3. PagingTypeOK'
  BY <1>1, <1>2
     DEF PagingInv, PagingTypeOK, TakeFrame, paging_allocate_user_page_frame, Entries
<1>4. /\ page_frame_map'[f]
      /\ \A g \in Frames : page_frame_map[g] => page_frame_map'[g]
      /\ FreeFrames' = FreeFrames \ {f}
  BY <1>1 DEF PagingInv, PagingTypeOK, TakeFrame, FreeFrames
<1>5. MappedIsTaken'
  BY <1>2, <1>4 DEF PagingInv, MappedIsTaken
<1>6. NoFrameMappedTwice'
  <2>1. \A e \in Directories, q \in UserPages : page_directory_list[e][q] # f
    BY <1>1 DEF PagingInv, MappedIsTaken, FreeFrames
  <2>2. QED
    BY <1>2, <2>1 DEF PagingInv, NoFrameMappedTwice
<1>7. CountNeverTooLow'
  <2>1. Cardinality(FreeFrames') = Cardinality(FreeFrames) - 1
    BY <1>1, <1>4, FiniteFrames, FS_RemoveElement
  <2>2. QED
    BY <1>1, <2>1, FiniteFrames
       DEF PagingInv, PagingTypeOK, CountNeverTooLow, TakeFrame
<1>8. QED
  BY <1>2, <1>3, <1>5, <1>6, <1>7 DEF PagingInv

(* Steps that take no frame and map none: an entry is cleared or leads     *)
(* outside, or a directory is, and the count grows.                        *)
LEMMA MapsNoMore ==
  ASSUME PagingInv, PagingTypeOK', UnusedDirectoriesAreEmpty',
         UNCHANGED page_frame_map,
         free_page_frame_count' >= free_page_frame_count,
         \A e \in Directories, q \in UserPages :
           \/ page_directory_list'[e][q] = page_directory_list[e][q]
           \/ page_directory_list'[e][q] \notin Frames
  PROVE  PagingInv'
<1>1. FreeFrames' = FreeFrames
  BY DEF FreeFrames
<1>2. CountNeverTooLow'
  BY <1>1, FiniteFrames DEF PagingInv, PagingTypeOK, CountNeverTooLow
<1>3. MappedIsTaken'
  BY DEF PagingInv, MappedIsTaken
<1>4. NoFrameMappedTwice'
  BY DEF PagingInv, NoFrameMappedTwice
<1>5. QED
  BY <1>2, <1>3, <1>4 DEF PagingInv

LEMMA EntryClearedInv ==
  ASSUME PagingInv, NEW d \in UsedDirectories, NEW p \in UserPages,
         AllocateOverrun(d, p) \/ paging_free_user_page_frame(d, p)
  PROVE  PagingInv'
<1>1. PICK v \in {OUTSIDE, PAGE_FRAME_UNMAPPED} :
        page_directory_list' = [page_directory_list EXCEPT ![d][p] = v]
  BY DEF AllocateOverrun, paging_free_user_page_frame
<1>2. v \in Entries /\ v \notin Frames
  BY NumbersApart DEF Entries
<1>3. UNCHANGED <<page_frame_map, page_directory_used>>
  BY DEF AllocateOverrun, paging_free_user_page_frame
<1>4. free_page_frame_count' \in Nat /\ free_page_frame_count' >= free_page_frame_count
  BY DEF AllocateOverrun, paging_free_user_page_frame, PagingInv, PagingTypeOK
<1>5. /\ page_directory_list' \in [Directories -> [Pages -> Entries]]
      /\ page_directory_list'[d][p] = v
      /\ \A e \in Directories, q \in UserPages :
           <<e, q>> # <<d, p>> =>
             page_directory_list'[e][q] = page_directory_list[e][q]
      /\ UnusedDirectoriesAreEmpty'
  BY <1>1, <1>2, <1>3, OneEntry DEF PagingInv
<1>6. PagingTypeOK'
  BY <1>3, <1>4, <1>5 DEF PagingInv, PagingTypeOK, Entries
<1>7. QED
  BY <1>2, <1>3, <1>4, <1>5, <1>6, MapsNoMore

LEMMA FreeDirectoryInv ==
  ASSUME PagingInv, NEW d \in UsedDirectories, paging_free_page_directory(d)
  PROVE  PagingInv'
<1>1. d \in Directories
  BY DEF UsedDirectories
<1>2. free_page_frame_count' \in Nat /\ free_page_frame_count' >= free_page_frame_count
  BY FinitePages DEF paging_free_page_directory, PagingInv, PagingTypeOK
<1>3. [p \in Pages |-> PAGE_FRAME_UNMAPPED] \in [Pages -> Entries]
  BY DEF Entries
<1>4. PagingTypeOK'
  BY <1>2, <1>3 DEF paging_free_page_directory, PagingInv, PagingTypeOK, Entries
<1>5. /\ \A p \in Pages : page_directory_list'[d][p] = PAGE_FRAME_UNMAPPED
      /\ \A e \in Directories \ {d} : page_directory_list'[e] = page_directory_list[e]
  BY <1>1 DEF paging_free_page_directory, PagingInv, PagingTypeOK
<1>6. UnusedDirectoriesAreEmpty'
  <2>1. \A e \in Directories \ UsedDirectories' : e = d \/ e \notin UsedDirectories
    BY DEF paging_free_page_directory, PagingInv, PagingTypeOK, UsedDirectories
  <2>2. QED
    BY <1>5, <2>1 DEF PagingInv, UnusedDirectoriesAreEmpty
<1>7. \A e \in Directories, q \in UserPages :
        \/ page_directory_list'[e][q] = page_directory_list[e][q]
        \/ page_directory_list'[e][q] \notin Frames
  BY <1>5, NumbersApart DEF Pages
<1>8. QED
  BY <1>2, <1>4, <1>6, <1>7, MapsNoMore DEF paging_free_page_directory

LEMMA PagingStepInv ==
  ASSUME PagingInv, [PagingNext]_pagingVars
  PROVE  PagingInv'
<1>1. CASE UNCHANGED pagingVars
  BY <1>1 DEF pagingVars, PagingInv, PagingTypeOK, MappedIsTaken, NoFrameMappedTwice,
              CountNeverTooLow, UnusedDirectoriesAreEmpty, FreeFrames, UsedDirectories
<1>2. QED
  BY <1>1, CreateDirectoryInv, AllocateInv, EntryClearedInv, FreeDirectoryInv
     DEF PagingNext, AllocateSome, OverrunSome, FreeFrameSome, FreeDirectorySome

-----------------------------------------------------------------------------
LEMMA PagingInvariant == PagingSpec => []PagingInv
<1>1. PagingInit => PagingInv
  BY PagingInitInv
<1>2. PagingInv /\ [PagingNext]_pagingVars => PagingInv'
  BY PagingStepInv
<1>3. QED
  BY <1>1, <1>2, PTL DEF PagingSpec

(* The maps, the count and the entries keep their types; the count does    *)
(* not fall below 0, although frames are counted that were never taken.    *)
THEOREM PagingTypes == PagingSpec => []PagingTypeOK
<1>1. PagingInv => PagingTypeOK
  BY DEF PagingInv
<1>2. QED
  BY <1>1, PagingInvariant, PTL

(* No two user pages map one frame, in whatever order directories and      *)
(* frames are allocated and given back.                                    *)
THEOREM AddressSpacesApart == PagingSpec => []NoFrameMappedTwice
<1>1. PagingInv => NoFrameMappedTwice
  BY DEF PagingInv
<1>2. QED
  BY <1>1, PagingInvariant, PTL

(* The memory check never refuses frames that are there.                   *)
THEOREM CountIsEnough == PagingSpec => []CountNeverTooLow
<1>1. PagingInv => CountNeverTooLow
  BY DEF PagingInv
<1>2. QED
  BY <1>1, PagingInvariant, PTL

(* A directory that is not handed out maps nothing.                        *)
THEOREM FreshDirectories == PagingSpec => []UnusedDirectoriesAreEmpty
<1>1. PagingInv => UnusedDirectoriesAreEmpty
  BY DEF PagingInv
<1>2. QED
  BY <1>1, PagingInvariant, PTL

-----------------------------------------------------------------------------
(* Types.                                                                  *)

(* The types of the parts of the state, for use in single lemmas.          *)
ContextType == [eip : 0 .. MaxEip, dir : Directories \cup {NULL}]

(* 0 is a slot and a frame; the program page is a page.                    *)
LEMMA ConstantFacts ==
  /\ 0 \in Slots
  /\ 0 \in Frames
  /\ program_base \in Pages /\ KERNEL_PAGE \in Pages
  /\ NULL \notin Directories
  /\ KERNEL_DIRECTORY \notin Directories
  /\ 0 \in 0 .. MaxEip
  /\ NoCommand \in Commands
BY PagingAssumption, ProcessAssumption, SchedulerAssumption
   DEF Slots, Frames, program_base, Pages, KERNEL_PAGE, NULL, Directories,
       KERNEL_DIRECTORY, NoCommand, Commands, PAGE_FRAME_UNMAPPED

(* Counting stays within uint32_t.                                         *)
LEMMA CounterType ==
  ASSUME NEW n \in 0 .. (COUNTER_SIZE - 1)
  PROVE  /\ Increment(n) \in 0 .. (COUNTER_SIZE - 1)
         /\ Decrement(n) \in 0 .. (COUNTER_SIZE - 1)
BY ProcessAssumption DEF Increment, Decrement

THEOREM InitTypeOK == Init => TypeOK
BY ConstantFacts, PagingAssumption, ProcessAssumption
   DEF Init, TypeOK, PagingInit, ProcessInit, PagingTypeOK, ProcessStates,
       ZeroContext, Phases

(* What the timer saves is a context for every slot.                       *)
LEMMA SavedContextType ==
  TypeOK => SavedContext \in [Slots -> ContextType]
BY DEF TypeOK, SavedContext, ContextType

(* A switch gives every variable it sets a value of its type.              *)
LEMMA SwitchType ==
  ASSUME TypeOK,
         NEW contexts \in [Slots -> ContextType],
         scheduler_switch_to_next_process(contexts)
  PROVE  /\ state' \in [Slots -> ProcessStates]
         /\ phase' \in Phases
         /\ cr3' \in Directories \cup {NULL, KERNEL_DIRECTORY}
         /\ phase' = "user" => cr3' \in Directories
         /\ eip' \in 0 .. MaxEip
<1>1. CASE SwitchFromCurrent(contexts)
  BY <1>1 DEF SwitchFromCurrent, Resume, TypeOK, ContextType, ProcessStates,
              Phases
<1>2. CASE SwitchFromNone(contexts)
  <2>1. PICK next \in Slots :
          /\ state' = [state EXCEPT ![0] = "Waiting", ![next] = "Running"]
          /\ Resume(contexts[next])
    BY <1>2 DEF SwitchFromNone
  <2>2. state' \in [Slots -> ProcessStates]
    BY <2>1 DEF TypeOK, ProcessStates
  <2>3. contexts[next] \in ContextType
    OBVIOUS
  <2>4. QED
    BY <2>1, <2>2, <2>3 DEF Resume, ContextType, Phases
<1>3. CASE SwitchFromNull
  BY <1>3 DEF SwitchFromNull, TypeOK, Phases
<1>4. QED
  BY <1>1, <1>2, <1>3 DEF scheduler_switch_to_next_process

(* Taking a frame when the memory check passed leaves a natural count.     *)
LEMMA BuildType ==
  ASSUME TypeOK, paging_allocate_check(page_frame_count_needed),
         NEW d \in Directories, NEW f \in Frames,
         BuildAddressSpace(d, f)
  PROVE  PagingTypeOK'
<1>1. free_page_frame_count >= 2
  BY DEF paging_allocate_check, page_frame_count_needed
<1>2. page_frame_map' \in [Frames -> BOOLEAN] /\ free_page_frame_count' \in Nat
  BY <1>1 DEF TypeOK, PagingTypeOK, BuildAddressSpace, TakeFrame
<1>3. page_directory_used' \in [Directories -> BOOLEAN]
  BY DEF TypeOK, PagingTypeOK, BuildAddressSpace
<1>4. page_directory_list' \in
        [Directories -> [Pages -> Frames \cup {OUTSIDE, PAGE_FRAME_UNMAPPED}]]
  <2>1. /\ page_directory_list[d] \in
             [Pages -> Frames \cup {OUTSIDE, PAGE_FRAME_UNMAPPED}]
        /\ page_directory_list' =
             [page_directory_list EXCEPT
                ![d] = [WithKernelPage(page_directory_list[d])
                          EXCEPT ![program_base] = f]]
    BY DEF TypeOK, PagingTypeOK, BuildAddressSpace
  <2>2. [WithKernelPage(page_directory_list[d]) EXCEPT ![program_base] = f]
          \in [Pages -> Frames \cup {OUTSIDE, PAGE_FRAME_UNMAPPED}]
    BY <2>1, ConstantFacts DEF WithKernelPage
  <2>3. QED
    BY <2>1, <2>2 DEF TypeOK, PagingTypeOK
<1>5. QED
  BY <1>2, <1>3, <1>4 DEF PagingTypeOK

(* The process manager's part of TypeOK.                                   *)
ProcessTypeOK ==
  /\ PagingTypeOK
  /\ state \in [Slots -> ProcessStates]
  /\ name \in [Slots -> Programs \cup {NoProgram}]
  /\ pid \in [Slots -> Slots]
  /\ context \in [Slots -> ContextType]
  /\ page_frame_used_count \in [Slots -> Nat]
  /\ active_process_count \in 0 .. (COUNTER_SIZE - 1)
  /\ image \in [Frames -> Programs \cup {NoProgram, Scribbled}]

LEMMA ZeroPcbType ==
  ASSUME TypeOK, NEW s \in Slots, ZeroPcb(s)
  PROVE  /\ state' \in [Slots -> ProcessStates]
         /\ name' \in [Slots -> Programs \cup {NoProgram}]
         /\ pid' \in [Slots -> Slots]
         /\ context' \in [Slots -> ContextType]
         /\ page_frame_used_count' \in [Slots -> Nat]
<1>1. ZeroContext \in ContextType
  BY ConstantFacts DEF ZeroContext, ContextType
<1>2. QED
  BY <1>1, ConstantFacts DEF TypeOK, ZeroPcb, ContextType, ProcessStates

LEMMA CreateType ==
  ASSUME TypeOK, NEW program \in Programs, process_create_user_process(program)
  PROVE  ProcessTypeOK'
<1>1. CASE CreateMaxExceeded \/ CreateNotEnoughMemory
  BY <1>1 DEF CreateMaxExceeded, CreateNotEnoughMemory, processVars, pagingVars,
              TypeOK, PagingTypeOK, ProcessTypeOK, ContextType
<1>2. CASE CreateNoDirectory(program)
  <2>1. PagingTypeOK'
    BY <1>2 DEF CreateNoDirectory, pagingVars, TypeOK, PagingTypeOK
  <2>2. QED
    BY <1>2, <2>1 DEF CreateNoDirectory, TypeOK, ProcessTypeOK, ContextType,
                      ProcessStates, NewPid
<1>3. CASE CreateReadFailure(program)
  <2>1. PICK d \in Directories, f \in Frames : BuildAddressSpace(d, f)
    BY <1>3 DEF CreateReadFailure
  <2>2. PagingTypeOK'
    BY <1>3, <2>1, BuildType DEF CreateReadFailure
  <2>3. PICK s \in Slots : ZeroPcb(s)
    BY <1>3 DEF CreateReadFailure
  <2>4. QED
    BY <1>3, <2>2, <2>3, ZeroPcbType DEF CreateReadFailure, TypeOK, ProcessTypeOK
<1>4. CASE CreateSuccess(program)
  <2>1. PICK s \in Slots, d \in Directories, f \in Frames :
          /\ BuildAddressSpace(d, f)
          /\ name' = [name EXCEPT ![s] = program]
          /\ pid' = [pid EXCEPT ![s] = NewPid(s)]
          /\ state' = [state EXCEPT ![s] = "Waiting"]
          /\ context' = [context EXCEPT ![s] = [eip |-> 0, dir |-> d]]
          /\ page_frame_used_count' = [page_frame_used_count EXCEPT ![s] = @ + 1]
          /\ image' = [image EXCEPT ![f] = program]
    BY <1>4 DEF CreateSuccess
  <2>2. PagingTypeOK'
    BY <1>4, <2>1, BuildType DEF CreateSuccess
  <2>3. active_process_count' \in 0 .. (COUNTER_SIZE - 1)
    BY <1>4, CounterType DEF CreateSuccess, TypeOK
  <2>4. [eip |-> 0, dir |-> d] \in ContextType
    BY ConstantFacts DEF ContextType
  <2>5. QED
    BY <2>1, <2>2, <2>3, <2>4
       DEF TypeOK, ProcessTypeOK, ContextType, ProcessStates, NewPid
<1>5. QED
  BY <1>1, <1>2, <1>3, <1>4 DEF process_create_user_process

LEMMA DestroyType ==
  ASSUME TypeOK, NEW p, process_destroy(p)
  PROVE  ProcessTypeOK'
<1>1. PagingTypeOK'
  BY DEF process_destroy, pagingVars, TypeOK, PagingTypeOK
<1>2. CASE DestroyFound(p)
  <2>1. PICK s \in Slots : ZeroPcb(s)
    BY <1>2 DEF DestroyFound
  <2>2. active_process_count' \in 0 .. (COUNTER_SIZE - 1)
    BY <1>2, CounterType DEF DestroyFound, TypeOK
  <2>3. QED
    BY <1>1, <1>2, <2>1, <2>2, ZeroPcbType DEF DestroyFound, TypeOK, ProcessTypeOK
<1>3. CASE DestroyNotFound(p)
  BY <1>1, <1>3 DEF DestroyNotFound, processVars, TypeOK, ProcessTypeOK, ContextType
<1>4. QED
  BY <1>2, <1>3 DEF process_destroy

(* What a kill or an exec carries.                                         *)
LEMMA PendingCommands ==
  ASSUME TypeOK, cr3 \in Directories
  PROVE  /\ pending[cr3].op = "kill" => pending[cr3].pid \in 1 .. PROCESS_COUNT_MAX
         /\ pending[cr3].op = "exec" => pending[cr3].program \in Programs
<1>1. pending[cr3] \in Commands
  BY DEF TypeOK
<1>2. \A c \in Commands : c.op = "kill" => c.pid \in 1 .. PROCESS_COUNT_MAX
  BY DEF Commands
<1>3. \A c \in Commands : c.op = "exec" => c.program \in Programs
  BY DEF Commands
<1>4. QED
  BY <1>1, <1>2, <1>3

(* A command that was carried out is taken back.                           *)
LEMMA PendingDone ==
  TypeOK => [pending EXCEPT ![cr3] = NoCommand] \in [Directories -> Commands]
BY ConstantFacts DEF TypeOK

-----------------------------------------------------------------------------
(* What a step of each kind leaves of TypeOK to the step before.           *)
LEMMA StepType == TypeOK /\ [Next]_vars => TypeOK'
<1> SUFFICES ASSUME TypeOK, [Next]_vars PROVE TypeOK'
  OBVIOUS
<1> USE DEF ContextType
<1>1. CASE BootCreate
  <2>1. ProcessTypeOK'
    BY <1>1, CreateType, KernelAssumption DEF BootCreate
  <2>2. QED
    BY <1>1, <2>1 DEF BootCreate, TypeOK, ProcessTypeOK, Phases
<1>2. CASE BootInit
  BY <1>2 DEF BootInit, scheduler_init, pagingVars, TypeOK, PagingTypeOK,
              ProcessStates, Phases
<1>3. CASE BootSwitch
  <2>1. context \in [Slots -> ContextType]
    BY DEF TypeOK
  <2>2. QED
    BY <1>3, <2>1, SwitchType DEF BootSwitch, pagingVars, TypeOK, PagingTypeOK
<1>4. CASE UserStep
  BY <1>4 DEF UserStep, InUser, pagingVars, processVars, TypeOK, PagingTypeOK
<1>5. CASE TimerInterrupt
  <2>1. SavedContext \in [Slots -> ContextType]
    BY SavedContextType
  <2>2. QED
    BY <1>5, <2>1, SwitchType
       DEF TimerInterrupt, pagingVars, TypeOK, PagingTypeOK
<1>6. CASE Fault
  <2>1. context \in [Slots -> ContextType]
    BY DEF TypeOK
  <2>2. QED
    BY <1>6, <2>1, SwitchType DEF Fault, pagingVars, TypeOK, PagingTypeOK
<1>7. CASE Exit
  BY <1>7 DEF Exit, pagingVars, cpuVars, TypeOK, PagingTypeOK, ProcessStates
<1>8. CASE ExitAgain
  BY <1>8 DEF ExitAgain, pagingVars, cpuVars, TypeOK, PagingTypeOK
<1>9. CASE ShellListsToKill
  <2>1. pending' \in [Directories -> Commands]
    <3>1. \A p \in KillablePids : [op |-> "kill", pid |-> p] \in Commands
      BY DEF KillablePids, Commands
    <3>2. QED
      BY <1>9, <3>1 DEF ShellListsToKill, TypeOK
  <2>2. QED
    BY <1>9, <2>1 DEF ShellListsToKill, pagingVars, processVars, cpuVars,
                      TypeOK, PagingTypeOK
<1>10. CASE ShellListsToExec
  <2>1. pending' \in [Directories -> Commands]
    <3>1. \A program \in Programs :
            [op |-> "exec", program |-> program] \in Commands
      BY DEF Commands
    <3>2. QED
      BY <1>10, <3>1 DEF ShellListsToExec, TypeOK
  <2>2. QED
    BY <1>10, <2>1 DEF ShellListsToExec, pagingVars, processVars, cpuVars,
                       TypeOK, PagingTypeOK
<1>11. CASE ShellKills
  <2>1. ProcessTypeOK'
    BY <1>11, DestroyType DEF ShellKills
  <2>2. QED
    BY <1>11, <2>1, PendingDone DEF ShellKills, cpuVars, TypeOK, ProcessTypeOK
<1>12. CASE ShellExecs
  <2>1. pending[cr3].program \in Programs
    BY <1>12, PendingCommands DEF ShellExecs, InShell, InUser, TypeOK
  <2>2. ProcessTypeOK'
    BY <1>12, <2>1, CreateType DEF ShellExecs
  <2>3. QED
    BY <1>12, <2>2, PendingDone DEF ShellExecs, cpuVars, TypeOK, ProcessTypeOK
<1>13. CASE UNCHANGED vars
  BY <1>13 DEF vars, pagingVars, processVars, cpuVars, TypeOK, PagingTypeOK
<1>14. QED
  BY <1>1, <1>2, <1>3, <1>4, <1>5, <1>6, <1>7, <1>8, <1>9, <1>10, <1>11, <1>12,
     <1>13 DEF Next, Boot

(* Every variable keeps its type in every execution, for every number of   *)
(* slots, frames, directories and programs: pids are slot indices, the     *)
(* counters do not leave their range, and user code executes only in a     *)
(* page directory of the table.                                            *)
THEOREM TypeCorrect == Spec => []TypeOK
<1>1. Init => TypeOK
  BY InitTypeOK
<1>2. TypeOK /\ [Next]_vars => TypeOK'
  BY StepType
<1>3. QED
  BY <1>1, <1>2, PTL DEF Spec

-----------------------------------------------------------------------------
(* Finite sets.                                                            *)

LEMMA FiniteParts ==
  /\ IsFiniteSet(Frames) /\ Cardinality(Frames) = PAGE_FRAME_MAX_COUNT
  /\ IsFiniteSet(Directories)
  /\ Cardinality(Directories) = PAGING_DIRECTORY_TABLE_MAX_COUNT
  /\ IsFiniteSet(Slots) /\ Cardinality(Slots) = PROCESS_COUNT_MAX
  /\ IsFiniteSet(TakenFrames) /\ Cardinality(TakenFrames) \in Nat
  /\ IsFiniteSet(UsedDirectories) /\ Cardinality(UsedDirectories) \in Nat
  /\ IsFiniteSet(CountedSlots) /\ Cardinality(CountedSlots) \in Nat
<1>1. PAGE_FRAME_MAX_COUNT \in Nat \ {0} /\ PAGING_DIRECTORY_TABLE_MAX_COUNT \in Nat
      /\ PROCESS_COUNT_MAX \in Nat \ {0}
  BY PagingAssumption, ProcessAssumption DEF PAGE_FRAME_UNMAPPED
<1>2. IsFiniteSet(Frames) /\ Cardinality(Frames) = PAGE_FRAME_MAX_COUNT
  BY <1>1, FS_Interval DEF Frames
<1>3. IsFiniteSet(Directories)
      /\ Cardinality(Directories) = PAGING_DIRECTORY_TABLE_MAX_COUNT
  BY <1>1, FS_Interval DEF Directories
<1>4. IsFiniteSet(Slots) /\ Cardinality(Slots) = PROCESS_COUNT_MAX
  BY <1>1, FS_Interval DEF Slots
<1>5. /\ TakenFrames \subseteq Frames
      /\ UsedDirectories \subseteq Directories
      /\ CountedSlots \subseteq Slots
  BY DEF TakenFrames, UsedDirectories, CountedSlots
<1>6. QED
  BY <1>2, <1>3, <1>4, <1>5, FS_Subset, FS_CardinalityType

(* The frames that are free are the others.                                *)
LEMMA FreeFramesCount ==
  Cardinality(FreeFrames) = PAGE_FRAME_MAX_COUNT - Cardinality(TakenFrames)
<1>1. FreeFrames = Frames \ TakenFrames /\ Frames \cap TakenFrames = TakenFrames
  BY DEF FreeFrames, TakenFrames
<1>2. QED
  BY <1>1, FiniteParts, FS_Difference

(* With no fewer directories than frames, two free frames mean there is a  *)
(* directory left: process_create_user_process never stops half way.       *)
LEMMA DirectoryLeft ==
  ASSUME KernelBoots, CountsAgree, TypeOK,
         paging_allocate_check(page_frame_count_needed)
  PROVE  UsedDirectories # Directories
<1>1. free_page_frame_count \in Nat /\ free_page_frame_count >= 2
  BY DEF TypeOK, PagingTypeOK, paging_allocate_check, page_frame_count_needed
<1>2. Cardinality(UsedDirectories) <= PAGE_FRAME_MAX_COUNT - 2
  BY <1>1, FiniteParts, PagingAssumption DEF CountsAgree, PAGE_FRAME_UNMAPPED
<1>3. Cardinality(Directories) >= PAGE_FRAME_MAX_COUNT
  BY FiniteParts DEF KernelBoots
<1>4. QED
  BY <1>2, <1>3, FiniteParts, PagingAssumption DEF PAGE_FRAME_UNMAPPED

-----------------------------------------------------------------------------
(* The page manager under BuildAddressSpace: one directory and one frame   *)
(* more, the frame mapped by that directory alone, the others untouched.   *)
LEMMA BuildSteps ==
  ASSUME KernelBoots, TypeOK, CountsAgree, DirectoriesMapApart,
         paging_allocate_check(page_frame_count_needed),
         NEW d \in Directories, NEW f \in Frames, BuildAddressSpace(d, f)
  PROVE  /\ d \notin UsedDirectories /\ f \notin TakenFrames
         /\ UsedDirectories' = UsedDirectories \cup {d}
         /\ TakenFrames' = TakenFrames \cup {f}
         /\ FrameOf(d)' = f
         /\ \A e \in UsedDirectories : FrameOf(e)' = FrameOf(e)
         /\ CountsAgree'
         /\ DirectoriesMapApart'
<1>1. d \notin UsedDirectories /\ f \notin TakenFrames
  BY DEF BuildAddressSpace, IsFirstUnusedDirectory, IsFirstFreeFrame, FreeFrames,
         TakenFrames
<1>2. UsedDirectories' = UsedDirectories \cup {d}
  BY DEF BuildAddressSpace, UsedDirectories, TypeOK, PagingTypeOK
<1>3. TakenFrames' = TakenFrames \cup {f}
  BY DEF BuildAddressSpace, TakeFrame, TakenFrames, TypeOK, PagingTypeOK
<1>4. FrameOf(d)' = f
  <2>1. page_directory_list'[d] =
          [WithKernelPage(page_directory_list[d]) EXCEPT ![program_base] = f]
    BY DEF BuildAddressSpace, TypeOK, PagingTypeOK
  <2>2. DOMAIN WithKernelPage(page_directory_list[d]) = Pages
    BY DEF WithKernelPage, TypeOK, PagingTypeOK
  <2>3. QED
    BY <2>1, <2>2, ConstantFacts DEF FrameOf
<1>5. \A e \in UsedDirectories : FrameOf(e)' = FrameOf(e)
  BY <1>1 DEF BuildAddressSpace, FrameOf, UsedDirectories, TypeOK, PagingTypeOK
<1>6. CountsAgree'
  <2>1. Cardinality(UsedDirectories') = Cardinality(UsedDirectories) + 1
    BY <1>1, <1>2, FiniteParts, FS_AddElement
  <2>2. Cardinality(TakenFrames') = Cardinality(TakenFrames) + 1
    BY <1>1, <1>3, FiniteParts, FS_AddElement
  <2>3. free_page_frame_count' = free_page_frame_count - 1
        /\ free_page_frame_count \in Nat
    BY DEF BuildAddressSpace, TakeFrame, TypeOK, PagingTypeOK
  <2>4. QED
    BY <2>1, <2>2, <2>3, FiniteParts DEF CountsAgree
<1>7. DirectoriesMapApart'
  <2>1. \A e \in UsedDirectories : FrameOf(e)' \in TakenFrames /\ FrameOf(e)' # f
    BY <1>1, <1>5 DEF DirectoriesMapApart
  <2>2. \A e, g \in UsedDirectories : FrameOf(e)' = FrameOf(g)' => e = g
    BY <1>5 DEF DirectoriesMapApart
  <2>3. \A e \in UsedDirectories' : FrameOf(e)' \in TakenFrames'
    BY <1>2, <1>3, <1>4, <2>1
  <2>4. \A e, g \in UsedDirectories' : FrameOf(e)' = FrameOf(g)' => e = g
    BY <1>2, <1>4, <2>1, <2>2
  <2>5. QED
    BY <2>3, <2>4 DEF DirectoriesMapApart
<1>8. QED
  BY <1>1, <1>2, <1>3, <1>4, <1>5, <1>6, <1>7

-----------------------------------------------------------------------------
(* The process manager under process_create_user_process: what it keeps,   *)
(* and that no slot in use is touched.                                     *)
TablesOK ==
  /\ CountsAgree
  /\ DirectoriesMapApart
  /\ SlotsHoldTheirProcess
  /\ CountCoversLive

CreateEffect ==
  /\ TablesOK'
  /\ \A s \in Live : /\ state'[s] = state[s]
                     /\ name'[s] = name[s]
                     /\ context'[s] = context[s]
  /\ \A s \in Slots \ Live :
       \/ state'[s] = "Inactive"
       \/ state'[s] = "Waiting" /\ context'[s].dir \notin UsedDirectories
  /\ UsedDirectories \subseteq UsedDirectories'

LEMMA UnchangedTables ==
  ASSUME TypeOK, TablesOK,
         UNCHANGED <<pagingVars, name, pid, image, active_process_count>>,
         state' \in [Slots -> ProcessStates],
         \A s \in Slots : state'[s] = "Inactive" <=> state[s] = "Inactive",
         \A s \in Slots : context'[s].dir = context[s].dir
  PROVE  TablesOK' /\ Live' = Live /\ UsedDirectories' = UsedDirectories
<1>1. /\ Live' = Live
      /\ UsedDirectories' = UsedDirectories
      /\ TakenFrames' = TakenFrames
      /\ CountedSlots' = CountedSlots
      /\ \A d : FrameOf(d)' = FrameOf(d)
  BY DEF Live, UsedDirectories, TakenFrames, CountedSlots, FrameOf, pagingVars
<1>2. CountsAgree' /\ DirectoriesMapApart' /\ CountCoversLive'
  BY <1>1 DEF TablesOK, CountsAgree, DirectoriesMapApart, CountCoversLive, pagingVars
<1>3. SlotsHoldTheirProcess'
  <2>1. \A s \in Live : s \in Slots
    BY DEF Live
  <2>2. QED
    BY <1>1, <2>1 DEF TablesOK, SlotsHoldTheirProcess
<1>4. QED
  BY <1>1, <1>2, <1>3 DEF TablesOK

(* The program is loaded: a slot, a directory and a frame more.            *)
LEMMA CreateSucceeds ==
  ASSUME KernelBoots, TypeOK, TablesOK, NEW program \in Programs,
         CreateSuccess(program)
  PROVE  CreateEffect
<1>1. PICK s \in Slots, d \in Directories, f \in Frames :
        /\ IsFirstInactive(s)
        /\ BuildAddressSpace(d, f)
        /\ name' = [name EXCEPT ![s] = program]
        /\ pid' = [pid EXCEPT ![s] = NewPid(s)]
        /\ state' = [state EXCEPT ![s] = "Waiting"]
        /\ context' = [context EXCEPT ![s] = [eip |-> 0, dir |-> d]]
        /\ image' = [image EXCEPT ![f] = program]
  BY DEF CreateSuccess
<1>2. /\ d \notin UsedDirectories /\ f \notin TakenFrames
      /\ UsedDirectories' = UsedDirectories \cup {d}
      /\ FrameOf(d)' = f
      /\ \A e \in UsedDirectories : FrameOf(e)' = FrameOf(e)
      /\ CountsAgree'
      /\ DirectoriesMapApart'
  BY <1>1, BuildSteps DEF TablesOK, CreateSuccess
<1>3. s \in Slots \ Live /\ Live' = Live \cup {s} /\ Live \subseteq Slots
  BY <1>1 DEF IsFirstInactive, Live, TypeOK
<1>4. /\ \A t \in Slots \ {s} : /\ state'[t] = state[t] /\ name'[t] = name[t]
                                /\ pid'[t] = pid[t] /\ context'[t] = context[t]
      /\ state'[s] = "Waiting" /\ name'[s] = program /\ pid'[s] = s
      /\ context'[s].dir = d
  BY <1>1 DEF TypeOK, NewPid
<1>5. SlotsHoldTheirProcess'
  <2>1. \A t \in Slots : pid'[t] \in {0, t}
    BY <1>4 DEF TablesOK, SlotsHoldTheirProcess
  <2>2. \A t \in Live :
          /\ pid'[t] = t /\ context'[t].dir = context[t].dir
          /\ context[t].dir \in UsedDirectories
          /\ image'[page_directory_list'[context'[t].dir][program_base]] = name'[t]
    <3>1. TAKE t \in Live
    <3>2. /\ pid'[t] = pid[t] /\ name'[t] = name[t]
          /\ context'[t] = context[t]
      BY <1>3, <1>4
    <3>3. /\ pid[t] = t /\ context[t].dir \in UsedDirectories
          /\ image[FrameOf(context[t].dir)] = name[t]
          /\ FrameOf(context[t].dir) \in TakenFrames
      BY DEF TablesOK, SlotsHoldTheirProcess, DirectoriesMapApart
    <3>4. page_directory_list'[context[t].dir][program_base]
            = FrameOf(context[t].dir)
      BY <1>2, <3>3 DEF FrameOf
    <3>5. image'[FrameOf(context[t].dir)] = image[FrameOf(context[t].dir)]
      BY <1>1, <1>2, <3>3 DEF TypeOK, TakenFrames
    <3>6. QED
      BY <3>2, <3>3, <3>4, <3>5
  <2>3. /\ pid'[s] = s /\ context'[s].dir = d
        /\ image'[page_directory_list'[context'[s].dir][program_base]] = name'[s]
    BY <1>1, <1>2, <1>4 DEF FrameOf, TypeOK
  <2>4. \A t, u \in Live' : context'[t].dir = context'[u].dir => t = u
    BY <1>2, <1>3, <2>2, <2>3 DEF TablesOK, SlotsHoldTheirProcess
  <2>5. QED
    BY <1>2, <1>3, <2>1, <2>2, <2>3, <2>4 DEF SlotsHoldTheirProcess, FrameOf
<1>6. CountCoversLive'
  <2>1. CountedSlots' = CountedSlots \cup {s}
    BY <1>3, <1>4 DEF CountedSlots
  <2>2. Cardinality(CountedSlots') <= Cardinality(CountedSlots) + 1
        /\ Cardinality(CountedSlots') \in Nat
    <3>1. CASE s \in CountedSlots
      <4>1. CountedSlots' = CountedSlots
        BY <2>1, <3>1
      <4>2. QED
        BY <4>1, FiniteParts
    <3>2. CASE s \notin CountedSlots
      <4>1. Cardinality(CountedSlots') = Cardinality(CountedSlots) + 1
        BY <2>1, <3>2, FiniteParts, FS_AddElement
      <4>2. QED
        BY <4>1, FiniteParts
    <3>3. QED
      BY <3>1, <3>2
  <2>3. active_process_count' = active_process_count + 1
    <3>1. active_process_count \in Nat /\ active_process_count < PROCESS_COUNT_MAX
      BY ProcessAssumption DEF CreateSuccess, MayCreate, TypeOK
    <3>2. active_process_count' = (active_process_count + 1) % COUNTER_SIZE
      BY DEF CreateSuccess, Increment
    <3>3. active_process_count + 1 \in 0 .. (COUNTER_SIZE - 1)
      BY <3>1, ProcessAssumption
    <3>4. QED
      BY <3>2, <3>3, ProcessAssumption
  <2>4. QED
    <3>1. active_process_count \in Int
          /\ active_process_count >= Cardinality(CountedSlots)
      BY ProcessAssumption DEF TablesOK, CountCoversLive, TypeOK
    <3>2. QED
      BY <2>2, <2>3, <3>1, FiniteParts DEF CountCoversLive
<1>7. \A t \in Live : /\ state'[t] = state[t] /\ name'[t] = name[t]
                      /\ context'[t] = context[t]
  BY <1>3, <1>4
<1>8. \A t \in Slots \ Live :
        \/ state'[t] = "Inactive"
        \/ state'[t] = "Waiting" /\ context'[t].dir \notin UsedDirectories
  BY <1>2, <1>4 DEF Live
<1>9. TablesOK'
  BY <1>2, <1>5, <1>6 DEF TablesOK
<1>10. QED
  BY <1>2, <1>7, <1>8, <1>9 DEF CreateEffect

(* The program is not there: the slot is empty again, and a directory and  *)
(* a frame are gone.                                                       *)
LEMMA CreateFails ==
  ASSUME KernelBoots, TypeOK, TablesOK, NEW program, CreateReadFailure(program)
  PROVE  CreateEffect
<1>1. PICK d \in Directories, f \in Frames : BuildAddressSpace(d, f)
  BY DEF CreateReadFailure
<1>2. PICK s \in Slots : IsFirstInactive(s) /\ ZeroPcb(s)
  BY DEF CreateReadFailure
<1>3. /\ UsedDirectories' = UsedDirectories \cup {d}
      /\ \A e \in UsedDirectories : FrameOf(e)' = FrameOf(e)
      /\ CountsAgree'
      /\ DirectoriesMapApart'
  BY <1>1, BuildSteps DEF TablesOK, CreateReadFailure
<1>4. /\ s \in Slots \ Live /\ Live' = Live /\ Live \subseteq Slots
      /\ \A t \in Slots : state'[t] = state[t]
  BY <1>2 DEF IsFirstInactive, ZeroPcb, Live, TypeOK
<1>5. /\ \A t \in Slots \ {s} : /\ name'[t] = name[t] /\ pid'[t] = pid[t]
                                /\ context'[t] = context[t]
      /\ pid'[s] = 0
  BY <1>2 DEF ZeroPcb, TypeOK
<1>6. SlotsHoldTheirProcess'
  <2>1. \A t \in Slots : pid'[t] \in {0, t}
    BY <1>5 DEF TablesOK, SlotsHoldTheirProcess
  <2>2. \A t \in Live :
          /\ pid'[t] = t /\ context'[t].dir = context[t].dir
          /\ context[t].dir \in UsedDirectories
          /\ image'[page_directory_list'[context'[t].dir][program_base]] = name'[t]
    <3>1. TAKE t \in Live
    <3>2. /\ pid'[t] = pid[t] /\ name'[t] = name[t]
          /\ context'[t] = context[t] /\ image' = image
      BY <1>4, <1>5 DEF CreateReadFailure
    <3>3. /\ pid[t] = t /\ context[t].dir \in UsedDirectories
          /\ image[FrameOf(context[t].dir)] = name[t]
      BY DEF TablesOK, SlotsHoldTheirProcess
    <3>4. page_directory_list'[context[t].dir][program_base]
            = FrameOf(context[t].dir)
      BY <1>3, <3>3 DEF FrameOf
    <3>5. QED
      BY <3>2, <3>3, <3>4
  <2>3. \A t, u \in Live' : context'[t].dir = context'[u].dir => t = u
    BY <1>4, <2>2 DEF TablesOK, SlotsHoldTheirProcess
  <2>4. QED
    BY <1>3, <1>4, <2>1, <2>2, <2>3 DEF SlotsHoldTheirProcess, FrameOf
<1>7. CountCoversLive'
  <2>1. CountedSlots' \subseteq CountedSlots
    BY <1>4, <1>5 DEF CountedSlots
  <2>2. Cardinality(CountedSlots') <= Cardinality(CountedSlots)
        /\ Cardinality(CountedSlots') \in Nat
    BY <2>1, FiniteParts, FS_Subset, FS_CardinalityType
  <2>3. QED
    BY <2>2, FiniteParts DEF TablesOK, CountCoversLive, CreateReadFailure, TypeOK
<1>8. QED
  BY <1>3, <1>4, <1>5, <1>6, <1>7 DEF CreateEffect, TablesOK, Live

LEMMA UnchangedCreate ==
  ASSUME TypeOK, TablesOK, UNCHANGED <<processVars, pagingVars>>
  PROVE  CreateEffect
<1>1. \A s \in Slots : context'[s].dir = context[s].dir
                      /\ (state'[s] = "Inactive" <=> state[s] = "Inactive")
  BY DEF processVars
<1>2. TablesOK' /\ UsedDirectories' = UsedDirectories
  BY <1>1, UnchangedTables DEF processVars, TypeOK
<1>3. QED
  BY <1>2 DEF CreateEffect, processVars, Live

LEMMA CreateKeeps ==
  ASSUME KernelBoots, TypeOK, TablesOK, NEW program \in Programs,
         process_create_user_process(program)
  PROVE  CreateEffect
<1>1. CASE CreateMaxExceeded \/ CreateNotEnoughMemory
  BY <1>1, UnchangedCreate DEF CreateMaxExceeded, CreateNotEnoughMemory
<1>2. CASE CreateNoDirectory(program)
  BY <1>2, DirectoryLeft DEF CreateNoDirectory, TablesOK
<1>3. CASE CreateReadFailure(program)
  BY <1>3, CreateFails
<1>4. CASE CreateSuccess(program)
  BY <1>4, CreateSucceeds
<1>5. QED
  BY <1>1, <1>2, <1>3, <1>4 DEF process_create_user_process

-----------------------------------------------------------------------------
(* The process manager under process_destroy of a pid of at least 1: the   *)
(* slot, live or left behind by exit, is emptied; slot 0 is never touched. *)
DestroyEffect ==
  /\ TablesOK'
  /\ \A s \in Slots :
       \/ state'[s] = "Inactive" /\ s # 0
       \/ /\ state'[s] = state[s]
          /\ name'[s] = name[s]
          /\ context'[s] = context[s]
  /\ UsedDirectories' = UsedDirectories

LEMMA DestroyEmptiesASlot ==
  ASSUME TypeOK, TablesOK, NEW p \in 1 .. PROCESS_COUNT_MAX,
         DestroyFound(p), UNCHANGED pagingVars
  PROVE  DestroyEffect
<1>1. PICK s \in Slots : pid[s] = p /\ ZeroPcb(s)
  BY DEF DestroyFound, IsFirstWithPid
<1>2. s # 0 /\ s \in CountedSlots
  BY <1>1, ProcessAssumption DEF TablesOK, SlotsHoldTheirProcess, CountedSlots
<1>3. /\ \A t \in Slots \ {s} : /\ state'[t] = state[t] /\ name'[t] = name[t]
                                /\ pid'[t] = pid[t] /\ context'[t] = context[t]
      /\ state'[s] = "Inactive" /\ pid'[s] = 0
  BY <1>1 DEF ZeroPcb, TypeOK
<1>4. Live' = Live \ {s} /\ Live \subseteq Slots
  BY <1>1, <1>3 DEF Live
<1>5. /\ UsedDirectories' = UsedDirectories /\ TakenFrames' = TakenFrames
      /\ \A d : FrameOf(d)' = FrameOf(d)
      /\ page_directory_list' = page_directory_list
  BY DEF UsedDirectories, TakenFrames, FrameOf, pagingVars
<1>6. CountsAgree' /\ DirectoriesMapApart'
  BY <1>5 DEF TablesOK, CountsAgree, DirectoriesMapApart, pagingVars
<1>7. SlotsHoldTheirProcess'
  <2>1. \A t \in Slots : pid'[t] \in {0, t}
    BY <1>3 DEF TablesOK, SlotsHoldTheirProcess
  <2>2. \A t \in Live' : /\ t \in Live /\ pid'[t] = pid[t] /\ name'[t] = name[t]
                         /\ context'[t] = context[t] /\ image' = image
    BY <1>3, <1>4 DEF DestroyFound
  <2>3. QED
    BY <1>5, <2>1, <2>2 DEF TablesOK, SlotsHoldTheirProcess, FrameOf
<1>8. CountCoversLive'
  <2>1. CountedSlots' = CountedSlots \ {s}
    BY <1>1, <1>3, <1>4 DEF CountedSlots
  <2>2. Cardinality(CountedSlots') = Cardinality(CountedSlots) - 1
    BY <1>2, <2>1, FiniteParts, FS_RemoveElement
  <2>3. Cardinality(CountedSlots) >= 1
    BY <1>2, FiniteParts, FS_EmptySet
  <2>4. active_process_count \in 1 .. (COUNTER_SIZE - 1)
        /\ active_process_count >= Cardinality(CountedSlots)
    BY <2>3, FiniteParts, ProcessAssumption DEF TablesOK, CountCoversLive, TypeOK
  <2>5. Decrement(active_process_count) = active_process_count - 1
    BY <2>4, ProcessAssumption DEF Decrement
  <2>6. active_process_count' = active_process_count - 1
    BY <2>5 DEF DestroyFound
  <2>7. QED
    BY <2>2, <2>4, <2>6, FiniteParts, ProcessAssumption DEF CountCoversLive
<1>9. QED
  BY <1>2, <1>3, <1>5, <1>6, <1>7, <1>8 DEF DestroyEffect, TablesOK

LEMMA DestroyKeeps ==
  ASSUME TypeOK, TablesOK, NEW p \in 1 .. PROCESS_COUNT_MAX, process_destroy(p)
  PROVE  DestroyEffect
<1>1. CASE DestroyFound(p)
  BY <1>1, DestroyEmptiesASlot DEF process_destroy
<1>2. CASE DestroyNotFound(p)
  <2>1. UNCHANGED <<processVars, pagingVars>>
    BY <1>2 DEF DestroyNotFound, process_destroy
  <2>2. \A s \in Slots : context'[s].dir = context[s].dir
                        /\ (state'[s] = "Inactive" <=> state[s] = "Inactive")
    BY <2>1 DEF processVars
  <2>3. TablesOK' /\ UsedDirectories' = UsedDirectories
    BY <2>1, <2>2, UnchangedTables DEF processVars, TypeOK
  <2>4. QED
    BY <2>1, <2>3 DEF DestroyEffect, processVars
<1>3. QED
  BY <1>1, <1>2 DEF process_destroy

-----------------------------------------------------------------------------
(* A switch: the same processes live after it; one is Running, in its own  *)
(* address space, or the CPU is lost and only the shell is left.           *)
SwitchEffect ==
  /\ \A s \in Slots : state'[s] = "Inactive" <=> state[s] = "Inactive"
  /\ \/ \E next \in Live :
          /\ \A s \in Slots : state'[s] = "Running" <=> s = next
          /\ cr3' = context[next].dir
          /\ phase' = "user"
     \/ /\ phase' = "lost"
        /\ state' = state
        /\ NoneRunning
        /\ Live \subseteq {0}

LEMMA SwitchKeeps ==
  ASSUME TypeOK, TablesOK, RunningOwnsTheCpu, 0 \in Live,
         NEW contexts,
         \A s \in Slots : contexts[s].dir = context[s].dir,
         scheduler_switch_to_next_process(contexts)
  PROVE  SwitchEffect
<1>1. \A s \in Live : context[s].dir \in Directories
  BY DEF TablesOK, SlotsHoldTheirProcess, UsedDirectories
<1>2. CASE SwitchFromCurrent(contexts)
  <2>1. PICK cur \in Slots, next \in Slots :
          /\ IsCurrent(cur)
          /\ IsNext(cur, next)
          /\ state' = [state EXCEPT ![cur] = "Waiting", ![next] = "Running"]
          /\ Resume(contexts[next])
    BY <1>2 DEF SwitchFromCurrent
  <2>2. state[cur] = "Running" /\ (WaitingAt(next) \/ next = cur)
    BY <2>1 DEF IsCurrent, IsNext
  <2>3. cur \in Live /\ next \in Live
    BY <2>2 DEF Live, WaitingAt
  <2>4. \A s \in Slots : state'[s] = "Running" <=> s = next
    BY <2>1, <2>2 DEF RunningOwnsTheCpu, TypeOK
  <2>5. \A s \in Slots : state'[s] = "Inactive" <=> state[s] = "Inactive"
    BY <2>1, <2>3 DEF Live, TypeOK
  <2>6. cr3' = context[next].dir /\ phase' = "user"
    BY <1>1, <2>1, <2>3 DEF Resume
  <2>7. QED
    BY <2>3, <2>4, <2>5, <2>6 DEF SwitchEffect
<1>3. CASE SwitchFromNone(contexts)
  <2>1. PICK next \in Slots \ {0} :
          /\ IsNext(0, next)
          /\ state' = [state EXCEPT ![0] = "Waiting", ![next] = "Running"]
          /\ Resume(contexts[next])
    BY <1>3 DEF SwitchFromNone
  <2>2. NoneRunning /\ WaitingAt(next)
    BY <1>3, <2>1 DEF SwitchFromNone, IsNext
  <2>3. next \in Live
    BY <2>2 DEF Live, WaitingAt
  <2>4. \A s \in Slots : state'[s] = "Running" <=> s = next
    BY <2>1, <2>2, ConstantFacts DEF NoneRunning, TypeOK
  <2>5. \A s \in Slots : state'[s] = "Inactive" <=> state[s] = "Inactive"
    BY <2>1, <2>3 DEF Live, TypeOK
  <2>6. cr3' = context[next].dir /\ phase' = "user"
    BY <1>1, <2>1, <2>3 DEF Resume
  <2>7. QED
    BY <2>3, <2>4, <2>5, <2>6 DEF SwitchEffect
<1>4. CASE SwitchFromNull
  <2>1. \A k \in 1 .. (PROCESS_COUNT_MAX - 1) : Probe(0, k) = k
    BY ProcessAssumption DEF Probe
  <2>2. \A k \in 1 .. (PROCESS_COUNT_MAX - 1) : ~WaitingAt(k)
    BY <1>4, <2>1 DEF SwitchFromNull, IsNext
  <2>3. \A s \in Slots \ {0} : s \in 1 .. (PROCESS_COUNT_MAX - 1)
    BY ProcessAssumption DEF Slots
  <2>4. \A s \in Slots \ {0} : state[s] = "Inactive"
    BY <1>4, <2>2, <2>3
       DEF SwitchFromNull, NoneRunning, WaitingAt, TypeOK, ProcessStates
  <2>5. QED
    BY <1>4, <2>4 DEF SwitchFromNull, SwitchEffect, Live
<1>5. QED
  BY <1>2, <1>3, <1>4 DEF scheduler_switch_to_next_process

-----------------------------------------------------------------------------
(* What the CPU does, beside the tables.                                   *)
CpuOK ==
  /\ BootOrder
  /\ RunningOwnsTheCpu
  /\ LostOnlyBesideTheShell

LEMMA InvParts == KernelInv <=> TypeOK /\ TablesOK /\ CpuOK
BY DEF KernelInv, TablesOK, CpuOK

(* After a switch that changed nothing but states and contexts.            *)
LEMMA SwitchedInv ==
  ASSUME KernelInv, 0 \in Live, phase # "boot",
         NEW contexts,
         \A s \in Slots : contexts[s].dir = context[s].dir,
         scheduler_switch_to_next_process(contexts),
         context' = contexts,
         UNCHANGED <<pagingVars, name, pid, image, active_process_count>>,
         state' \in [Slots -> ProcessStates]
  PROVE  TablesOK' /\ CpuOK'
<1>1. TypeOK /\ TablesOK /\ CpuOK /\ RunningOwnsTheCpu /\ BootOrder
  BY InvParts DEF CpuOK
<1>2. SwitchEffect
  BY <1>1, SwitchKeeps
<1>3. TablesOK' /\ Live' = Live /\ UsedDirectories' = UsedDirectories
  BY <1>1, <1>2, UnchangedTables DEF SwitchEffect
<1>4. state'[0] # "Inactive" /\ name'[0] = Shell
  BY <1>1, <1>2, ConstantFacts DEF SwitchEffect, BootOrder, Live
<1>5. CASE phase' = "user"
  <2>1. PICK next \in Live :
          /\ \A s \in Slots : state'[s] = "Running" <=> s = next
          /\ cr3' = context[next].dir
    BY <1>2, <1>5 DEF SwitchEffect
  <2>2. next \in Slots /\ context[next].dir \in UsedDirectories
    BY <1>1, <2>1 DEF Live, TablesOK, SlotsHoldTheirProcess
  <2>3. RunningOwnsTheCpu'
    BY <2>1, <2>2 DEF RunningOwnsTheCpu, NoneRunning
  <2>4. BootOrder' /\ LostOnlyBesideTheShell'
    BY <1>3, <1>4, <1>5, <2>1, <2>2 DEF BootOrder, LostOnlyBesideTheShell
  <2>5. QED
    BY <1>3, <2>3, <2>4 DEF CpuOK
<1>6. CASE phase' # "user"
  <2>1. phase' = "lost" /\ state' = state /\ Live \subseteq {0}
    BY <1>2, <1>6 DEF SwitchEffect
  <2>2. RunningOwnsTheCpu'
    BY <1>1, <2>1 DEF RunningOwnsTheCpu, InUser
  <2>3. BootOrder' /\ LostOnlyBesideTheShell'
    BY <1>3, <1>4, <2>1 DEF BootOrder, LostOnlyBesideTheShell
  <2>4. QED
    BY <1>3, <2>2, <2>3 DEF CpuOK
<1>7. QED
  BY <1>5, <1>6

(* The system calls of the shell leave the CPU where it is.                *)
LEMMA CreatedInv ==
  ASSUME KernelBoots, KernelInv, phase = "user", UNCHANGED cpuVars,
         NEW program \in Programs, process_create_user_process(program)
  PROVE  TablesOK' /\ CpuOK'
<1>1. TypeOK /\ TablesOK /\ RunningOwnsTheCpu /\ BootOrder
  BY DEF KernelInv, TablesOK
<1>2. CreateEffect
  BY <1>1, CreateKeeps
<1>3. phase' = "user" /\ cr3' = cr3 /\ cr3 \in UsedDirectories
  BY <1>1 DEF cpuVars, BootOrder
<1>4. \A s \in Slots : state'[s] = "Running" <=> state[s] = "Running"
  BY <1>2 DEF CreateEffect, Live
<1>5. \A s \in Slots : state'[s] = "Running" => context'[s].dir = context[s].dir
  BY <1>2, <1>4 DEF CreateEffect, Live
<1>6. \A s \in Live' : \/ s \in Live /\ context'[s].dir = context[s].dir
                      \/ context'[s].dir \notin UsedDirectories
  BY <1>2 DEF CreateEffect, Live
<1>7. RunningOwnsTheCpu'
  BY <1>1, <1>3, <1>4, <1>5, <1>6
     DEF RunningOwnsTheCpu, NoneRunning, InUser, LiveDirectories
<1>8. BootOrder' /\ LostOnlyBesideTheShell'
  BY <1>1, <1>2, <1>3, ConstantFacts
     DEF BootOrder, LostOnlyBesideTheShell, CreateEffect, Live
<1>9. QED
  BY <1>2, <1>7, <1>8 DEF CreateEffect, CpuOK

LEMMA DestroyedInv ==
  ASSUME KernelInv, phase = "user", UNCHANGED cpuVars,
         NEW p \in 1 .. PROCESS_COUNT_MAX, process_destroy(p)
  PROVE  TablesOK' /\ CpuOK'
<1>1. TypeOK /\ TablesOK /\ RunningOwnsTheCpu /\ BootOrder
  BY DEF KernelInv, TablesOK
<1>2. DestroyEffect
  BY <1>1, DestroyKeeps
<1>3. phase' = "user" /\ cr3' = cr3
  BY DEF cpuVars
<1>4. \A s \in Live' : /\ s \in Live /\ state'[s] = state[s]
                       /\ context'[s] = context[s]
  BY <1>2 DEF DestroyEffect, Live
<1>5. \A s \in Slots : state'[s] = "Running" =>
          state[s] = "Running" /\ context'[s] = context[s]
  BY <1>2 DEF DestroyEffect
<1>6. NoneRunning' => cr3 \notin LiveDirectories'
  <2>1. SUFFICES ASSUME NoneRunning', NEW s \in Live', context'[s].dir = cr3
                 PROVE  FALSE
    BY DEF LiveDirectories
  <2>2. s \in Live /\ s \in Slots /\ context[s].dir = cr3 /\ state[s] # "Running"
    BY <1>4, <2>1 DEF Live, NoneRunning
  <2>3. PICK r \in Slots : state[r] = "Running"
    BY <1>1, <2>2 DEF RunningOwnsTheCpu, InUser, LiveDirectories, NoneRunning
  <2>4. r \in Live /\ context[r].dir = cr3
    BY <1>1, <2>3 DEF RunningOwnsTheCpu, InUser, Live
  <2>5. QED
    BY <1>1, <2>2, <2>3, <2>4 DEF TablesOK, SlotsHoldTheirProcess
<1>7. RunningOwnsTheCpu'
  BY <1>1, <1>3, <1>5, <1>6 DEF RunningOwnsTheCpu, InUser
<1>8. BootOrder' /\ LostOnlyBesideTheShell'
  BY <1>1, <1>2, <1>3, ConstantFacts
     DEF BootOrder, LostOnlyBesideTheShell, DestroyEffect
<1>9. QED
  BY <1>2, <1>7, <1>8 DEF DestroyEffect, CpuOK

(* At boot the creation of the shell cannot fail, and it gets slot 0.      *)
LEMMA BootCreateSucceeds ==
  ASSUME KernelBoots, KernelInv, BootCreate
  PROVE  CreateSuccess(Shell)
<1>1. TypeOK /\ TablesOK /\ BootOrder /\ phase = "boot" /\ phase' = "created"
  BY DEF KernelInv, TablesOK, BootCreate
<1>2. /\ Live = {} /\ UsedDirectories = {} /\ active_process_count = 0
      /\ free_page_frame_count >= page_frame_count_needed
  <2>1. Live = {} /\ UsedDirectories = {} /\ active_process_count = 0
    BY <1>1 DEF BootOrder
  <2>2. Cardinality(TakenFrames) = 0
    BY <1>1, <2>1, FS_EmptySet DEF TablesOK, CountsAgree
  <2>3. free_page_frame_count = PAGE_FRAME_MAX_COUNT
    BY <1>1, <2>2, PagingAssumption
       DEF TablesOK, CountsAgree, TypeOK, PagingTypeOK, PAGE_FRAME_UNMAPPED
  <2>4. QED
    BY <2>1, <2>3 DEF KernelBoots
<1>3. ~CreateMaxExceeded
  BY <1>2, ConstantFacts, ProcessAssumption DEF CreateMaxExceeded
<1>4. ~CreateNotEnoughMemory
  BY <1>2 DEF CreateNotEnoughMemory, paging_allocate_check
<1>5. ~CreateNoDirectory(Shell) /\ ~CreateReadFailure(Shell)
  BY <1>2, ConstantFacts, PagingAssumption
     DEF CreateNoDirectory, CreateReadFailure, KernelBoots, Directories
<1>6. QED
  BY <1>3, <1>4, <1>5 DEF BootCreate, process_create_user_process

LEMMA BootCreateInv ==
  ASSUME KernelBoots, KernelInv, BootCreate
  PROVE  TablesOK' /\ CpuOK'
<1>1. TypeOK /\ TablesOK /\ BootOrder /\ phase = "boot" /\ phase' = "created"
  BY DEF KernelInv, TablesOK, BootCreate
<1>2. Live = {} /\ UsedDirectories = {}
  BY <1>1 DEF BootOrder
<1>3. CreateSuccess(Shell)
  BY BootCreateSucceeds
<1>4. TablesOK'
  BY <1>1, <1>3, CreateSucceeds, KernelAssumption DEF CreateEffect
<1>5. PICK s \in Slots : /\ IsFirstInactive(s)
                         /\ name' = [name EXCEPT ![s] = Shell]
                         /\ state' = [state EXCEPT ![s] = "Waiting"]
  BY <1>3 DEF CreateSuccess
<1>6. s = 0
  BY <1>2, <1>5, ConstantFacts, ProcessAssumption DEF IsFirstInactive, Slots
<1>7. state'[0] = "Waiting" /\ name'[0] = Shell /\ Live' = {0}
  BY <1>1, <1>2, <1>5, <1>6 DEF TypeOK, Live
<1>8. RunningOwnsTheCpu'
  BY <1>1, <1>7 DEF RunningOwnsTheCpu, InUser, Live
<1>9. QED
  BY <1>1, <1>4, <1>7, <1>8 DEF CpuOK, BootOrder, LostOnlyBesideTheShell

LEMMA BootInitInv ==
  ASSUME KernelInv, BootInit
  PROVE  TablesOK' /\ CpuOK'
<1>1. /\ TypeOK /\ TablesOK /\ BootOrder
      /\ phase = "created" /\ phase' = "scheduled"
  BY DEF KernelInv, TablesOK, BootInit
<1>2. Live = {0} /\ state[0] = "Waiting" /\ name[0] = Shell
  BY <1>1 DEF BootOrder
<1>3. \A t \in Slots : WaitingAt(t) <=> t = 0
  BY <1>2, ConstantFacts DEF WaitingAt, Live
<1>4. state' = [state EXCEPT ![0] = "Running"]
  BY <1>3, ConstantFacts, ProcessAssumption DEF BootInit, scheduler_init, WaitingAt, Slots
<1>5. /\ \A s \in Slots : state'[s] = "Inactive" <=> state[s] = "Inactive"
      /\ \A s \in Slots : state'[s] = "Running" => s = 0
      /\ state'[0] = "Running" /\ state' \in [Slots -> ProcessStates]
  BY <1>1, <1>2, <1>4, ConstantFacts DEF TypeOK, ProcessStates, Live
<1>6. TablesOK' /\ Live' = Live
  BY <1>1, <1>5, UnchangedTables DEF BootInit
<1>7. RunningOwnsTheCpu'
  BY <1>1, <1>5 DEF RunningOwnsTheCpu, InUser
<1>8. QED
  BY <1>1, <1>2, <1>5, <1>6, <1>7 DEF BootInit, CpuOK, BootOrder, LostOnlyBesideTheShell

(* The program that calls exit is the one in the Running slot's memory, so *)
(* it is not the shell and slot 0 stays.                                   *)
LEMMA ExitInv ==
  ASSUME KernelInv, Exit
  PROVE  TablesOK' /\ CpuOK'
<1>1. /\ TypeOK /\ TablesOK /\ BootOrder /\ RunningOwnsTheCpu
      /\ phase = "user" /\ phase' = "user" /\ cr3' = cr3
  BY DEF KernelInv, TablesOK, Exit, InUser, cpuVars
<1>2. PICK cur \in Slots : /\ state[cur] = "Running"
                           /\ state' = [state EXCEPT ![cur] = "Inactive"]
  BY DEF Exit, IsCurrent
<1>3. cr3 = context[cur].dir /\ cur \in Live
  BY <1>1, <1>2 DEF RunningOwnsTheCpu, InUser, Live
<1>4. name[cur] \in Exiting
  <2>1. image[FrameOf(cr3)] = name[cur] /\ FrameOf(cr3) \in Frames
    BY <1>1, <1>3
       DEF TablesOK, SlotsHoldTheirProcess, DirectoriesMapApart, TakenFrames
  <2>2. QED
    BY <2>1 DEF Exit, CurrentProgram, CurrentImage, FrameOf
<1>5. cur # 0
  BY <1>1, <1>4, KernelAssumption DEF BootOrder
<1>6. /\ Live' = Live \ {cur} /\ Live \subseteq Slots
      /\ \A s \in Slots : state'[s] # "Running"
  BY <1>1, <1>2 DEF Live, RunningOwnsTheCpu, TypeOK
<1>7. /\ UsedDirectories' = UsedDirectories /\ TakenFrames' = TakenFrames
      /\ \A d : FrameOf(d)' = FrameOf(d)
      /\ UNCHANGED <<name, pid, context, image, active_process_count,
                     free_page_frame_count, page_directory_list>>
  BY DEF Exit, UsedDirectories, TakenFrames, FrameOf, pagingVars
<1>8. CountsAgree' /\ DirectoriesMapApart'
  BY <1>1, <1>7 DEF TablesOK, CountsAgree, DirectoriesMapApart
<1>9. SlotsHoldTheirProcess'
  BY <1>1, <1>6, <1>7 DEF TablesOK, SlotsHoldTheirProcess, FrameOf
<1>10. CountCoversLive'
  <2>1. CountedSlots' \subseteq CountedSlots
    BY <1>6, <1>7 DEF CountedSlots
  <2>2. Cardinality(CountedSlots') <= Cardinality(CountedSlots)
        /\ Cardinality(CountedSlots') \in Nat
    BY <2>1, FiniteParts, FS_Subset, FS_CardinalityType
  <2>3. QED
    BY <1>1, <1>7, <2>2, FiniteParts DEF TablesOK, CountCoversLive, TypeOK
<1>11. RunningOwnsTheCpu'
  <2>1. \A s \in Live' : context[s].dir # cr3
    BY <1>1, <1>3, <1>6 DEF TablesOK, SlotsHoldTheirProcess
  <2>2. cr3 \notin LiveDirectories'
    BY <1>7, <2>1 DEF LiveDirectories
  <2>3. QED
    BY <1>1, <1>6, <2>2 DEF RunningOwnsTheCpu
<1>12. BootOrder' /\ LostOnlyBesideTheShell'
  BY <1>1, <1>2, <1>5, <1>7, ConstantFacts DEF BootOrder, LostOnlyBesideTheShell, TypeOK
<1>13. QED
  BY <1>8, <1>9, <1>10, <1>11, <1>12 DEF TablesOK, CpuOK

(* A program that has exited scribbles on a frame nobody lives in.         *)
LEMMA ExitAgainInv ==
  ASSUME KernelInv, ExitAgain
  PROVE  TablesOK' /\ CpuOK'
<1>1. /\ TypeOK /\ TablesOK /\ BootOrder /\ RunningOwnsTheCpu /\ LostOnlyBesideTheShell
      /\ phase = "user" /\ cr3 \in UsedDirectories
  BY DEF KernelInv, TablesOK, ExitAgain, InUser, BootOrder
<1>2. image' = [image EXCEPT ![FrameOf(cr3)] = Scribbled]
  BY DEF ExitAgain, CurrentImage, FrameOf
<1>3. UNCHANGED <<pagingVars, state, name, pid, context, active_process_count,
                  phase, cr3>>
  BY DEF ExitAgain, cpuVars
<1>4. \A s \in Live : image'[FrameOf(context[s].dir)] = image[FrameOf(context[s].dir)]
  <2>1. TAKE s \in Live
  <2>2. context[s].dir # cr3
    BY <1>1 DEF RunningOwnsTheCpu, ExitAgain, LiveDirectories
  <2>3. /\ context[s].dir \in UsedDirectories
        /\ FrameOf(context[s].dir) \in Frames
    BY <1>1 DEF TablesOK, SlotsHoldTheirProcess, DirectoriesMapApart, TakenFrames
  <2>4. FrameOf(context[s].dir) # FrameOf(cr3)
    BY <1>1, <2>2, <2>3 DEF TablesOK, DirectoriesMapApart
  <2>5. QED
    BY <1>1, <1>2, <2>3, <2>4 DEF TypeOK
<1>5. /\ UsedDirectories' = UsedDirectories /\ TakenFrames' = TakenFrames
      /\ Live' = Live /\ CountedSlots' = CountedSlots
      /\ UNCHANGED <<free_page_frame_count, page_directory_list>>
  BY <1>3 DEF UsedDirectories, TakenFrames, Live, CountedSlots, pagingVars
<1>6. CountsAgree' /\ DirectoriesMapApart' /\ CountCoversLive'
  BY <1>1, <1>3, <1>5
     DEF TablesOK, CountsAgree, DirectoriesMapApart, CountCoversLive, FrameOf
<1>7. SlotsHoldTheirProcess'
  BY <1>1, <1>3, <1>4, <1>5 DEF TablesOK, SlotsHoldTheirProcess, FrameOf
<1>8. CpuOK'
  BY <1>1, <1>3, <1>5
     DEF CpuOK, BootOrder, RunningOwnsTheCpu, LostOnlyBesideTheShell, InUser,
         NoneRunning, LiveDirectories
<1>9. QED
  BY <1>6, <1>7, <1>8 DEF TablesOK

(* User computation and the shell's listings touch none of the tables.     *)
LEMMA QuietInv ==
  ASSUME KernelInv, UNCHANGED <<pagingVars, processVars, phase, cr3>>
  PROVE  TablesOK' /\ CpuOK'
<1>1. UNCHANGED <<state, name, pid, context, image, active_process_count>>
  BY DEF processVars
<1>2. TablesOK' /\ Live' = Live /\ UsedDirectories' = UsedDirectories
  BY <1>1, InvParts, UnchangedTables DEF TypeOK
<1>3. QED
  BY <1>1, <1>2, InvParts
     DEF CpuOK, BootOrder, RunningOwnsTheCpu, LostOnlyBesideTheShell, InUser,
         NoneRunning, LiveDirectories

-----------------------------------------------------------------------------
LEMMA InitInv == Init => KernelInv
<1> SUFFICES ASSUME Init PROVE KernelInv
  OBVIOUS
<1>1. TypeOK
  BY InitTypeOK
<1>2. Live = {} /\ UsedDirectories = {} /\ TakenFrames = {} /\ CountedSlots = {}
  BY DEF Init, PagingInit, ProcessInit, Live, UsedDirectories, TakenFrames,
         CountedSlots
<1>3. CountsAgree /\ CountCoversLive
  BY <1>2, FS_EmptySet, PagingAssumption
     DEF Init, PagingInit, ProcessInit, CountsAgree, CountCoversLive,
         PAGE_FRAME_UNMAPPED
<1>4. DirectoriesMapApart /\ SlotsHoldTheirProcess /\ BootOrder
  BY <1>2 DEF DirectoriesMapApart, SlotsHoldTheirProcess, BootOrder, Init, ProcessInit
<1>5. RunningOwnsTheCpu /\ LostOnlyBesideTheShell
  BY <1>2 DEF RunningOwnsTheCpu, LostOnlyBesideTheShell, Init, InUser, ProcessInit
<1>6. QED
  BY <1>1, <1>3, <1>4, <1>5 DEF KernelInv

LEMMA StepInv ==
  ASSUME KernelBoots, KernelInv, [Next]_vars
  PROVE  KernelInv'
<1>1. TypeOK /\ TypeOK'
  BY StepType, InvParts
<1> SUFFICES TablesOK' /\ CpuOK'
  BY <1>1 DEF KernelInv, TablesOK, CpuOK
<1>2. phase \notin {"boot", "created"} => 0 \in Live
  BY ConstantFacts DEF KernelInv, BootOrder, Live
<1>3. CASE BootCreate
  BY <1>3, BootCreateInv
<1>4. CASE BootInit
  BY <1>4, BootInitInv
<1>5. CASE BootSwitch
  BY <1>1, <1>2, <1>5, SwitchedInv DEF BootSwitch, TypeOK
<1>6. CASE UserStep
  BY <1>6, QuietInv DEF UserStep
<1>7. CASE TimerInterrupt
  <2>1. \A s \in Slots : SavedContext[s].dir = context[s].dir
    BY DEF SavedContext
  <2>2. QED
    BY <1>1, <1>2, <1>7, <2>1, SwitchedInv DEF TimerInterrupt, InUser, TypeOK
<1>8. CASE Fault
  BY <1>1, <1>2, <1>8, SwitchedInv DEF Fault, InUser, TypeOK
<1>9. CASE Exit
  BY <1>9, ExitInv
<1>10. CASE ExitAgain
  BY <1>10, ExitAgainInv
<1>11. CASE ShellListsToKill
  BY <1>11, QuietInv DEF ShellListsToKill, cpuVars
<1>12. CASE ShellListsToExec
  BY <1>12, QuietInv DEF ShellListsToExec, cpuVars
<1>13. CASE ShellKills
  <2>1. phase = "user" /\ UNCHANGED cpuVars /\ process_destroy(pending[cr3].pid)
    BY <1>13 DEF ShellKills, InShell, InUser
  <2>2. pending[cr3].pid \in 1 .. PROCESS_COUNT_MAX
    BY <1>1, <1>13, PendingCommands DEF ShellKills, InShell, InUser, TypeOK
  <2>3. QED
    BY <2>1, <2>2, DestroyedInv
<1>14. CASE ShellExecs
  <2>1. /\ phase = "user" /\ UNCHANGED cpuVars
        /\ process_create_user_process(pending[cr3].program)
    BY <1>14 DEF ShellExecs, InShell, InUser
  <2>2. pending[cr3].program \in Programs
    BY <1>1, <1>14, PendingCommands DEF ShellExecs, InShell, InUser, TypeOK
  <2>3. QED
    BY <2>1, <2>2, CreatedInv
<1>15. CASE UNCHANGED vars
  BY <1>15, QuietInv DEF vars, cpuVars
<1>16. QED
  BY <1>3, <1>4, <1>5, <1>6, <1>7, <1>8, <1>9, <1>10, <1>11, <1>12, <1>13,
     <1>14, <1>15 DEF Next, Boot

(* In a kernel that boots, for every number of slots, frames, directories  *)
(* and programs, the tables and counters of the page and process managers  *)
(* agree with each other and with what the CPU does, through every order   *)
(* of timer interrupts, faults, exits, kills and executions.               *)
THEOREM KernelInvariant ==
  ASSUME KernelBoots
  PROVE  Spec => []KernelInv
<1>1. Init => KernelInv
  BY InitInv
<1>2. KernelInv /\ [Next]_vars => KernelInv'
  BY StepInv
<1>3. QED
  BY <1>1, <1>2, PTL DEF Spec

-----------------------------------------------------------------------------
(* What a reader wants to know, from KernelInv.                            *)

(* The program that traps is the one the table says is Running, in its own *)
(* address space; with none Running the CPU is in no living process.       *)
THEOREM CpuOwnership ==
  ASSUME KernelBoots
  PROVE  Spec => []RunningOwnsTheCpu
<1>1. KernelInv => RunningOwnsTheCpu
  BY DEF KernelInv
<1>2. QED
  BY <1>1, KernelInvariant, PTL

(* Creating, killing, failing to load, exiting and scribbling never touch  *)
(* the memory of a process that lives.                                     *)
THEOREM MemoryIsolation ==
  ASSUME KernelBoots
  PROVE  Spec => []ProcessesKeepTheirMemory
<1>1. KernelInv => ProcessesKeepTheirMemory
  <2> SUFFICES ASSUME KernelInv, NEW s \in Live
               PROVE  /\ context[s].dir \in UsedDirectories
                      /\ FrameOf(context[s].dir) \in Frames
                      /\ image[FrameOf(context[s].dir)] = name[s]
                      /\ \A t \in Live \ {s} :
                           /\ context[s].dir # context[t].dir
                           /\ FrameOf(context[s].dir) # FrameOf(context[t].dir)
    BY DEF ProcessesKeepTheirMemory
  <2>1. SlotsHoldTheirProcess /\ DirectoriesMapApart
    BY DEF KernelInv
  <2>2. QED
    BY <2>1 DEF SlotsHoldTheirProcess, DirectoriesMapApart, TakenFrames
<1>2. QED
  BY <1>1, KernelInvariant, PTL

(* The counter the memory check reads is the number of free frames.        *)
THEOREM FreeCountCorrect ==
  ASSUME KernelBoots
  PROVE  Spec => []FreeCountExact
<1>1. KernelInv => FreeCountExact
  <2>1. CountsAgree /\ TypeOK => FreeCountExact
    BY FreeFramesCount, FiniteParts, PagingAssumption
       DEF CountsAgree, FreeCountExact, TypeOK, PagingTypeOK, PAGE_FRAME_UNMAPPED
  <2>2. QED
    BY <2>1 DEF KernelInv
<1>2. QED
  BY <1>1, KernelInvariant, PTL

(* The creation that would leave a Waiting slot without a page directory   *)
(* is never reached, because directories are no scarcer than frames.       *)
THEOREM CreationIsWhole ==
  ASSUME KernelBoots
  PROVE  Spec => []CreateNeverLeavesAHalf
<1>1. KernelInv => CreateNeverLeavesAHalf
  BY DirectoryLeft DEF KernelInv, CreateNeverLeavesAHalf
<1>2. QED
  BY <1>1, KernelInvariant, PTL

(* active_process_count is at least the number of occupied slots.          *)
THEOREM CounterCovers ==
  ASSUME KernelBoots
  PROVE  Spec => []CountCoversLive
<1>1. KernelInv => CountCoversLive
  BY DEF KernelInv
<1>2. QED
  BY <1>1, KernelInvariant, PTL

-----------------------------------------------------------------------------
(* The shell has frame 0: it is created first, and nothing changes a page  *)
(* of a directory that is in use.                                          *)
ShellHasFrame0 == phase # "boot" => FrameOf(context[0].dir) = 0

LEMMA CreateKeepsFrames ==
  ASSUME TypeOK, NEW program, process_create_user_process(program)
  PROVE  \A d \in UsedDirectories : FrameOf(d)' = FrameOf(d)
<1>1. ASSUME NEW e \in Directories, NEW f \in Frames, BuildAddressSpace(e, f)
      PROVE  \A d \in UsedDirectories : FrameOf(d)' = FrameOf(d)
  BY <1>1 DEF BuildAddressSpace, IsFirstUnusedDirectory, FrameOf, UsedDirectories,
             TypeOK, PagingTypeOK
<1>2. CASE UNCHANGED pagingVars
  BY <1>2 DEF pagingVars, FrameOf
<1>3. QED
  BY <1>1, <1>2 DEF process_create_user_process, CreateMaxExceeded,
     CreateNotEnoughMemory, CreateNoDirectory, CreateReadFailure, CreateSuccess

LEMMA BootCreateFrame ==
  ASSUME KernelBoots, KernelInv, BootCreate
  PROVE  ShellHasFrame0'
<1>1. /\ TypeOK /\ TablesOK /\ CreateSuccess(Shell) /\ Live = {}
      /\ UsedDirectories = {}
  BY BootCreateSucceeds DEF KernelInv, TablesOK, BootOrder, BootCreate
<1>2. PICK s \in Slots, d \in Directories, f \in Frames :
        /\ IsFirstInactive(s)
        /\ BuildAddressSpace(d, f)
        /\ context' = [context EXCEPT ![s] = [eip |-> 0, dir |-> d]]
  BY <1>1 DEF CreateSuccess
<1>3. s = 0
  BY <1>1, <1>2, ConstantFacts, ProcessAssumption DEF IsFirstInactive, Slots
<1>4. FrameOf(d)' = f
  BY <1>1, <1>2, BuildSteps DEF CreateSuccess, TablesOK
<1>5. f = 0
  <2>1. Cardinality(TakenFrames) = 0
    BY <1>1, FS_EmptySet DEF TablesOK, CountsAgree
  <2>2. TakenFrames = {}
    BY <2>1, FiniteParts, FS_EmptySet
  <2>3. 0 \in Frames /\ f \in Frames /\ \A g \in FreeFrames : f <= g
    BY <1>2, PagingAssumption
       DEF BuildAddressSpace, IsFirstFreeFrame, Frames, PAGE_FRAME_UNMAPPED
  <2>4. 0 \in FreeFrames
    BY <2>2, <2>3 DEF FreeFrames, TakenFrames
  <2>5. QED
    BY <2>3, <2>4, PagingAssumption DEF Frames, PAGE_FRAME_UNMAPPED
<1>6. context'[0].dir = d
  BY <1>1, <1>2, <1>3 DEF TypeOK
<1>7. QED
  BY <1>4, <1>5, <1>6 DEF ShellHasFrame0

LEMMA StepKeepsFrame ==
  ASSUME KernelBoots, KernelInv, ShellHasFrame0, [Next]_vars
  PROVE  ShellHasFrame0'
<1>1. TypeOK /\ TablesOK /\ BootOrder
  BY DEF KernelInv, TablesOK
<1>2. CASE BootCreate
  BY <1>2, BootCreateFrame
<1>3. ASSUME phase # "boot", context'[0].dir = context[0].dir,
             \A d \in UsedDirectories : FrameOf(d)' = FrameOf(d)
      PROVE  ShellHasFrame0'
  <2>1. 0 \in Live
    BY <1>1, <1>3, ConstantFacts DEF BootOrder, Live
  <2>2. context[0].dir \in UsedDirectories
    BY <1>1, <2>1 DEF TablesOK, SlotsHoldTheirProcess
  <2>3. QED
    BY <1>3, <2>2 DEF ShellHasFrame0, FrameOf
<1>4. CASE UNCHANGED pagingVars /\ context'[0].dir = context[0].dir /\ phase # "boot"
  BY <1>3, <1>4 DEF pagingVars, FrameOf
<1>5. CASE BootInit
  BY <1>4, <1>5 DEF BootInit
<1>6. CASE BootSwitch
  BY <1>4, <1>6 DEF BootSwitch
<1>7. CASE UserStep \/ ShellListsToKill \/ ShellListsToExec
  BY <1>4, <1>7 DEF UserStep, ShellListsToKill, ShellListsToExec, InShell, InUser,
                    processVars
<1>8. CASE TimerInterrupt
  <2>1. SavedContext[0].dir = context[0].dir
    BY ConstantFacts DEF SavedContext
  <2>2. QED
    BY <1>4, <1>8, <2>1 DEF TimerInterrupt, InUser
<1>9. CASE Fault \/ Exit \/ ExitAgain
  BY <1>4, <1>9 DEF Fault, Exit, ExitAgain, InUser
<1>10. CASE ShellKills
  <2>1. /\ phase = "user" /\ UNCHANGED pagingVars
        /\ process_destroy(pending[cr3].pid)
    BY <1>10 DEF ShellKills, InShell, InUser, process_destroy
  <2>2. pending[cr3].pid \in 1 .. PROCESS_COUNT_MAX
    BY <1>1, <1>10, PendingCommands DEF ShellKills, InShell, InUser, TypeOK, BootOrder
  <2>3. DestroyEffect /\ state'[0] # "Inactive"
    BY <1>1, <2>1, <2>2, DestroyKeeps, ConstantFacts DEF DestroyEffect, BootOrder
  <2>4. context'[0] = context[0]
    BY <2>3, ConstantFacts DEF DestroyEffect
  <2>5. QED
    BY <1>4, <2>1, <2>4
<1>11. CASE ShellExecs
  <2>1. phase = "user" /\ process_create_user_process(pending[cr3].program)
    BY <1>11 DEF ShellExecs, InShell, InUser
  <2>2. pending[cr3].program \in Programs
    BY <1>1, <1>11, PendingCommands DEF ShellExecs, InShell, InUser, TypeOK, BootOrder
  <2>3. CreateEffect /\ 0 \in Live
    BY <1>1, <2>1, <2>2, CreateKeeps, ConstantFacts DEF BootOrder, Live
  <2>4. context'[0] = context[0]
    BY <2>3 DEF CreateEffect
  <2>5. QED
    BY <1>1, <1>3, <2>1, <2>4, CreateKeepsFrames
<1>12. CASE UNCHANGED vars
  BY <1>12 DEF vars, cpuVars, processVars, pagingVars, ShellHasFrame0, FrameOf
<1>13. QED
  BY <1>2, <1>5, <1>6, <1>7, <1>8, <1>9, <1>10, <1>11, <1>12 DEF Next, Boot

(* Slot 0 holds the shell whenever user code runs, and its program page is *)
(* frame 0, through which erasing over the start of a row finds the screen.*)
THEOREM ShellIsKept ==
  ASSUME KernelBoots
  PROVE  Spec => []ShellSurvives
<1>1. KernelInv /\ ShellHasFrame0 => ShellSurvives
  BY ConstantFacts
     DEF KernelInv, BootOrder, SlotsHoldTheirProcess, ShellSurvives, InUser,
         ShellHasFrame0
<1>2. Init => ShellHasFrame0
  BY DEF Init, ShellHasFrame0
<1>3. KernelInv /\ ShellHasFrame0 /\ [Next]_vars => ShellHasFrame0'
  BY StepKeepsFrame
<1>4. QED
  BY <1>1, <1>2, <1>3, KernelInvariant, PTL DEF Spec

(* The switch through a NULL PCB pointer happens only when the shell is    *)
(* the only process left.                                                  *)
THEOREM LossIsLast ==
  ASSUME KernelBoots
  PROVE  Spec => []LostOnlyBesideTheShell
<1>1. KernelInv => LostOnlyBesideTheShell
  BY DEF KernelInv
<1>2. QED
  BY <1>1, KernelInvariant, PTL

-----------------------------------------------------------------------------
(* What Kernel promises the programs, beyond the agreement of its tables:  *)
(* a process resumes where it stopped; exec's check that a program is not  *)
(* running is still true when the process is created; a kernel whose       *)
(* programs do not end never loses the CPU; and Kernel implements          *)
(* Multitasking.  The second and the third hold under conditions the code  *)
(* does not provide by itself, and those are the hypotheses.               *)

(* While user code runs, the program in the CPU's address space is the one *)
(* the Running slot is named for.                                          *)
LEMMA CurrentIsNamed ==
  ASSUME KernelInv, InUser, NEW s \in Slots, state[s] = "Running"
  PROVE  /\ s \in Live /\ cr3 = context[s].dir /\ IsCurrent(s)
         /\ CurrentProgram = name[s]
<1>1. /\ TypeOK /\ RunningOwnsTheCpu /\ SlotsHoldTheirProcess /\ DirectoriesMapApart
  BY DEF KernelInv
<1>2. s \in Live /\ cr3 = context[s].dir
  BY <1>1 DEF RunningOwnsTheCpu, Live
<1>3. IsCurrent(s)
  BY <1>1, ProcessAssumption DEF RunningOwnsTheCpu, IsCurrent, Slots
<1>4. image[FrameOf(cr3)] = name[s] /\ FrameOf(cr3) \in Frames
  BY <1>1, <1>2 DEF SlotsHoldTheirProcess, DirectoriesMapApart, TakenFrames
<1>5. QED
  BY <1>2, <1>3, <1>4 DEF CurrentProgram, CurrentImage, FrameOf

(* With none Running, no living process has the CPU's address space.       *)
LEMMA OthersElsewhere ==
  ASSUME KernelInv, InUser, NEW s \in Live, state[s] # "Running"
  PROVE  context[s].dir # cr3
<1>1. RunningOwnsTheCpu /\ SlotsHoldTheirProcess
  BY DEF KernelInv
<1>2. CASE NoneRunning
  BY <1>1, <1>2 DEF RunningOwnsTheCpu, LiveDirectories
<1>3. CASE ~NoneRunning
  <2>1. PICK r \in Slots : state[r] = "Running"
    BY <1>3 DEF NoneRunning
  <2>2. r \in Live /\ cr3 = context[r].dir
    BY <2>1, CurrentIsNamed
  <2>3. QED
    BY <1>1, <2>1, <2>2 DEF SlotsHoldTheirProcess
<1>4. QED
  BY <1>2, <1>3

-----------------------------------------------------------------------------
(* Resuming.  A process on the CPU is at eip, another at the point in its  *)
(* PCB; either is the point it had reached.  A directory that was never    *)
(* handed out has no history.                                              *)
PointOf(s) == IF InUser /\ state[s] = "Running" THEN eip ELSE context[s].eip
ProgressFromZero == \A d \in Directories \ UsedDirectories : progress[d] = 0
PointsAreReached ==
  \A s \in Live : name[s] \notin Faulting => PointOf(s) = progress[context[s].dir]
ResumeInv == ProgressFromZero /\ PointsAreReached

(* The process a switch puts on the CPU goes on at the point it loads.     *)
LEMMA SwitchLoads ==
  ASSUME TypeOK, RunningOwnsTheCpu, NEW contexts,
         scheduler_switch_to_next_process(contexts), phase' = "user",
         NEW s \in Slots, state'[s] = "Running"
  PROVE  eip' = contexts[s].eip
<1>1. CASE SwitchFromCurrent(contexts)
  BY <1>1 DEF SwitchFromCurrent, IsCurrent, Resume, RunningOwnsTheCpu, TypeOK
<1>2. CASE SwitchFromNone(contexts)
  BY <1>2 DEF SwitchFromNone, NoneRunning, Resume, TypeOK
<1>3. CASE SwitchFromNull
  BY <1>3 DEF SwitchFromNull
<1>4. QED
  BY <1>1, <1>2, <1>3 DEF scheduler_switch_to_next_process

LEMMA SwitchResumes ==
  ASSUME KernelInv, ResumeInv, 0 \in Live, NEW contexts,
         \A s \in Slots : contexts[s].dir = context[s].dir,
         \A s \in Live : name[s] \notin Faulting =>
                           contexts[s].eip = progress[context[s].dir],
         scheduler_switch_to_next_process(contexts), context' = contexts,
         UNCHANGED <<pagingVars, name, progress>>
  PROVE  ResumeInv'
<1>1. TypeOK /\ TablesOK /\ RunningOwnsTheCpu
  BY InvParts DEF CpuOK
<1>2. Live' = Live /\ Live \subseteq Slots
  BY <1>1, SwitchKeeps DEF SwitchEffect, Live
<1>3. ProgressFromZero'
  BY DEF ResumeInv, ProgressFromZero, UsedDirectories, pagingVars
<1>4. \A s \in Live : PointOf(s)' = contexts[s].eip
  BY <1>1, <1>2, SwitchLoads DEF PointOf, InUser
<1>5. PointsAreReached'
  BY <1>2, <1>4 DEF PointsAreReached
<1>6. QED
  BY <1>3, <1>5 DEF ResumeInv

(* A created process starts at its entry, in a directory without history.  *)
LEMMA NewcomerStarts ==
  ASSUME KernelBoots, TypeOK, TablesOK, NEW program,
         process_create_user_process(program),
         NEW s \in Slots \ Live, state'[s] # "Inactive"
  PROVE  context'[s].eip = 0 /\ name'[s] = program
<1>1. CASE CreateMaxExceeded \/ CreateNotEnoughMemory
  BY <1>1 DEF CreateMaxExceeded, CreateNotEnoughMemory, processVars, Live
<1>2. CASE CreateNoDirectory(program)
  BY <1>2, DirectoryLeft DEF CreateNoDirectory, TablesOK
<1>3. CASE CreateReadFailure(program)
  BY <1>3 DEF CreateReadFailure, ZeroPcb, TypeOK, Live
<1>4. CASE CreateSuccess(program)
  BY <1>4 DEF CreateSuccess, TypeOK, Live
<1>5. QED
  BY <1>1, <1>2, <1>3, <1>4 DEF process_create_user_process

LEMMA CreateResumes ==
  ASSUME KernelBoots, KernelInv, KernelInv', ResumeInv, NEW program \in Programs,
         process_create_user_process(program),
         UNCHANGED <<eip, cr3, progress>>, InUser' <=> InUser
  PROVE  ResumeInv'
<1>1. TypeOK /\ TablesOK /\ SlotsHoldTheirProcess'
  BY DEF KernelInv, TablesOK
<1>2. CreateEffect
  BY <1>1, CreateKeeps
<1>3. ProgressFromZero'
  BY <1>2 DEF CreateEffect, ResumeInv, ProgressFromZero
<1>4. ASSUME NEW s \in Live
      PROVE  /\ PointOf(s)' = PointOf(s) /\ name'[s] = name[s]
             /\ context'[s].dir = context[s].dir
  BY <1>2 DEF CreateEffect, PointOf
<1>5. ASSUME NEW s \in Live' \ Live
      PROVE  PointOf(s)' = progress[context'[s].dir]
  <2>1. s \in Slots \ Live /\ state'[s] # "Inactive"
    BY <1>5 DEF Live
  <2>2. state'[s] = "Waiting" /\ context'[s].dir \notin UsedDirectories
    BY <1>2, <2>1 DEF CreateEffect
  <2>3. context'[s].dir \in Directories
    BY <1>1, <1>5 DEF SlotsHoldTheirProcess, UsedDirectories
  <2>4. progress[context'[s].dir] = 0
    BY <2>2, <2>3 DEF ResumeInv, ProgressFromZero
  <2>5. context'[s].eip = 0
    BY <1>1, <2>1, NewcomerStarts
  <2>6. QED
    BY <2>2, <2>4, <2>5 DEF PointOf
<1>6. PointsAreReached'
  BY <1>4, <1>5 DEF ResumeInv, PointsAreReached
<1>7. QED
  BY <1>3, <1>6 DEF ResumeInv

(* Slots are only emptied, and nothing else moves.                         *)
LEMMA RemovalResumes ==
  ASSUME ResumeInv, UNCHANGED <<eip, progress, UsedDirectories>>, InUser' <=> InUser,
         \A s \in Live' : /\ s \in Live /\ state'[s] = state[s]
                          /\ name'[s] = name[s] /\ context'[s] = context[s]
  PROVE  ResumeInv'
BY DEF ResumeInv, ProgressFromZero, PointsAreReached, PointOf

LEMMA UserStepResumes ==
  ASSUME KernelInv, ResumeInv, UserStep
  PROVE  ResumeInv'
<1>1. /\ cr3 \in UsedDirectories /\ TypeOK /\ InUser
  BY DEF KernelInv, BootOrder, UserStep, InUser
<1>2. PICK e \in 0 .. MaxEip : eip' = e /\ progress' = [progress EXCEPT ![cr3] = e]
  BY DEF UserStep
<1>3. /\ UNCHANGED <<state, name, context, page_directory_used, phase>>
      /\ Live' = Live /\ UsedDirectories' = UsedDirectories
  BY DEF UserStep, processVars, pagingVars, Live, UsedDirectories
<1>4. ProgressFromZero'
  BY <1>1, <1>2, <1>3 DEF ResumeInv, ProgressFromZero, TypeOK
<1>5. ASSUME NEW s \in Live, name[s] \notin Faulting
      PROVE  PointOf(s)' = progress'[context[s].dir]
  <2>1. s \in Slots
    BY DEF Live
  <2>2. CASE state[s] = "Running"
    <3>1. cr3 = context[s].dir
      BY <1>1, <2>1, <2>2, CurrentIsNamed
    <3>2. progress'[cr3] = e
      BY <1>1, <1>2 DEF TypeOK, UsedDirectories
    <3>3. QED
      BY <1>1, <1>2, <1>3, <2>2, <3>1, <3>2 DEF PointOf, InUser
  <2>3. CASE state[s] # "Running"
    <3>1. context[s].dir # cr3
      BY <1>1, <2>3, OthersElsewhere
    <3>2. context[s].dir \in Directories
      BY DEF KernelInv, SlotsHoldTheirProcess, UsedDirectories
    <3>3. progress'[context[s].dir] = progress[context[s].dir]
      BY <1>1, <1>2, <3>1, <3>2 DEF TypeOK
    <3>4. QED
      BY <1>3, <1>5, <2>3, <3>3 DEF ResumeInv, PointsAreReached, PointOf
  <2>4. QED
    BY <2>2, <2>3
<1>6. PointsAreReached'
  BY <1>3, <1>5 DEF PointsAreReached
<1>7. QED
  BY <1>4, <1>6 DEF ResumeInv

LEMMA ResumeStep ==
  ASSUME KernelBoots, KernelInv, KernelInv', ResumeInv, [Next]_vars
  PROVE  ResumeInv'
<1>1. TypeOK /\ TablesOK /\ BootOrder
  BY DEF KernelInv, TablesOK
<1>2. phase \notin {"boot", "created"} => 0 \in Live
  BY <1>1, ConstantFacts DEF BootOrder, Live
<1>3. CASE BootCreate
  BY <1>3, CreateResumes, KernelAssumption DEF BootCreate, InUser
<1>4. CASE BootInit
  <2>1. /\ Live' = Live
        /\ UNCHANGED <<name, context, UsedDirectories, progress>>
        /\ \A s \in Live : PointOf(s) = context[s].eip /\ PointOf(s)' = context[s].eip
    BY <1>1, <1>4, ConstantFacts, ProcessAssumption
       DEF BootInit, scheduler_init, WaitingAt, BootOrder, Live, TypeOK, PointOf,
           InUser, UsedDirectories, pagingVars
  <2>2. QED
    BY <2>1 DEF ResumeInv, ProgressFromZero, PointsAreReached
<1>5. CASE BootSwitch
  <2>1. \A s \in Live : PointOf(s) = context[s].eip
    BY <1>5 DEF BootSwitch, PointOf, InUser
  <2>2. QED
    BY <1>2, <1>5, <2>1, SwitchResumes DEF BootSwitch, ResumeInv, PointsAreReached
<1>6. CASE UserStep
  BY <1>6, UserStepResumes
<1>7. CASE TimerInterrupt
  <2>1. /\ \A s \in Slots : SavedContext[s].dir = context[s].dir
        /\ \A s \in Live : SavedContext[s].eip = PointOf(s)
    BY <1>7, CurrentIsNamed DEF SavedContext, PointOf, IsCurrent, Live, TimerInterrupt
  <2>2. QED
    BY <1>2, <1>7, <2>1, SwitchResumes
       DEF TimerInterrupt, InUser, ResumeInv, PointsAreReached
<1>8. CASE Fault
  <2>1. ASSUME NEW s \in Live, name[s] \notin Faulting
        PROVE  PointOf(s) = context[s].eip
    <3>1. state[s] = "Running" => CurrentProgram = name[s] /\ ~NoneRunning
      BY <1>8, CurrentIsNamed DEF Live, Fault, NoneRunning
    <3>2. QED
      BY <1>8, <2>1, <3>1 DEF Fault, MayFault, PointOf
  <2>2. QED
    BY <1>2, <1>8, <2>1, SwitchResumes DEF Fault, InUser, ResumeInv, PointsAreReached
<1>9. CASE Exit
  <2>1. \A s \in Live' : s \in Live /\ state'[s] = state[s]
    BY <1>1, <1>9 DEF Exit, Live, TypeOK
  <2>2. UNCHANGED <<name, context, eip, progress, UsedDirectories>> /\ InUser' = InUser
    BY <1>9 DEF Exit, cpuVars, pagingVars, UsedDirectories, InUser
  <2>3. QED
    BY <2>1, <2>2, RemovalResumes
<1>10. CASE ShellKills
  <2>1. /\ phase = "user" /\ UNCHANGED <<cpuVars, progress>>
        /\ process_destroy(pending[cr3].pid)
    BY <1>10 DEF ShellKills, InShell, InUser
  <2>2. pending[cr3].pid \in 1 .. PROCESS_COUNT_MAX
    BY <1>1, <1>10, <2>1, PendingCommands DEF ShellKills, TypeOK
  <2>3. DestroyEffect
    BY <1>1, <2>1, <2>2, DestroyKeeps
  <2>4. \A s \in Live' : /\ s \in Live /\ state'[s] = state[s]
                         /\ name'[s] = name[s] /\ context'[s] = context[s]
    BY <2>3 DEF DestroyEffect, Live
  <2>5. QED
    BY <2>1, <2>3, <2>4, RemovalResumes DEF DestroyEffect, cpuVars, InUser
<1>11. CASE ShellExecs
  <2>1. /\ phase = "user" /\ UNCHANGED <<cpuVars, progress>>
        /\ process_create_user_process(pending[cr3].program)
    BY <1>11 DEF ShellExecs, InShell, InUser
  <2>2. pending[cr3].program \in Programs
    BY <1>1, <1>11, <2>1, PendingCommands DEF ShellExecs, TypeOK
  <2>3. QED
    BY <2>1, <2>2, CreateResumes DEF cpuVars, InUser
<1>12. CASE ExitAgain \/ ShellListsToKill \/ ShellListsToExec \/ UNCHANGED vars
  <2>1. /\ UNCHANGED <<state, name, context, eip, phase, progress, page_directory_used>>
    BY <1>12 DEF ExitAgain, ShellListsToKill, ShellListsToExec, vars, processVars,
                 cpuVars, pagingVars
  <2>2. Live' = Live /\ UsedDirectories' = UsedDirectories
    BY <2>1 DEF Live, UsedDirectories
  <2>3. QED
    BY <2>1, <2>2, RemovalResumes DEF InUser
<1>13. QED
  BY <1>3, <1>4, <1>5, <1>6, <1>7, <1>8, <1>9, <1>10, <1>11, <1>12 DEF Next, Boot

(* Through every interleaving of timer interrupts, faults, exits, kills    *)
(* and executions, a process that waits and does not fault will resume at  *)
(* the point it had reached: no other process's context is ever saved into *)
(* its PCB, none of its own is lost.                                       *)
THEOREM Resumption ==
  ASSUME KernelBoots
  PROVE  Spec => []ResumesWhereItStopped
<1>1. Init => ResumeInv
  BY DEF Init, ProcessInit, ResumeInv, ProgressFromZero, PointsAreReached, Live
<1>2. KernelInv /\ KernelInv' /\ ResumeInv /\ [Next]_vars => ResumeInv'
  BY ResumeStep
<1>3. ResumeInv => ResumesWhereItStopped
  BY DEF ResumeInv, PointsAreReached, PointOf, ResumesWhereItStopped
<1>4. QED
  BY <1>1, <1>2, <1>3, KernelInvariant, PTL DEF Spec

-----------------------------------------------------------------------------
(* exec's check.  If the listing's loop is never skipped, only the program *)
(* in slot 0 is the shell; what it is about to execute is not running, and *)
(* nobody else can start it meanwhile.                                     *)
NoListIsShort == "short" \notin ListOutcomes

ShellIsAlone ==
  /\ \A d \in UsedDirectories : image[FrameOf(d)] = Shell => d = context[0].dir
  /\ \A f \in FreeFrames : image[f] # Shell
PendingIsFresh ==
  \A d \in Directories :
    pending[d].op = "exec" => /\ phase # "boot"
                              /\ d = context[0].dir
                              /\ pending[d].program \notin ListedNames
SingleInv == ShellIsAlone /\ PendingIsFresh /\ OneProcessPerProgram

LEMMA InitSingle == Init => SingleInv
<1>1. Init => Live = {} /\ UsedDirectories = {} /\ \A f \in Frames : image[f] # Shell
  BY ProcessAssumption, KernelAssumption
     DEF Init, ProcessInit, PagingInit, Live, UsedDirectories
<1>2. QED
  BY <1>1 DEF Init, SingleInv, ShellIsAlone, PendingIsFresh, OneProcessPerProgram,
              FreeFrames, NoCommand

(* Steps that create nothing.                                              *)
LEMMA SingleKept ==
  ASSUME SingleInv, phase # "boot", phase' # "boot", pending' = pending,
         context'[0].dir = context[0].dir, UNCHANGED <<pagingVars, image>>,
         \A s \in Live' : s \in Live /\ name'[s] = name[s]
  PROVE  SingleInv'
<1>1. /\ UsedDirectories' = UsedDirectories /\ FreeFrames' = FreeFrames
      /\ \A d : FrameOf(d)' = FrameOf(d)
      /\ ListedNames' \subseteq ListedNames
  BY DEF UsedDirectories, FreeFrames, FrameOf, pagingVars, ListedNames
<1>2. QED
  BY <1>1 DEF SingleInv, ShellIsAlone, PendingIsFresh, OneProcessPerProgram

(* Only the process in slot 0 lists, kills and executes.                   *)
LEMMA ShellIsSlotZero ==
  ASSUME KernelInv, SingleInv, InShell
  PROVE  cr3 = context[0].dir /\ cr3 \in Directories /\ Shell \in ListedNames
<1>1. /\ cr3 \in UsedDirectories /\ cr3 \in Directories /\ 0 \in Live /\ name[0] = Shell
  BY ConstantFacts DEF KernelInv, BootOrder, InShell, InUser, UsedDirectories, Live
<1>2. image[FrameOf(cr3)] = Shell
  BY ProcessAssumption, KernelAssumption
     DEF InShell, CurrentProgram, CurrentImage, FrameOf
<1>3. QED
  BY <1>1, <1>2 DEF SingleInv, ShellIsAlone, ListedNames

(* What creation does to the images of the directories and of free frames. *)
LEMMA CreateImages ==
  ASSUME KernelBoots, TypeOK, TablesOK, NEW program \in Programs,
         process_create_user_process(program)
  PROVE  /\ \A g \in FreeFrames' : g \in FreeFrames /\ image'[g] = image[g]
         /\ \A e \in UsedDirectories :
              FrameOf(e)' = FrameOf(e) /\ image'[FrameOf(e)] = image[FrameOf(e)]
         /\ \A e \in UsedDirectories' \ UsedDirectories :
              \/ image'[FrameOf(e)'] = program
              \/ \E f \in FreeFrames : image'[FrameOf(e)'] = image[f]
<1>1. CASE CreateMaxExceeded \/ CreateNotEnoughMemory
  BY <1>1 DEF CreateMaxExceeded, CreateNotEnoughMemory, processVars, pagingVars,
              FreeFrames, UsedDirectories, FrameOf
<1>2. CASE CreateNoDirectory(program)
  BY <1>2, DirectoryLeft DEF CreateNoDirectory, TablesOK
<1>3. CASE CreateReadFailure(program) \/ CreateSuccess(program)
  <2>1. PICK d \in Directories, f \in Frames :
          /\ BuildAddressSpace(d, f)
          /\ \/ image' = image
             \/ image' = [image EXCEPT ![f] = program]
    BY <1>3 DEF CreateReadFailure, CreateSuccess
  <2>2. paging_allocate_check(page_frame_count_needed)
    BY <1>3 DEF CreateReadFailure, CreateSuccess
  <2>3. /\ d \notin UsedDirectories /\ f \notin TakenFrames
        /\ UsedDirectories' = UsedDirectories \cup {d}
        /\ TakenFrames' = TakenFrames \cup {f}
        /\ FrameOf(d)' = f
        /\ \A e \in UsedDirectories : FrameOf(e)' = FrameOf(e)
    BY <2>1, <2>2, BuildSteps DEF TablesOK
  <2>4. FreeFrames = Frames \ TakenFrames /\ FreeFrames' = Frames \ TakenFrames'
    BY DEF FreeFrames, TakenFrames
  <2>5. f \in FreeFrames /\ FreeFrames' = FreeFrames \ {f}
    BY <2>3, <2>4
  <2>6. \A g \in Frames \ {f} : image'[g] = image[g]
    BY <2>1 DEF TypeOK
  <2>7. \A e \in UsedDirectories : FrameOf(e) \in Frames \ {f}
    BY <2>3 DEF TablesOK, DirectoriesMapApart, TakenFrames
  <2>8. image'[f] = program \/ image'[f] = image[f]
    BY <2>1 DEF TypeOK
  <2>9. QED
    BY <2>3, <2>4, <2>5, <2>6, <2>7, <2>8
<1>4. QED
  BY <1>1, <1>2, <1>3 DEF process_create_user_process

LEMMA CreatesOne ==
  ASSUME TypeOK, NEW program, process_create_user_process(program),
         NEW s \in Live' \ Live, NEW t \in Live' \ Live
  PROVE  s = t
BY ProcessAssumption
   DEF process_create_user_process, CreateMaxExceeded, CreateNotEnoughMemory,
       CreateNoDirectory, CreateReadFailure, CreateSuccess, ZeroPcb, Live, TypeOK,
       processVars

LEMMA ExecKeepsSingle ==
  ASSUME KernelBoots, KernelInv, SingleInv, ShellExecs
  PROVE  SingleInv'
<1>1. /\ TypeOK /\ TablesOK /\ phase' = phase /\ phase = "user"
      /\ cr3 = context[0].dir /\ cr3 \in Directories /\ Shell \in ListedNames
      /\ pending' = [pending EXCEPT ![cr3] = NoCommand]
  BY ShellIsSlotZero DEF KernelInv, TablesOK, ShellExecs, InShell, InUser, cpuVars
<1> DEFINE program == pending[cr3].program
<1>2. /\ process_create_user_process(program) /\ pending[cr3].op = "exec"
      /\ program \in Programs /\ program \notin ListedNames
  BY <1>1, PendingCommands DEF ShellExecs, SingleInv, PendingIsFresh
<1> HIDE DEF program
<1>3. CreateEffect
  BY <1>1, <1>2, CreateKeeps
<1>4. /\ 0 \in Live /\ context'[0] = context[0] /\ context[0].dir \in UsedDirectories
  BY <1>1, <1>3, ConstantFacts
     DEF KernelInv, BootOrder, CreateEffect, Live, SlotsHoldTheirProcess
<1>5. ShellIsAlone'
  <2>1. \A g \in FreeFrames' : image'[g] # Shell
    BY <1>1, <1>2, CreateImages DEF SingleInv, ShellIsAlone
  <2>2. ASSUME NEW d \in UsedDirectories', image'[FrameOf(d)'] = Shell
        PROVE  d = context[0].dir
    <3>1. d \in UsedDirectories
      BY <1>1, <1>2, <2>2, CreateImages DEF SingleInv, ShellIsAlone
    <3>2. image[FrameOf(d)] = Shell
      BY <1>1, <1>2, <2>2, <3>1, CreateImages
    <3>3. QED
      BY <3>1, <3>2 DEF SingleInv, ShellIsAlone
  <2>3. QED
    BY <1>4, <2>1, <2>2 DEF ShellIsAlone, FrameOf
<1>6. PendingIsFresh'
  BY <1>1 DEF SingleInv, PendingIsFresh, TypeOK, NoCommand
<1>7. OneProcessPerProgram'
  <2>1. \A s \in Live : name'[s] = name[s] /\ name[s] # program
    BY <1>2, <1>3 DEF CreateEffect, ListedNames
  <2>2. \A s \in Live' \ Live : name'[s] = program
    BY <1>1, <1>2, NewcomerStarts DEF Live
  <2>3. \A s, t \in Live' \ Live : s = t
    BY <1>1, <1>2, CreatesOne
  <2>4. QED
    BY <2>1, <2>2, <2>3 DEF SingleInv, OneProcessPerProgram
<1>8. QED
  BY <1>5, <1>6, <1>7 DEF SingleInv

LEMMA BootKeepsSingle ==
  ASSUME KernelBoots, KernelInv, KernelInv', SingleInv, BootCreate
  PROVE  SingleInv'
<1>1. /\ TypeOK /\ TablesOK /\ UsedDirectories = {} /\ phase = "boot"
      /\ phase' = "created" /\ pending' = pending /\ Live' = {0}
      /\ process_create_user_process(Shell) /\ Shell \in Programs
  BY KernelAssumption DEF KernelInv, TablesOK, BootOrder, BootCreate
<1>2. CreateSuccess(Shell)
  BY BootCreateSucceeds
<1>3. \E d : UsedDirectories' = {d}
  <2>1. PICK d \in Directories, f \in Frames : BuildAddressSpace(d, f)
    BY <1>2 DEF CreateSuccess
  <2>2. UsedDirectories' = {d}
    BY <1>1, <2>1 DEF BuildAddressSpace, UsedDirectories, TypeOK, PagingTypeOK
  <2>3. QED
    BY <2>2
<1>4. context'[0].dir \in UsedDirectories'
  BY <1>1 DEF KernelInv, SlotsHoldTheirProcess
<1>5. \A g \in FreeFrames' : image'[g] # Shell
  BY <1>1, CreateImages DEF SingleInv, ShellIsAlone
<1>6. ShellIsAlone'
  BY <1>3, <1>4, <1>5 DEF ShellIsAlone
<1>7. PendingIsFresh' /\ OneProcessPerProgram'
  BY <1>1 DEF SingleInv, PendingIsFresh, OneProcessPerProgram
<1>8. QED
  BY <1>6, <1>7 DEF SingleInv

LEMMA SingleStep ==
  ASSUME KernelBoots, NoListIsShort, KernelInv, KernelInv', SingleInv, [Next]_vars
  PROVE  SingleInv'
<1>1. TypeOK /\ TablesOK /\ BootOrder /\ RunningOwnsTheCpu
  BY DEF KernelInv, TablesOK
<1>2. phase \notin {"boot", "created"} => 0 \in Live
  BY <1>1, ConstantFacts DEF BootOrder, Live
<1>3. CASE BootCreate
  BY <1>3, BootKeepsSingle
<1>4. CASE BootInit
  <2>1. Live' = Live
    BY <1>1, <1>4, ConstantFacts, ProcessAssumption
       DEF BootInit, scheduler_init, WaitingAt, BootOrder, Live, TypeOK
  <2>2. QED
    BY <1>4, <2>1, SingleKept DEF BootInit
<1>5. CASE BootSwitch \/ Fault
  <2>1. /\ scheduler_switch_to_next_process(context) /\ 0 \in Live
        /\ UNCHANGED <<pagingVars, name, context, image, pending>> /\ phase # "boot"
    BY <1>2, <1>5 DEF BootSwitch, Fault, InUser
  <2>2. SwitchEffect
    BY <1>1, <2>1, SwitchKeeps
  <2>3. QED
    BY <2>1, <2>2, SingleKept DEF SwitchEffect, Live
<1>6. CASE TimerInterrupt
  <2>1. /\ scheduler_switch_to_next_process(SavedContext) /\ 0 \in Live
        /\ \A s \in Slots : SavedContext[s].dir = context[s].dir
        /\ UNCHANGED <<pagingVars, name, image, pending>> /\ phase # "boot"
        /\ context'[0].dir = context[0].dir
    BY <1>2, <1>6, ConstantFacts DEF TimerInterrupt, SavedContext, InUser
  <2>2. SwitchEffect
    BY <1>1, <2>1, SwitchKeeps
  <2>3. QED
    BY <2>1, <2>2, SingleKept DEF SwitchEffect, Live
<1>7. CASE UserStep
  BY <1>7, SingleKept DEF UserStep, InUser, processVars, Live
<1>8. CASE Exit
  <2>1. \A s \in Live' : s \in Live
    BY <1>1, <1>8 DEF Exit, Live, TypeOK
  <2>2. QED
    BY <1>8, <2>1, SingleKept DEF Exit, InUser, cpuVars
<1>9. CASE ExitAgain
  <2>1. /\ UNCHANGED <<pagingVars, state, name, context, phase, pending>>
        /\ image' = [image EXCEPT ![CurrentImage] = Scribbled]
    BY <1>9 DEF ExitAgain, cpuVars
  <2>2. /\ Live' = Live /\ ListedNames' = ListedNames
        /\ UsedDirectories' = UsedDirectories /\ FreeFrames' = FreeFrames
        /\ \A d : FrameOf(d)' = FrameOf(d)
    BY <2>1 DEF Live, ListedNames, UsedDirectories, FreeFrames, FrameOf, pagingVars
  <2>3. \A f \in Frames : image'[f] = Shell => image[f] = Shell
    BY <1>1, <2>1, KernelAssumption DEF TypeOK
  <2>4. \A d \in UsedDirectories : FrameOf(d) \in Frames
    BY <1>1 DEF TablesOK, DirectoriesMapApart, TakenFrames
  <2>5. ShellIsAlone'
    BY <2>1, <2>2, <2>3, <2>4 DEF SingleInv, ShellIsAlone, FreeFrames
  <2>6. QED
    BY <2>1, <2>2, <2>5 DEF SingleInv, PendingIsFresh, OneProcessPerProgram
<1>10. CASE ShellListsToKill \/ ShellListsToExec
  <2>1. /\ UNCHANGED <<pagingVars, name, image, context, phase, Live, ListedNames>>
        /\ phase = "user" /\ InShell
    BY <1>10 DEF ShellListsToKill, ShellListsToExec, InShell, InUser, processVars,
                 cpuVars, Live, ListedNames
  <2>2. cr3 = context[0].dir /\ cr3 \in Directories
    BY <2>1, ShellIsSlotZero
  <2>3. PendingIsFresh'
    <3>1. CASE ShellListsToKill
      BY <1>1, <2>1, <3>1 DEF ShellListsToKill, SingleInv, PendingIsFresh, TypeOK
    <3>2. CASE ShellListsToExec
      <4>1. PICK program \in Programs :
              /\ program \notin ListedNames
              /\ pending' = [pending EXCEPT ![cr3] = [op |-> "exec", program |-> program]]
        BY <3>2 DEF ShellListsToExec, NotListed, NoListIsShort
      <4>2. /\ \A d \in Directories \ {cr3} : pending'[d] = pending[d]
            /\ pending'[cr3].program = program
        BY <1>1, <2>2, <4>1 DEF TypeOK
      <4>3. QED
        BY <2>1, <2>2, <4>1, <4>2 DEF SingleInv, PendingIsFresh
    <3>3. QED
      BY <1>10, <3>1, <3>2
  <2>4. ShellIsAlone' /\ OneProcessPerProgram'
    BY <2>1 DEF SingleInv, ShellIsAlone, OneProcessPerProgram, UsedDirectories,
                FreeFrames, FrameOf, pagingVars
  <2>5. QED
    BY <2>3, <2>4 DEF SingleInv
<1>11. CASE ShellKills
  <2>1. /\ phase = "user" /\ UNCHANGED <<cpuVars, pagingVars>> /\ InShell
        /\ process_destroy(pending[cr3].pid) /\ image' = image
        /\ pending' = [pending EXCEPT ![cr3] = NoCommand]
    BY <1>11 DEF ShellKills, InShell, InUser, process_destroy, DestroyFound,
                 DestroyNotFound, processVars
  <2>2. pending[cr3].pid \in 1 .. PROCESS_COUNT_MAX
    BY <1>1, <1>11, <2>1, PendingCommands DEF ShellKills, TypeOK
  <2>3. DestroyEffect /\ state'[0] # "Inactive"
    BY <1>1, <2>1, <2>2, DestroyKeeps, ConstantFacts DEF DestroyEffect, BootOrder
  <2>4. /\ context'[0] = context[0]
        /\ \A s \in Live' : s \in Live /\ name'[s] = name[s]
    BY <2>3, ConstantFacts DEF DestroyEffect, Live
  <2>5. /\ UsedDirectories' = UsedDirectories /\ FreeFrames' = FreeFrames
        /\ \A d : FrameOf(d)' = FrameOf(d)
    BY <2>1 DEF UsedDirectories, FreeFrames, FrameOf, pagingVars
  <2>6. \A d \in Directories : pending'[d].op # "exec"
    BY <1>1, <2>1, ShellIsSlotZero DEF SingleInv, PendingIsFresh, TypeOK, NoCommand
  <2>7. QED
    BY <2>1, <2>4, <2>5, <2>6
       DEF SingleInv, ShellIsAlone, PendingIsFresh, OneProcessPerProgram
<1>12. CASE ShellExecs
  BY <1>12, ExecKeepsSingle
<1>13. CASE UNCHANGED vars
  BY <1>13 DEF vars, processVars, cpuVars, pagingVars, SingleInv, ShellIsAlone,
               PendingIsFresh, OneProcessPerProgram, UsedDirectories, FreeFrames,
               FrameOf, Live, ListedNames
<1>14. QED
  BY <1>3, <1>4, <1>5, <1>6, <1>7, <1>8, <1>9, <1>10, <1>11, <1>12, <1>13
     DEF Next, Boot

(* No program runs twice: between exec's look at the list and the creation *)
(* of the process any number of others run, fault and end, but none of     *)
(* them is a shell that could start it.  It takes that the uninitialised   *)
(* total never has its sign bit set: with it the loop finds nothing.       *)
THEOREM ExecStartsOnce ==
  ASSUME KernelBoots, NoListIsShort
  PROVE  Spec => []OneProcessPerProgram
<1>1. Init => SingleInv
  BY InitSingle
<1>2. KernelInv /\ KernelInv' /\ SingleInv /\ [Next]_vars => SingleInv'
  BY SingleStep
<1>3. SingleInv => OneProcessPerProgram
  BY DEF SingleInv
<1>4. QED
  BY <1>1, <1>2, <1>3, KernelInvariant, PTL DEF Spec

-----------------------------------------------------------------------------
(* When no main returns, some process is always Running, and a switch      *)
(* always has one to go on with.                                           *)
NothingExits == Exiting = {}

SomeoneRuns == phase \in {"scheduled", "user"} => ~NoneRunning
RunningInv == SomeoneRuns /\ NeverLost

LEMMA SwitchKeepsRunning ==
  ASSUME KernelInv, 0 \in Live, ~NoneRunning, NEW contexts,
         \A s \in Slots : contexts[s].dir = context[s].dir,
         scheduler_switch_to_next_process(contexts)
  PROVE  RunningInv'
<1>1. SwitchEffect
  BY SwitchKeeps DEF KernelInv, TablesOK
<1>2. PICK next \in Live : state'[next] = "Running" /\ phase' = "user"
  BY <1>1 DEF SwitchEffect, Live
<1>3. QED
  BY <1>2 DEF RunningInv, SomeoneRuns, NeverLost, NoneRunning, Live

LEMMA RunningKept ==
  ASSUME RunningInv, phase' = phase,
         \A s \in Slots : state[s] = "Running" => state'[s] = "Running"
  PROVE  RunningInv'
BY DEF RunningInv, SomeoneRuns, NeverLost, NoneRunning

LEMMA RunningStep ==
  ASSUME KernelBoots, NoListIsShort, NothingExits,
         KernelInv, SingleInv, RunningInv, [Next]_vars
  PROVE  RunningInv'
<1>1. TypeOK /\ TablesOK /\ BootOrder
  BY DEF KernelInv, TablesOK
<1>2. phase \in {"scheduled", "user"} => 0 \in Live /\ ~NoneRunning
  BY <1>1, ConstantFacts DEF BootOrder, Live, RunningInv, SomeoneRuns
<1>3. CASE BootCreate
  BY <1>3 DEF BootCreate, RunningInv, SomeoneRuns, NeverLost
<1>4. CASE BootInit
  <2>1. phase' = "scheduled" /\ \E s \in Slots : state'[s] = "Running"
    BY <1>1, <1>4 DEF BootInit, scheduler_init, TypeOK
  <2>2. QED
    BY <2>1 DEF RunningInv, SomeoneRuns, NeverLost, NoneRunning
<1>5. CASE BootSwitch \/ Fault
  BY <1>2, <1>5, SwitchKeepsRunning DEF BootSwitch, Fault, InUser
<1>6. CASE TimerInterrupt
  <2>1. \A s \in Slots : SavedContext[s].dir = context[s].dir
    BY DEF SavedContext
  <2>2. QED
    BY <1>2, <1>6, <2>1, SwitchKeepsRunning DEF TimerInterrupt, InUser
<1>7. CASE Exit
  BY <1>7 DEF Exit, NothingExits
<1>8. CASE UserStep \/ ExitAgain \/ ShellListsToKill \/ ShellListsToExec
             \/ UNCHANGED vars
  BY <1>8, RunningKept DEF UserStep, ExitAgain, ShellListsToKill, ShellListsToExec,
                           vars, processVars, cpuVars
<1>9. CASE ShellKills
  <2>1. /\ phase = "user" /\ phase' = phase /\ InShell
        /\ process_destroy(pending[cr3].pid)
    BY <1>9 DEF ShellKills, InShell, InUser, cpuVars
  <2>2. pending[cr3].pid \in 1 .. PROCESS_COUNT_MAX
    BY <1>1, <1>9, <2>1, PendingCommands DEF ShellKills, TypeOK
  <2>3. DestroyEffect
    BY <1>1, <2>1, <2>2, DestroyKeeps
  <2>4. PICK r \in Slots : state[r] = "Running"
    BY <1>2, <2>1 DEF NoneRunning
  <2>5. r = 0
    <3>1. r \in Live /\ 0 \in Live /\ context[r].dir = context[0].dir
      BY <1>2, <2>1, <2>4, CurrentIsNamed, ShellIsSlotZero DEF InUser
    <3>2. QED
      BY <1>1, <3>1 DEF TablesOK, SlotsHoldTheirProcess
  <2>6. state'[0] = "Running"
    BY <1>1, <2>3, <2>4, <2>5, ConstantFacts DEF DestroyEffect
  <2>7. QED
    BY <2>1, <2>6, ConstantFacts DEF RunningInv, SomeoneRuns, NeverLost, NoneRunning
<1>10. CASE ShellExecs
  <2>1. /\ phase = "user" /\ phase' = phase
        /\ process_create_user_process(pending[cr3].program)
    BY <1>10 DEF ShellExecs, InShell, InUser, cpuVars
  <2>2. pending[cr3].program \in Programs
    BY <1>1, <1>10, <2>1, PendingCommands DEF ShellExecs, TypeOK
  <2>3. CreateEffect
    BY <1>1, <2>1, <2>2, CreateKeeps
  <2>4. QED
    BY <2>1, <2>3, RunningKept DEF CreateEffect, Live
<1>11. QED
  BY <1>3, <1>4, <1>5, <1>6, <1>7, <1>8, <1>9, <1>10 DEF Next, Boot

(* With programs that do not end, and no second shell that could kill      *)
(* itself, no switch loads an address space through a NULL pointer: the    *)
(* CPU is never lost, whatever faults, is created or killed.               *)
THEOREM CpuIsKept ==
  ASSUME KernelBoots, NoListIsShort, NothingExits
  PROVE  Spec => []NeverLost
<1>1. Init => RunningInv /\ SingleInv
  BY InitSingle DEF Init, RunningInv, SomeoneRuns, NeverLost
<1>2. KernelInv /\ KernelInv' /\ SingleInv /\ [Next]_vars => SingleInv'
  BY SingleStep
<1>3. KernelInv /\ SingleInv /\ RunningInv /\ [Next]_vars => RunningInv'
  BY RunningStep
<1>4. RunningInv => NeverLost
  BY DEF RunningInv
<1>5. QED
  BY <1>1, <1>2, <1>3, <1>4, KernelInvariant, PTL DEF Spec

-----------------------------------------------------------------------------
(* Jobs.  With a page directory as a job, and the CPU in the job whose     *)
(* directory is in CR3, every step of the kernel spawns, chooses,          *)
(* dispatches, finishes or kills one job, or none: first how the stages of *)
(* the directories follow from the process table, then one lemma per kind  *)
(* of step.                                                                *)

JobStages == [d \in Directories |-> StageOf(d)]

(* The stage of a directory, by what the table says of it: a living slot   *)
(* that holds it is the only one.                                          *)
StageOfLiving(s) == IF state[s] = "Running" THEN "running" ELSE "ready"
Held(d) == \E s \in Live : context[s].dir = d
StagesFollow ==
  \A d \in Directories :
    /\ d \notin UsedDirectories => StageOf(d) = "unborn"
    /\ d \in UsedDirectories /\ ~Held(d) => StageOf(d) = "gone"
    /\ \A s \in Live : context[s].dir = d => StageOf(d) = StageOfLiving(s)

LEMMA StageValues == TypeOK /\ SlotsHoldTheirProcess => StagesFollow
<1> SUFFICES ASSUME TypeOK, SlotsHoldTheirProcess, NEW d \in Directories
             PROVE  /\ d \notin UsedDirectories => StageOf(d) = "unborn"
                    /\ d \in UsedDirectories /\ ~Held(d) => StageOf(d) = "gone"
                    /\ \A s \in Live : context[s].dir = d => StageOf(d) = StageOfLiving(s)
  BY DEF StagesFollow
<1>1. d \notin UsedDirectories => StageOf(d) = "unborn"
  BY DEF StageOf, UsedDirectories
<1>2. ASSUME NEW s \in Live, context[s].dir = d
      PROVE  StageOf(d) = StageOfLiving(s)
  <2>1. page_directory_used[d] /\ s \in Slots /\ state[s] \in {"Running", "Waiting"}
    BY <1>2 DEF SlotsHoldTheirProcess, UsedDirectories, Live, TypeOK, ProcessStates
  <2>2. \A t \in Slots : context[t].dir = d /\ state[t] \in {"Running", "Waiting"} => t = s
    BY <1>2 DEF SlotsHoldTheirProcess, Live
  <2>3. QED
    BY <1>2, <2>1, <2>2 DEF StageOf, StageOfLiving
<1>3. d \in UsedDirectories /\ ~Held(d) => StageOf(d) = "gone"
  BY DEF StageOf, UsedDirectories, Live, Held
<1>4. QED
  BY <1>1, <1>2, <1>3

LEMMA StageValuesNext == TypeOK' /\ SlotsHoldTheirProcess' => StagesFollow'
BY StageValues, PTL

LEMMA MappedInit == Init => Jobs!Init
<1> SUFFICES ASSUME Init PROVE Jobs!Init
  OBVIOUS
<1>1. \A d \in Directories : StageOf(d) = "unborn"
  BY DEF Init, PagingInit, StageOf
<1>2. KERNEL_DIRECTORY \notin Directories
  BY ConstantFacts
<1>3. QED
  BY <1>1, <1>2 DEF Init, Jobs!Init

(* The CPU leaves the kernel's own directory with the first switch.        *)
KernelDirectoryAtBoot ==
  phase \in {"boot", "created", "scheduled"} => cr3 = KERNEL_DIRECTORY

JobsInv == KernelInv /\ KernelDirectoryAtBoot

LEMMA JobsInvStep ==
  ASSUME KernelBoots, JobsInv, [Next]_vars
  PROVE  JobsInv'
<1>1. KernelInv'
  BY StepInv DEF JobsInv
<1>2. KernelDirectoryAtBoot'
  <2>1. CASE BootCreate \/ BootInit
    BY <2>1 DEF BootCreate, BootInit, JobsInv, KernelDirectoryAtBoot
  <2>2. CASE scheduler_switch_to_next_process(context)
             \/ scheduler_switch_to_next_process(SavedContext)
    BY <2>2 DEF scheduler_switch_to_next_process, SwitchFromCurrent, SwitchFromNone,
                SwitchFromNull, Resume, KernelDirectoryAtBoot
  <2>3. CASE InUser /\ phase' = phase
    BY <2>3 DEF InUser, KernelDirectoryAtBoot
  <2>4. CASE UNCHANGED vars
    BY <2>4 DEF vars, cpuVars, JobsInv, KernelDirectoryAtBoot
  <2>5. QED
    BY <2>1, <2>2, <2>3, <2>4
       DEF Next, Boot, BootSwitch, UserStep, TimerInterrupt, Fault, Exit, ExitAgain,
           ShellListsToKill, ShellListsToExec, ShellKills, ShellExecs, InShell, cpuVars
<1>3. QED
  BY <1>1, <1>2 DEF JobsInv

-----------------------------------------------------------------------------
(* A directory whose slot stays as it was keeps its stage.                 *)
LEMMA StageKept ==
  ASSUME StagesFollow, StagesFollow', NEW d \in Directories,
         d \in UsedDirectories' <=> d \in UsedDirectories,
         \A s \in Live : context[s].dir = d =>
           /\ s \in Live' /\ context'[s].dir = d
           /\ state'[s] = "Running" <=> state[s] = "Running",
         \A s \in Live' : context'[s].dir = d => s \in Live /\ context[s].dir = d
  PROVE  StageOf(d)' = StageOf(d)
<1>1. CASE d \notin UsedDirectories
  BY <1>1 DEF StagesFollow
<1>2. CASE d \in UsedDirectories /\ ~Held(d)
  BY <1>2 DEF StagesFollow, Held
<1>3. CASE Held(d)
  <2>1. PICK s \in Live : context[s].dir = d
    BY <1>3 DEF Held
  <2>2. StageOf(d) = StageOfLiving(s) /\ StageOf(d)' = StageOfLiving(s)'
    BY <2>1 DEF StagesFollow
  <2>3. QED
    BY <2>1, <2>2 DEF StageOfLiving
<1>4. QED
  BY <1>1, <1>2, <1>3

(* Steps that neither move the CPU nor change what a slot holds.           *)
LEMMA StutterStep ==
  ASSUME StagesFollow, StagesFollow', cr3' = cr3,
         UNCHANGED <<page_directory_used, state>>,
         \A s \in Slots : context'[s].dir = context[s].dir
  PROVE  UNCHANGED Jobs!vars
<1>1. Live' = Live /\ UsedDirectories' = UsedDirectories
  BY DEF Live, UsedDirectories
<1>2. \A d \in Directories : StageOf(d)' = StageOf(d)
  BY <1>1, StageKept DEF Live
<1>3. QED
  BY <1>2 DEF Jobs!vars

(* A directory more: its program is loaded and a slot holds it, or it is   *)
(* lost.                                                                   *)
LEMMA SpawnStep ==
  ASSUME KernelBoots, KernelInv, KernelInv', NEW program \in Programs,
         process_create_user_process(program), cr3' = cr3
  PROVE  [Jobs!Next]_(Jobs!vars)
<1>1. /\ TypeOK /\ TablesOK /\ SlotsHoldTheirProcess /\ SlotsHoldTheirProcess'
      /\ CountsAgree /\ DirectoriesMapApart /\ StagesFollow /\ StagesFollow'
  BY StageValues, StageValuesNext DEF KernelInv, TablesOK
<1>2. CASE CreateMaxExceeded \/ CreateNotEnoughMemory
  <2>1. UNCHANGED <<processVars, pagingVars>>
    BY <1>2 DEF CreateMaxExceeded, CreateNotEnoughMemory
  <2>2. QED
    BY <1>1, <2>1, StutterStep DEF processVars, pagingVars
<1>3. CASE CreateNoDirectory(program)
  BY <1>1, <1>3, DirectoryLeft DEF CreateNoDirectory
<1>4. CASE CreateReadFailure(program) \/ CreateSuccess(program)
  <2>1. paging_allocate_check(page_frame_count_needed)
    BY <1>4 DEF CreateReadFailure, CreateSuccess
  <2>2. PICK d \in Directories, f \in Frames : BuildAddressSpace(d, f)
    BY <1>4 DEF CreateReadFailure, CreateSuccess
  <2>3. d \notin UsedDirectories /\ UsedDirectories' = UsedDirectories \cup {d}
    BY <1>1, <2>1, <2>2, BuildSteps
  <2>4. CreateEffect
    BY <1>1, CreateKeeps
  <2>5. /\ \A s \in Live : s \in Live' /\ state'[s] = state[s] /\ context'[s] = context[s]
        /\ \A s \in Live' \ Live : state'[s] = "Waiting" /\ context'[s].dir = d
    BY <1>1, <2>3, <2>4 DEF CreateEffect, Live, SlotsHoldTheirProcess
  <2>6. \A e \in Directories \ {d} : StageOf(e)' = StageOf(e)
    BY <1>1, <2>3, <2>5, StageKept
  <2>7. StageOf(d) = "unborn" /\ StageOf(d)' \in {"ready", "gone"}
    <3>1. StageOf(d) = "unborn"
      BY <1>1, <2>3 DEF StagesFollow
    <3>2. ASSUME NEW s \in Live', context'[s].dir = d
          PROVE  StageOf(d)' = "ready"
      <4>1. s \notin Live
        BY <1>1, <2>3, <2>5, <3>2 DEF SlotsHoldTheirProcess
      <4>2. QED
        BY <1>1, <2>5, <3>2, <4>1 DEF StagesFollow, StageOfLiving
    <3>3. ~Held(d)' => StageOf(d)' = "gone"
      BY <1>1, <2>3 DEF StagesFollow
    <3>4. QED
      BY <3>1, <3>2, <3>3 DEF Held
  <2>8. Jobs!Spawn(d)
    BY <2>6, <2>7 DEF Jobs!Spawn
  <2>9. QED
    BY <2>8 DEF Jobs!Next
<1>5. QED
  BY <1>2, <1>3, <1>4 DEF process_create_user_process

(* scheduler_init chooses the shell while no job has the CPU.              *)
LEMMA ChooseStep ==
  ASSUME JobsInv, JobsInv', BootInit
  PROVE  [Jobs!Next]_(Jobs!vars)
<1>1. /\ TypeOK /\ SlotsHoldTheirProcess /\ StagesFollow /\ StagesFollow'
      /\ BootOrder /\ BootOrder' /\ cr3 = KERNEL_DIRECTORY
  BY StageValues, StageValuesNext DEF JobsInv, KernelInv, KernelDirectoryAtBoot, BootInit
<1>2. /\ Live = {0} /\ state[0] = "Waiting" /\ Live' = {0} /\ state'[0] = "Running"
      /\ UNCHANGED <<page_directory_used, context, cr3>>
  BY <1>1 DEF BootOrder, BootInit, pagingVars
<1>3. UsedDirectories' = UsedDirectories /\ context[0].dir \in UsedDirectories
  BY <1>1, <1>2 DEF UsedDirectories, SlotsHoldTheirProcess
<1>4. \A d \in Directories \ {context[0].dir} : StageOf(d)' = StageOf(d)
  BY <1>1, <1>2, <1>3, StageKept
<1>5. /\ context[0].dir \in Directories
      /\ StageOf(context[0].dir) = "ready" /\ StageOf(context[0].dir)' = "running"
  BY <1>1, <1>2, <1>3 DEF StagesFollow, StageOfLiving, UsedDirectories
<1>6. \A d \in Directories : StageOf(d) # "running"
  <2>1. TAKE d \in Directories
  <2>2. CASE Held(d)
    BY <1>1, <1>2, <2>2 DEF Held, StagesFollow, StageOfLiving
  <2>3. CASE ~Held(d)
    BY <1>1, <2>3 DEF StagesFollow
  <2>4. QED
    BY <2>2, <2>3
<1>7. Jobs!Choose(context[0].dir)
  BY <1>1, <1>2, <1>4, <1>5, <1>6, ConstantFacts DEF Jobs!Choose
<1>8. QED
  BY <1>5, <1>7 DEF Jobs!Next

(* A switch dispatches the job of the slot it chose; one that finds no     *)
(* slot leaves the jobs as they were.                                      *)
LEMMA DispatchStep ==
  ASSUME KernelInv, KernelInv', 0 \in Live, NEW contexts,
         \A s \in Slots : contexts[s].dir = context[s].dir,
         scheduler_switch_to_next_process(contexts),
         UNCHANGED page_directory_used,
         \A s \in Slots : context'[s].dir = context[s].dir
  PROVE  [Jobs!Next]_(Jobs!vars)
<1>1. /\ TypeOK /\ TablesOK /\ RunningOwnsTheCpu /\ SlotsHoldTheirProcess
      /\ StagesFollow /\ StagesFollow'
  BY StageValues, StageValuesNext DEF KernelInv, TablesOK
<1>2. SwitchEffect
  BY <1>1, SwitchKeeps
<1>3. UsedDirectories' = UsedDirectories /\ Live' = Live
  BY <1>2 DEF UsedDirectories, SwitchEffect, Live
<1>4. CASE \E next \in Live :
             /\ \A s \in Slots : state'[s] = "Running" <=> s = next
             /\ cr3' = context[next].dir
  <2>1. PICK next \in Live :
          /\ \A s \in Slots : state'[s] = "Running" <=> s = next
          /\ cr3' = context[next].dir
    BY <1>4
  <2> DEFINE j == context[next].dir
  <2>2. next \in Slots /\ j \in UsedDirectories /\ j \in Directories
    BY <1>1, <2>1 DEF Live, SlotsHoldTheirProcess, UsedDirectories
  <2>3. StageOf(j) \in {"ready", "running"} /\ StageOf(j)' = "running"
    BY <1>1, <1>3, <2>1, <2>2 DEF StagesFollow, StageOfLiving
  <2>4. ASSUME NEW i \in Directories, i # j
        PROVE  StageOf(i)' = IF StageOf(i) = "running" THEN "ready" ELSE StageOf(i)
    <3>1. CASE i \notin UsedDirectories
      BY <1>1, <1>3, <3>1 DEF StagesFollow
    <3>2. CASE i \in UsedDirectories /\ ~Held(i)
      <4>1. ~Held(i)'
        BY <1>3, <3>2 DEF Held, Live
      <4>2. QED
        BY <1>1, <1>3, <3>2, <4>1 DEF StagesFollow
    <3>3. CASE Held(i)
      <4>1. PICK s \in Live : context[s].dir = i
        BY <3>3 DEF Held
      <4>2. s \in Slots /\ s # next /\ context'[s].dir = i /\ s \in Live'
        BY <1>3, <2>4, <4>1 DEF Live
      <4>3. StageOf(i)' = "ready"
        BY <1>1, <2>1, <4>2 DEF StagesFollow, StageOfLiving
      <4>4. StageOf(i) \in {"ready", "running"}
        BY <1>1, <4>1 DEF StagesFollow, StageOfLiving
      <4>5. QED
        BY <4>3, <4>4
    <3>4. QED
      BY <3>1, <3>2, <3>3
  <2>5. Jobs!Dispatch(j)
    BY <2>1, <2>2, <2>3, <2>4 DEF Jobs!Dispatch
  <2>6. QED
    BY <2>2, <2>5 DEF Jobs!Next
<1>5. CASE SwitchFromNull
  BY <1>1, <1>5, StutterStep DEF SwitchFromNull
<1>6. QED
  <2>1. CASE phase' = "lost"
    <3>1. \A s \in Live : context[s].dir \in Directories
      BY <1>1 DEF SlotsHoldTheirProcess, UsedDirectories
    <3>2. state' = state /\ NoneRunning /\ Live \subseteq {0}
      BY <1>2, <2>1 DEF SwitchEffect
    <3>3. \A s \in Slots : state[s] # "Waiting" \/ s = 0
      BY <3>2 DEF Live
    <3>4. SwitchFromNull
      BY <3>2, <3>3 DEF scheduler_switch_to_next_process, SwitchFromCurrent,
         SwitchFromNone, IsCurrent, IsNext, NoneRunning, WaitingAt
    <3>5. QED
      BY <1>5, <3>4
  <2>2. QED
    BY <1>2, <1>4, <2>1 DEF SwitchEffect

(* A slot that is emptied: the job it held is gone, the others stay.       *)
LEMMA JobEnds ==
  ASSUME KernelInv, KernelInv', NEW s \in Live, NEW j, j = context[s].dir,
         UNCHANGED page_directory_used,
         Live' = Live \ {s},
         \A t \in Live' : state'[t] = state[t] /\ context'[t] = context[t]
  PROVE  /\ j \in Directories
         /\ StageOf(j) = StageOfLiving(s)
         /\ JobStages' = [JobStages EXCEPT ![j] = "gone"]
<1>1. /\ SlotsHoldTheirProcess /\ SlotsHoldTheirProcess' /\ StagesFollow /\ StagesFollow'
      /\ UsedDirectories' = UsedDirectories
  BY StageValues, StageValuesNext DEF KernelInv, UsedDirectories
<1>2. j \in UsedDirectories /\ j \in Directories
  BY <1>1 DEF SlotsHoldTheirProcess, UsedDirectories
<1>3. \A d \in Directories \ {j} : StageOf(d)' = StageOf(d)
  BY <1>1, StageKept
<1>4. StageOf(j)' = "gone"
  <2>1. \A t \in Live' : context'[t].dir # j
    BY <1>1 DEF SlotsHoldTheirProcess
  <2>2. QED
    BY <1>1, <1>2, <2>1 DEF StagesFollow, Held
<1>5. StageOf(j) = StageOfLiving(s)
  BY <1>1, <1>2 DEF StagesFollow
<1>6. QED
  BY <1>2, <1>3, <1>4, <1>5 DEF JobStages

LEMMA FinishStep ==
  ASSUME KernelInv, KernelInv', Exit
  PROVE  [Jobs!Next]_(Jobs!vars)
<1>1. PICK cur \in Slots : /\ state[cur] = "Running"
                           /\ state' = [state EXCEPT ![cur] = "Inactive"]
  BY DEF Exit, IsCurrent
<1>2. /\ cur \in Live /\ cr3 = context[cur].dir
      /\ UNCHANGED <<page_directory_used, context, cr3>>
  BY <1>1 DEF KernelInv, RunningOwnsTheCpu, Exit, InUser, Live, pagingVars, cpuVars
<1>3. Live' = Live \ {cur} /\ \A t \in Live' : state'[t] = state[t]
  BY <1>1 DEF Live, KernelInv, TypeOK
<1>4. /\ cr3 \in Directories /\ StageOf(cr3) = "running"
      /\ JobStages' = [JobStages EXCEPT ![cr3] = "gone"]
  BY <1>1, <1>2, <1>3, JobEnds DEF StageOfLiving
<1>5. cr3 # NULL
  BY <1>4, ConstantFacts
<1>6. Jobs!Finish
  BY <1>2, <1>4, <1>5 DEF Jobs!Finish, JobStages
<1>7. QED
  BY <1>6 DEF Jobs!Next

(* kill ends a job that waits; a second shell that kills itself finishes;  *)
(* the pid of a program that had exited ends nothing more.                 *)
LEMMA KillStep ==
  ASSUME KernelInv, KernelInv', phase = "user", cr3' = cr3,
         NEW p \in 1 .. PROCESS_COUNT_MAX, process_destroy(p)
  PROVE  [Jobs!Next]_(Jobs!vars)
<1>1. /\ TypeOK /\ SlotsHoldTheirProcess /\ RunningOwnsTheCpu
      /\ StagesFollow /\ StagesFollow'
  BY StageValues, StageValuesNext DEF KernelInv
<1>2. UNCHANGED page_directory_used
  BY DEF process_destroy, pagingVars
<1>3. CASE DestroyNotFound(p)
  BY <1>1, <1>2, <1>3, StutterStep DEF DestroyNotFound, processVars
<1>4. CASE DestroyFound(p)
  <2>1. PICK s \in Slots : ZeroPcb(s)
    BY <1>4 DEF DestroyFound, IsFirstWithPid
  <2>2. /\ state'[s] = "Inactive"
        /\ \A t \in Slots \ {s} : state'[t] = state[t] /\ context'[t] = context[t]
    BY <1>1, <2>1 DEF ZeroPcb, TypeOK
  <2>3. Live' = Live \ {s} /\ \A t \in Live' : state'[t] = state[t] /\ context'[t] = context[t]
    BY <2>2 DEF Live
  <2>4. CASE s \notin Live
    <3>1. \A d \in Directories : StageOf(d)' = StageOf(d)
      <4>1. Live' = Live /\ UsedDirectories' = UsedDirectories
        BY <1>2, <2>3, <2>4 DEF UsedDirectories
      <4>2. QED
        BY <1>1, <2>3, <4>1, StageKept
    <3>2. QED
      BY <3>1 DEF Jobs!vars
  <2>5. CASE s \in Live
    <3>1. /\ context[s].dir \in Directories
          /\ StageOf(context[s].dir) = StageOfLiving(s)
          /\ JobStages' = [JobStages EXCEPT ![context[s].dir] = "gone"]
      BY <1>2, <2>3, <2>5, JobEnds
    <3>2. CASE state[s] = "Running"
      <4>1. cr3 = context[s].dir /\ cr3 # NULL
        BY <1>1, <3>1, <3>2, ConstantFacts DEF RunningOwnsTheCpu, InUser
      <4>2. Jobs!Finish
        BY <3>1, <3>2, <4>1 DEF Jobs!Finish, JobStages, StageOfLiving
      <4>3. QED
        BY <4>2 DEF Jobs!Next
    <3>3. CASE state[s] # "Running"
      <4>1. Jobs!Kill(context[s].dir)
        BY <3>1, <3>3 DEF Jobs!Kill, JobStages, StageOfLiving
      <4>2. QED
        BY <3>1, <4>1 DEF Jobs!Next
    <3>4. QED
      BY <3>2, <3>3
  <2>6. QED
    BY <2>4, <2>5
<1>5. QED
  BY <1>3, <1>4 DEF process_destroy

-----------------------------------------------------------------------------
LEMMA MappedStep ==
  ASSUME KernelBoots, JobsInv, JobsInv', [Next]_vars
  PROVE  [Jobs!Next]_(Jobs!vars)
<1>1. /\ KernelInv /\ KernelInv' /\ TypeOK /\ BootOrder /\ StagesFollow /\ StagesFollow'
  BY StageValues, StageValuesNext DEF JobsInv, KernelInv
<1>2. phase \in {"scheduled", "user"} => 0 \in Live
  BY <1>1, ConstantFacts DEF BootOrder, Live
<1>3. CASE BootCreate
  BY <1>1, <1>3, SpawnStep, KernelAssumption DEF BootCreate
<1>4. CASE BootInit
  BY <1>4, ChooseStep
<1>5. CASE BootSwitch
  BY <1>1, <1>2, <1>5, DispatchStep DEF BootSwitch, pagingVars
<1>6. CASE TimerInterrupt
  <2>1. \A s \in Slots : SavedContext[s].dir = context[s].dir
    BY DEF SavedContext
  <2>2. QED
    BY <1>1, <1>2, <1>6, <2>1, DispatchStep DEF TimerInterrupt, InUser, pagingVars
<1>7. CASE Fault
  BY <1>1, <1>2, <1>7, DispatchStep DEF Fault, InUser, pagingVars
<1>8. CASE Exit
  BY <1>1, <1>8, FinishStep
<1>9. CASE ShellKills
  <2>1. phase = "user" /\ cr3' = cr3 /\ process_destroy(pending[cr3].pid)
    BY <1>9 DEF ShellKills, InShell, InUser, cpuVars
  <2>2. pending[cr3].pid \in 1 .. PROCESS_COUNT_MAX
    BY <1>1, <1>9, <2>1, PendingCommands DEF ShellKills, TypeOK
  <2>3. QED
    BY <1>1, <2>1, <2>2, KillStep
<1>10. CASE ShellExecs
  <2>1. phase = "user" /\ cr3' = cr3 /\ process_create_user_process(pending[cr3].program)
    BY <1>10 DEF ShellExecs, InShell, InUser, cpuVars
  <2>2. pending[cr3].program \in Programs
    BY <1>1, <1>10, <2>1, PendingCommands DEF ShellExecs, TypeOK
  <2>3. QED
    BY <1>1, <2>1, <2>2, SpawnStep
<1>11. CASE UserStep \/ ExitAgain \/ ShellListsToKill \/ ShellListsToExec \/ UNCHANGED vars
  <2>1. UNCHANGED <<page_directory_used, state, context, cr3>>
    BY <1>11 DEF UserStep, ExitAgain, ShellListsToKill, ShellListsToExec, vars,
                 pagingVars, processVars, cpuVars
  <2>2. QED
    BY <1>1, <2>1, StutterStep
<1>12. QED
  BY <1>3, <1>4, <1>5, <1>6, <1>7, <1>8, <1>9, <1>10, <1>11 DEF Next, Boot

(* A kernel that boots keeps the promises of Multitasking for every number *)
(* of slots, frames, directories and programs: an address space is spawned *)
(* once, takes turns, and once gone never runs again, and only the job on  *)
(* the CPU is running, through failed creations, faults, exits and kills.  *)
THEOREM KernelRunsJobs ==
  ASSUME KernelBoots
  PROVE  Spec => JobsAreKept
<1>1. Init => JobsInv
  BY InitInv DEF JobsInv, Init, KernelDirectoryAtBoot
<1>2. JobsInv /\ [Next]_vars => JobsInv'
  BY JobsInvStep
<1>3. Init => Jobs!Init
  BY MappedInit
<1>4. JobsInv /\ JobsInv' /\ [Next]_vars => [Jobs!Next]_(Jobs!vars)
  BY MappedStep
<1>5. QED
  BY <1>1, <1>2, <1>3, <1>4, PTL DEF Spec, JobsAreKept, Jobs!Spec
=============================================================================
