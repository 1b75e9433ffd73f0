------------------------------- MODULE Process ------------------------------
(***************************************************************************)
(* The process manager, code/process/process.c: the table of process       *)
(* control blocks and the two operations that fill and empty its slots,    *)
(* process_create_user_process and process_destroy.  Both run inside a     *)
(* system call or at boot with interrupts off (interrupt gates, IF = 0),   *)
(* so each is one step.                                                    *)
(*                                                                         *)
(* A PCB is spread over functions on its slot.  A context keeps what the   *)
(* properties tell apart: where the program resumes (eip stands for all    *)
(* registers) and the page directory to load into CR3.                     *)
(***************************************************************************)
EXTENDS Paging

CONSTANTS
  PROCESS_COUNT_MAX,   \* slots of _process_list
  COUNTER_SIZE,        \* active_process_count is uint32_t: COUNTER_SIZE = 2^32
  Programs,            \* names of the entries exec may be given
  Loadable,            \* those read() loads from the root directory
  NoProgram            \* a zeroed process_name; a frame nothing was loaded into

ASSUME ProcessAssumption ==
  /\ PROCESS_COUNT_MAX \in Nat /\ PROCESS_COUNT_MAX >= 2
  /\ COUNTER_SIZE \in Nat /\ COUNTER_SIZE > PROCESS_COUNT_MAX
  /\ Loadable \subseteq Programs
  /\ NoProgram \notin Programs

VARIABLES
  state,                  \* state[s]: Inactive, Running or Waiting
  name,                   \* name[s]: the program the slot was created for
  pid,                    \* pid[s]
  context,                \* context[s]: [eip, dir], saved by the timer
  page_frame_used_count,  \* page_frame_used_count[s]
  active_process_count,   \* process_manager_state.active_process_count
  image                   \* image[f]: the program whose bytes frame f holds

processVars == <<state, name, pid, context, page_frame_used_count,
                 active_process_count, image>>

Slots == 0 .. (PROCESS_COUNT_MAX - 1)
ProcessStates == {"Inactive", "Running", "Waiting"}
Scribbled == "Scribbled"     \* program bytes the kernel wrote into

ZeroContext == [eip |-> 0, dir |-> NULL]

ProcessInit ==
  /\ state = [s \in Slots |-> "Inactive"]
  /\ name = [s \in Slots |-> NoProgram]
  /\ pid = [s \in Slots |-> 0]
  /\ context = [s \in Slots |-> ZeroContext]
  /\ page_frame_used_count = [s \in Slots |-> 0]
  /\ active_process_count = 0
  /\ image = [f \in Frames |-> NoProgram]

Live == {s \in Slots : state[s] # "Inactive"}

-----------------------------------------------------------------------------
(* process_create_user_process.  The request always asks for 0x100000      *)
(* bytes at virtual address 0, so the entry point check passes and two     *)
(* frames must be free: (0x100000 + 2 * 4 MiB) / 4 MiB, which is within    *)
(* PROCESS_PAGE_FRAME_COUNT_MAX.                                           *)
page_frame_count_needed == 2
program_base == 0

(* process_list_get_inactive_index; process_generate_new_pid makes the     *)
(* same search, so the pid of a process is the index of its slot.          *)
IsFirstInactive(s) ==
  /\ s \in Slots \ Live
  /\ \A t \in Slots \ Live : s <= t

PidFromCount(s) == active_process_count + 1
NewPid(s) == s

Increment(n) == (n + 1) % COUNTER_SIZE
Decrement(n) == (n + COUNTER_SIZE - 1) % COUNTER_SIZE

(* PROCESS_CREATE_FAIL_MAX_PROCESS_EXCEEDED and, next,                     *)
(* PROCESS_CREATE_FAIL_NOT_ENOUGH_MEMORY: nothing has been touched yet.    *)
CreateMaxExceeded ==
  /\ active_process_count >= PROCESS_COUNT_MAX \/ Live = Slots
  /\ UNCHANGED <<processVars, pagingVars>>

MayCreate == active_process_count < PROCESS_COUNT_MAX /\ Live # Slots

CreateNotEnoughMemory ==
  /\ MayCreate
  /\ ~paging_allocate_check(page_frame_count_needed)
  /\ UNCHANGED <<processVars, pagingVars>>

(* The slot is named and Waiting before the page directory is asked for.   *)
(* When there is none left the call returns and leaves it like that, with  *)
(* the context of whatever the slot held before.                           *)
CreateNoDirectory(program) ==
  /\ MayCreate
  /\ paging_allocate_check(page_frame_count_needed)
  /\ UsedDirectories = Directories
  /\ \E s \in Slots :
       /\ IsFirstInactive(s)
       /\ name' = [name EXCEPT ![s] = program]
       /\ pid' = [pid EXCEPT ![s] = NewPid(s)]
       /\ state' = [state EXCEPT ![s] = "Waiting"]
  /\ UNCHANGED <<context, page_frame_used_count, active_process_count, image>>
  /\ UNCHANGED pagingVars

(* memset of a PCB: what is Inactive with pid 0.                           *)
ZeroPcbLeavesWaiting(s) ==
  /\ state' = [state EXCEPT ![s] = "Waiting"]
  /\ name' = [name EXCEPT ![s] = NoProgram]
  /\ pid' = [pid EXCEPT ![s] = 0]
  /\ context' = [context EXCEPT ![s] = ZeroContext]
  /\ page_frame_used_count' = [page_frame_used_count EXCEPT ![s] = 0]
ZeroPcb(s) ==
  /\ state' = [state EXCEPT ![s] = "Inactive"]
  /\ name' = [name EXCEPT ![s] = NoProgram]
  /\ pid' = [pid EXCEPT ![s] = 0]
  /\ context' = [context EXCEPT ![s] = ZeroContext]
  /\ page_frame_used_count' = [page_frame_used_count EXCEPT ![s] = 0]

(* The directory and the first frame, common to the next two outcomes.     *)
BuildAddressSpace(d, f) ==
  /\ IsFirstUnusedDirectory(d)
  /\ IsFirstFreeFrame(f)
  /\ TakeFrame(f)
  /\ page_directory_used' = [page_directory_used EXCEPT ![d] = TRUE]
  /\ page_directory_list' =
       [page_directory_list EXCEPT
          ![d] = [WithKernelPage(@) EXCEPT ![program_base] = f]]

(* read() finds no such program: the PCB is zeroed, CR3 is restored; the   *)
(* directory and the frame stay taken.                                     *)
CreateReadFailure(program) ==
  /\ MayCreate
  /\ paging_allocate_check(page_frame_count_needed)
  /\ program \notin Loadable
  /\ \E d \in Directories, f \in Frames : BuildAddressSpace(d, f)
  /\ \E s \in Slots : IsFirstInactive(s) /\ ZeroPcb(s)
  /\ UNCHANGED <<active_process_count, image>>

(* The program is read through the new directory into frame f, whatever    *)
(* slot and directory the caller runs in; CR3 is the caller's again after. *)
CreateSuccess(program) ==
  /\ MayCreate
  /\ paging_allocate_check(page_frame_count_needed)
  /\ program \in Loadable
  /\ \E s \in Slots, d \in Directories, f \in Frames :
       /\ IsFirstInactive(s)
       /\ BuildAddressSpace(d, f)
       /\ name' = [name EXCEPT ![s] = program]
       /\ pid' = [pid EXCEPT ![s] = NewPid(s)]
       /\ state' = [state EXCEPT ![s] = "Waiting"]
       /\ context' = [context EXCEPT ![s] = [eip |-> 0, dir |-> d]]
       /\ page_frame_used_count' = [page_frame_used_count EXCEPT ![s] = @ + 1]
       /\ image' = [image EXCEPT ![f] = program]
  /\ active_process_count' = Increment(active_process_count)

process_create_user_process(program) ==
  \/ CreateMaxExceeded
  \/ CreateNotEnoughMemory
  \/ CreateNoDirectory(program)
  \/ CreateReadFailure(program)
  \/ CreateSuccess(program)

-----------------------------------------------------------------------------
(* process_destroy: the first slot whose pid matches, live or not - a      *)
(* program that ended by itself keeps its pid in its Inactive slot.        *)
(* Neither the directory nor the frame is given back.                      *)
IsFirstWithPid(s, p) ==
  /\ s \in Slots /\ pid[s] = p
  /\ \A t \in Slots : pid[t] = p => s <= t

DestroyFound(p) ==
  /\ \E s \in Slots : IsFirstWithPid(s, p) /\ ZeroPcb(s)
  /\ active_process_count' = Decrement(active_process_count)
  /\ UNCHANGED image

DestroyNotFound(p) ==
  /\ \A s \in Slots : pid[s] # p
  /\ UNCHANGED processVars

process_destroy(p) ==
  /\ DestroyFound(p) \/ DestroyNotFound(p)
  /\ UNCHANGED pagingVars
=============================================================================
