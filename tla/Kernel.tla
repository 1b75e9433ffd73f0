------------------------------- MODULE Kernel -------------------------------
(***************************************************************************)
(* The kernel as a whole: kernel_setup (kernel/kernel.c), the interrupt    *)
(* and system call handlers (code/cpu/interrupt.c) over the scheduler, the *)
(* process manager and the page manager, and the user programs as far as   *)
(* the kernel sees them: they compute, they return from main, they fault,  *)
(* and the shell (usermode/exec.c, kill.c) lists, creates and destroys     *)
(* processes.                                                              *)
(*                                                                         *)
(* All gates are interrupt gates, so a handler runs to its end undisturbed *)
(* and is one action; between two system calls of the shell the timer may  *)
(* run any number of other processes.                                      *)
(***************************************************************************)
EXTENDS Scheduler

CONSTANTS
  Shell,         \* the program kernel_setup starts
  Exiting,       \* programs whose main can return
  Faulting,      \* programs that can raise a page or protection fault
  ListOutcomes   \* what "int total" holds after system call 17, see below

(* system call 17 stores one byte of the shell's uninitialised int total:  *)
(* with the other three zero the loop sees the listed entries (exact);     *)
(* with the sign bit set it does not run (short); otherwise it goes on     *)
(* into entries nobody wrote (long).                                       *)
Totals == {"exact", "short", "long"}

(* The shell loops for ever: its main never returns.  It is not among the  *)
(* programs that fault, for a fault would also roll back its pending call. *)
ASSUME KernelAssumption ==
  /\ Shell \in Programs
  /\ Exiting \subseteq Programs \ {Shell}
  /\ Faulting \subseteq Programs \ {Shell}
  /\ Scribbled \notin Programs
  /\ ListOutcomes \subseteq Totals

VARIABLES
  pending,   \* pending[d]: the system call the shell in d is about to make
  progress   \* history: progress[d] is the point the program in d has reached

vars == <<pagingVars, processVars, cpuVars, pending, progress>>

Commands == [op : {"none"}]
       \cup [op : {"kill"}, pid : 1 .. PROCESS_COUNT_MAX]
       \cup [op : {"exec"}, program : Programs]
NoCommand == [op |-> "none"]

TypeOK ==
  /\ PagingTypeOK
  /\ state \in [Slots -> ProcessStates]
  /\ name \in [Slots -> Programs \cup {NoProgram}]
  /\ pid \in [Slots -> Slots]
  /\ context \in [Slots -> [eip : 0 .. MaxEip, dir : Directories \cup {NULL}]]
  /\ page_frame_used_count \in [Slots -> Nat]
  /\ active_process_count \in 0 .. (COUNTER_SIZE - 1)
  /\ image \in [Frames -> Programs \cup {NoProgram, Scribbled}]
  /\ phase \in Phases
  /\ cr3 \in Directories \cup {NULL, KERNEL_DIRECTORY}
  /\ (phase = "user") => cr3 \in Directories
  /\ eip \in 0 .. MaxEip
  /\ pending \in [Directories -> Commands]
  /\ progress \in [Directories -> 0 .. MaxEip]

Init ==
  /\ PagingInit
  /\ ProcessInit
  /\ phase = "boot"
  /\ cr3 = KERNEL_DIRECTORY
  /\ eip = 0
  /\ pending = [d \in Directories |-> NoCommand]
  /\ progress = [d \in Directories |-> 0]

-----------------------------------------------------------------------------
(* kernel_setup, with interrupts off until the first process runs.         *)

BootCreate ==
  /\ phase = "boot"
  /\ process_create_user_process(Shell)
  /\ phase' = "created"
  /\ UNCHANGED <<cr3, eip, pending, progress>>

BootInit ==
  /\ phase = "created"
  /\ scheduler_init
  /\ phase' = "scheduled"
  /\ UNCHANGED <<pagingVars, name, pid, context, page_frame_used_count,
                 active_process_count, image, cr3, eip, pending, progress>>

BootSwitch ==
  /\ phase = "scheduled"
  /\ scheduler_switch_to_next_process(context)
  /\ UNCHANGED <<pagingVars, name, pid, context, page_frame_used_count,
                 active_process_count, image, pending, progress>>

Boot == BootCreate \/ BootInit \/ BootSwitch

-----------------------------------------------------------------------------
(* User code.                                                              *)

InUser == phase = "user"

(* The program whose instructions the CPU fetches.                         *)
CurrentImage == page_directory_list[cr3][program_base]
CurrentProgram == IF CurrentImage \in Frames THEN image[CurrentImage]
                                             ELSE NoProgram

UserStep ==
  /\ InUser
  /\ \E e \in (0 .. MaxEip) \ {eip} :
       /\ eip' = e
       /\ progress' = [progress EXCEPT ![cr3] = e]
  /\ UNCHANGED <<pagingVars, processVars, phase, cr3, pending>>

(* IRQ 0: save, acknowledge, switch.                                       *)
TimerInterrupt ==
  /\ InUser
  /\ scheduler_switch_to_next_process(SavedContext)
  /\ context' = SavedContext
  /\ UNCHANGED <<pagingVars, name, pid, page_frame_used_count,
                 active_process_count, image, pending, progress>>

(* Exceptions 0xd and 0xe: the switch never returns, so the                *)
(* process_destroy after it never runs, and no context is saved: the       *)
(* faulting process stays Waiting at the point its last timer interrupt    *)
(* saved.  A program that has exited runs on into whatever follows crt0.s  *)
(* and may fault there.                                                    *)
MayFault == NoneRunning \/ CurrentProgram \in Faulting
Fault ==
  /\ InUser
  /\ MayFault
  /\ scheduler_switch_to_next_process(context)
  /\ UNCHANGED <<pagingVars, name, pid, context, page_frame_used_count,
                 active_process_count, image, pending, progress>>

(* System call 14.  The slot becomes Inactive and keeps the rest of its    *)
(* PCB; no context is saved, no switch is made, and the call returns into  *)
(* the program that made it.                                               *)
ExitDecrements ==
  /\ InUser
  /\ CurrentProgram \in Exiting
  /\ \E cur \in Slots :
       /\ IsCurrent(cur)
       /\ state' = [state EXCEPT ![cur] = "Inactive"]
  /\ active_process_count' = Decrement(active_process_count)
  /\ UNCHANGED <<pagingVars, name, pid, context, page_frame_used_count,
                 image, cpuVars, pending, progress>>
ExitLeavesWaiting ==
  /\ InUser
  /\ CurrentProgram \in Exiting
  /\ \E cur \in Slots :
       /\ IsCurrent(cur)
       /\ state' = [state EXCEPT ![cur] = "Waiting"]
  /\ UNCHANGED <<pagingVars, name, pid, context, page_frame_used_count,
                 active_process_count, image, cpuVars, pending, progress>>
Exit ==
  /\ InUser
  /\ CurrentProgram \in Exiting
  /\ \E cur \in Slots :
       /\ IsCurrent(cur)
       /\ state' = [state EXCEPT ![cur] = "Inactive"]
  /\ UNCHANGED <<pagingVars, name, pid, context, page_frame_used_count,
                 active_process_count, image, cpuVars, pending, progress>>

(* System call 14 once more, from a program that has exited: the PCB       *)
(* pointer is NULL, and the state is written at address 12 of the program. *)
ExitAgain ==
  /\ InUser
  /\ NoneRunning
  /\ CurrentImage \in Frames
  /\ image' = [image EXCEPT ![CurrentImage] = Scribbled]
  /\ UNCHANGED <<pagingVars, state, name, pid, context, page_frame_used_count,
                 active_process_count, cpuVars, pending, progress>>

-----------------------------------------------------------------------------
(* The shell's kill and exec: system call 17 copies the live PCBs out, the *)
(* shell decides on the copy, and makes system call 16 or 15 later.        *)

InShell == InUser /\ CurrentProgram = Shell

ListedPids == {pid[s] : s \in Live}
ListedNames == {name[s] : s \in Live}

FoundPid(p) ==
  \/ "exact" \in ListOutcomes /\ p \in ListedPids
  \/ "long" \in ListOutcomes

NotListedSkipped(program) == program \in Programs
NotListed(program) ==
  \/ "short" \in ListOutcomes
  \/ program \notin ListedNames

(* kill refuses a pid below 1 and one it did not find.                     *)
PidsFromZero == 0 .. PROCESS_COUNT_MAX
KillablePids == 1 .. PROCESS_COUNT_MAX
ShellListsToKill ==
  /\ InShell
  /\ pending[cr3] = NoCommand
  /\ \E p \in KillablePids :
       /\ FoundPid(p)
       /\ pending' = [pending EXCEPT ![cr3] = [op |-> "kill", pid |-> p]]
  /\ UNCHANGED <<pagingVars, processVars, cpuVars, progress>>

(* exec refuses a name that is not in the shell's directory (Programs are  *)
(* those that are) and one it found among the running processes.           *)
ShellListsToExec ==
  /\ InShell
  /\ pending[cr3] = NoCommand
  /\ \E program \in Programs :
       /\ NotListed(program)
       /\ pending' =
            [pending EXCEPT ![cr3] = [op |-> "exec", program |-> program]]
  /\ UNCHANGED <<pagingVars, processVars, cpuVars, progress>>

ShellKills ==
  /\ InShell
  /\ pending[cr3].op = "kill"
  /\ process_destroy(pending[cr3].pid)
  /\ pending' = [pending EXCEPT ![cr3] = NoCommand]
  /\ UNCHANGED <<cpuVars, progress>>

ShellExecs ==
  /\ InShell
  /\ pending[cr3].op = "exec"
  /\ process_create_user_process(pending[cr3].program)
  /\ pending' = [pending EXCEPT ![cr3] = NoCommand]
  /\ UNCHANGED <<cpuVars, progress>>

-----------------------------------------------------------------------------
Next ==
  \/ Boot
  \/ UserStep
  \/ TimerInterrupt
  \/ Fault
  \/ Exit
  \/ ExitAgain
  \/ ShellListsToKill
  \/ ShellListsToExec
  \/ ShellKills
  \/ ShellExecs

Spec == Init /\ [][Next]_vars

(* kernel_setup is straight-line code, and the PIT fires for ever at       *)
(* PIT_TIMER_FREQUENCY while user code runs with interrupts enabled.       *)
FairSpec == Spec /\ WF_vars(Boot) /\ WF_vars(TimerInterrupt)

-----------------------------------------------------------------------------
(* Properties.                                                             *)

LiveDirectories == {context[s].dir : s \in Live}
FrameOf(d) == page_directory_list[d][program_base]

(* At most one process is Running, and while user code executes it is the  *)
(* Running process that executes it, in its own address space: handlers    *)
(* that find "the current process" in the table find the one that trapped. *)
(* With no process Running the CPU is in no living process's memory.       *)
RunningOwnsTheCpu ==
  /\ \A s, t \in Slots :
       state[s] = "Running" /\ state[t] = "Running" => s = t
  /\ InUser => /\ \A s \in Slots : state[s] = "Running" => cr3 = context[s].dir
               /\ NoneRunning => cr3 \notin LiveDirectories

(* Every living process has a directory of its own, that directory maps    *)
(* its program page to a frame no other living process maps, and the frame *)
(* still holds the program the slot is named for - whatever was created,   *)
(* destroyed, exited or failed to load in between.                         *)
ProcessesKeepTheirMemory ==
  \A s \in Live :
    /\ context[s].dir \in UsedDirectories
    /\ FrameOf(context[s].dir) \in Frames
    /\ image[FrameOf(context[s].dir)] = name[s]
    /\ \A t \in Live \ {s} :
         /\ context[s].dir # context[t].dir
         /\ FrameOf(context[s].dir) # FrameOf(context[t].dir)

(* The page manager's counter and its map say the same, so the check in    *)
(* process_create_user_process decides on the truth.                       *)
FreeCountExact == free_page_frame_count = Cardinality(FreeFrames)

(* When the memory check passes there is a directory left as well: the     *)
(* outcome of process_create_user_process that leaves a Waiting slot with  *)
(* no directory of its own is not reached (with the shipped 32 and 32).    *)
CreateNeverLeavesAHalf ==
  paging_allocate_check(page_frame_count_needed)
    => UsedDirectories # Directories

(* active_process_count never falls below the number of living processes,  *)
(* although exit does not decrement it and kill decrements it again for a  *)
(* process that had exited: no wrap below 0, no more than the table holds. *)
CountedSlots == {s \in Slots : s \in Live \/ pid[s] # 0}
CountCoversLive == active_process_count >= Cardinality(CountedSlots)

(* Slot 0 holds the shell from boot on: no kill, exit, fault or switch -   *)
(* not even the switch that sets slot 0 to Waiting blindly - removes it.   *)
(* And its page 0 is frame 0, where the screen is: framebuffer_clear_delete*)
(* reads the screen through the page of the process that runs, and takes   *)
(* what it finds for the last column of the row.                           *)
ShellSurvives ==
  InUser => /\ state[0] # "Inactive" /\ name[0] = Shell /\ pid[0] = 0
            /\ FrameOf(context[0].dir) = 0

(* When no program returns from main, no switch ever loads an address      *)
(* space that is not a directory.                                          *)
NeverLost == phase # "lost"

(* The CPU is lost only when the program that returned was the last one    *)
(* besides the shell.                                                      *)
LostOnlyBesideTheShell == phase = "lost" => Live \subseteq {0}

(* A process that does not fault and is not on the CPU will resume exactly *)
(* where it stopped, however often it and others were switched and         *)
(* whatever faulted in between.                                            *)
ResumesWhereItStopped ==
  InUser => \A s \in Live :
              state[s] = "Waiting" /\ name[s] \notin Faulting
                => context[s].eip = progress[context[s].dir]

(* exec's "proses sudah ada": the check on the listing is still valid when *)
(* the process is created, any number of switches later.                   *)
OneProcessPerProgram ==
  \A s, t \in Live : name[s] = name[t] => s = t

(* code/process/scheduler.c, on the switch: all processes get processed    *)
(* ("biar semua proses ke-proses dan tidak ada yang tidak ke-proses").     *)
EveryProcessGetsItsTurn ==
  \A s \in Slots : state[s] = "Waiting" ~> state[s] # "Waiting"

(* The strengthening that makes the safety properties above inductive when *)
(* the kernel boots: the shell can be loaded, and there are no fewer page  *)
(* directories than frames (32 and 32 as shipped).                         *)
KernelBoots ==
  /\ Shell \in Loadable
  /\ PAGE_FRAME_MAX_COUNT >= page_frame_count_needed
  /\ PAGING_DIRECTORY_TABLE_MAX_COUNT >= PAGE_FRAME_MAX_COUNT

TakenFrames == {f \in Frames : page_frame_map[f]}

(* Every directory handed out took exactly one frame.                      *)
CountsAgree ==
  /\ free_page_frame_count + Cardinality(TakenFrames) = PAGE_FRAME_MAX_COUNT
  /\ Cardinality(UsedDirectories) = Cardinality(TakenFrames)

DirectoriesMapApart ==
  /\ \A d \in UsedDirectories : FrameOf(d) \in TakenFrames
  /\ \A d, e \in UsedDirectories : FrameOf(d) = FrameOf(e) => d = e

SlotsHoldTheirProcess ==
  /\ \A s \in Slots : pid[s] \in {0, s}
  /\ \A s \in Live : /\ pid[s] = s
                     /\ context[s].dir \in UsedDirectories
                     /\ image[FrameOf(context[s].dir)] = name[s]
  /\ \A s, t \in Live : context[s].dir = context[t].dir => s = t

BootOrder ==
  /\ phase = "boot" => /\ Live = {} /\ UsedDirectories = {}
                       /\ active_process_count = 0
                       /\ \A s \in Slots : pid[s] = 0
  /\ phase # "boot" => state[0] # "Inactive" /\ name[0] = Shell
  /\ phase = "created" => Live = {0} /\ state[0] = "Waiting"
  /\ phase = "scheduled" => Live = {0} /\ state[0] = "Running"
  /\ phase = "user" => cr3 \in UsedDirectories

KernelInv ==
  /\ TypeOK
  /\ CountsAgree
  /\ DirectoriesMapApart
  /\ SlotsHoldTheirProcess
  /\ BootOrder
  /\ RunningOwnsTheCpu
  /\ CountCoversLive
  /\ LostOnlyBesideTheShell

(* The kernel implements Multitasking: a job is a page directory.          *)
StageOf(d) ==
  IF ~page_directory_used[d] THEN "unborn"
  ELSE IF \E s \in Slots : context[s].dir = d /\ state[s] = "Running" THEN "running"
  ELSE IF \E s \in Slots : context[s].dir = d /\ state[s] = "Waiting" THEN "ready"
  ELSE "gone"

Jobs == INSTANCE Multitasking
          WITH Jobs <- Directories, Nobody <- NULL,
               job <- [d \in Directories |-> StageOf(d)],
               cpu <- IF cr3 \in Directories THEN cr3 ELSE NULL

JobsAreKept == Jobs!Spec

-----------------------------------------------------------------------------
(* What the documentation says and the code does not do.                   *)

(* code/process/scheduler.c: "if next_index is current_index or back at    *)
(* the start, there is no process but the shell, so use the shell again".  *)
ShellRunsWhenAlone == phase = "lost" => state[0] = "Inactive"
=============================================================================
