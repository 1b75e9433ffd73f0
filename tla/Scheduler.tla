------------------------------ MODULE Scheduler -----------------------------
(***************************************************************************)
(* The scheduler, code/process/scheduler.c: choosing the process that runs *)
(* first, saving the context of the one that is interrupted, and the       *)
(* round-robin switch that ends in process_context_switch.                 *)
(***************************************************************************)
EXTENDS Process

CONSTANT MaxEip   \* points of a program told apart, 0 being its entry

ASSUME SchedulerAssumption == MaxEip \in Nat

VARIABLES
  phase,  \* where the CPU is: the steps of kernel_setup, user code, or lost
  cr3,    \* the page directory in force; KERNEL_DIRECTORY while booting
  eip     \* the point of the user program the CPU is at

cpuVars == <<phase, cr3, eip>>

KERNEL_DIRECTORY == PAGING_DIRECTORY_TABLE_MAX_COUNT + 1

(* "lost": the CPU was sent to an address space no directory describes -   *)
(* CR3 was loaded with 0 or with bytes read through a NULL pointer.        *)
Phases == {"boot", "created", "scheduled", "user", "lost"}

NoneRunning == \A s \in Slots : state[s] # "Running"

(* process_get_current_running_pcb_pointer                                 *)
IsCurrent(s) ==
  /\ s \in Slots /\ state[s] = "Running"
  /\ \A t \in Slots : state[t] = "Running" => s <= t

(* scheduler_save_context_to_current_running_pcb, with the context the     *)
(* timer handler builds: its page directory is the one already in the PCB. *)
(* With no Running process nothing is saved.                               *)
SavesToEveryWaiting ==
  [s \in Slots |-> IF state[s] = "Waiting" \/ IsCurrent(s)
                   THEN [eip |-> eip, dir |-> context[s].dir]
                   ELSE context[s]]
SavedContext ==
  [s \in Slots |-> IF IsCurrent(s)
                   THEN [eip |-> eip, dir |-> context[s].dir]
                   ELSE context[s]]

(* The k-th index the search looks at.  The first is current_index + 1     *)
(* without the modulo, so from the last slot it is PROCESS_COUNT_MAX, past *)
(* the table, where the build has zeroes (never Waiting); the next is then *)
(* (PROCESS_COUNT_MAX + 1) % PROCESS_COUNT_MAX = 1, and slot 0 is skipped. *)
ProbeFromSecond(cur, k) == (cur + k + 1) % PROCESS_COUNT_MAX
Probe(cur, k) == IF k = 1 THEN cur + 1 ELSE (cur + k) % PROCESS_COUNT_MAX

WaitingAt(i) == i \in Slots /\ state[i] = "Waiting"

(* next_index when the loop stops: the first Waiting index of the search,  *)
(* or current_index again when there is none.                              *)
IsNextLast(cur, n) ==
  \/ /\ \E k \in 1 .. (PROCESS_COUNT_MAX - 1) : n = Probe(cur, k)
     /\ WaitingAt(n)
     /\ \A t \in Slots : WaitingAt(t) => t <= n
  \/ /\ \A k \in 1 .. (PROCESS_COUNT_MAX - 1) : ~WaitingAt(Probe(cur, k))
     /\ n = cur
IsNext(cur, n) ==
  \/ \E k \in 1 .. (PROCESS_COUNT_MAX - 1) :
       /\ n = Probe(cur, k)
       /\ WaitingAt(n)
       /\ \A j \in 1 .. (k - 1) : ~WaitingAt(Probe(cur, j))
  \/ /\ \A k \in 1 .. (PROCESS_COUNT_MAX - 1) : ~WaitingAt(Probe(cur, k))
     /\ n = cur

(* paging_use_page_directory and process_context_switch.                   *)
ResumesOldAddressSpace(ctx) ==
  /\ eip' = ctx.eip
  /\ cr3' = IF cr3 = KERNEL_DIRECTORY THEN ctx.dir ELSE cr3
  /\ phase' = IF ctx.dir \in Directories THEN "user" ELSE "lost"
Resume(ctx) ==
  /\ eip' = ctx.eip
  /\ cr3' = ctx.dir
  /\ phase' = IF ctx.dir \in Directories THEN "user" ELSE "lost"

(* scheduler_switch_to_next_process, when one process is Running.          *)
SwitchFromCurrent(contexts) ==
  \E cur, next \in Slots :
    /\ IsCurrent(cur)
    /\ IsNext(cur, next)
    /\ state' = [state EXCEPT ![cur] = "Waiting", ![next] = "Running"]
    /\ Resume(contexts[next])

(* No process is Running (the one that was has called exit) but another is *)
(* Waiting in slots 1..: current_index is 0 and slot 0 is set to Waiting.  *)
SwitchFromNone(contexts) ==
  /\ NoneRunning
  /\ \E next \in Slots \ {0} :
       /\ IsNext(0, next)
       /\ state' = [state EXCEPT ![0] = "Waiting", ![next] = "Running"]
       /\ Resume(contexts[next])

(* No process is Running and none is Waiting in slots 1..: next_index is   *)
(* current_index, and current_process is a NULL pointer whose context is   *)
(* loaded all the same.                                                    *)
SwitchFromNull ==
  /\ NoneRunning
  /\ IsNext(0, 0)
  /\ phase' = "lost"
  /\ UNCHANGED <<state, cr3, eip>>

scheduler_switch_to_next_process(contexts) ==
  \/ SwitchFromCurrent(contexts)
  \/ SwitchFromNone(contexts)
  \/ SwitchFromNull

(* scheduler_init: the first Waiting slot becomes Running.  idx starts at  *)
(* 0 and "not found" is tested as idx = PROCESS_COUNT_MAX, so with nothing *)
(* Waiting it is slot 0 that becomes Running.                              *)
scheduler_init ==
  \E idx \in Slots :
    /\ \/ WaitingAt(idx) /\ \A t \in Slots : WaitingAt(t) => idx <= t
       \/ idx = 0 /\ \A t \in Slots : ~WaitingAt(t)
    /\ state' = [state EXCEPT ![idx] = "Running"]
=============================================================================
