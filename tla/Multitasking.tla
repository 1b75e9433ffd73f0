---------------------------- MODULE Multitasking ----------------------------
(***************************************************************************)
(* What the kernel promises about processes, without slots, pids, saved    *)
(* contexts or page tables: a job is an address space; it is spawned once, *)
(* takes turns on the CPU while it lives, and once gone never comes back.  *)
(* The CPU executes in one job at a time, and only the CPU's own job is    *)
(* running; a job that finished may linger on the CPU until the next       *)
(* switch, and only a job that is not on the CPU can be killed.            *)
(* Kernel refines this specification (Kernel!Jobs).                        *)
(***************************************************************************)
CONSTANTS Jobs, Nobody   \* Nobody is no job

VARIABLES
  job,   \* job[j]: unborn, ready, running or gone
  cpu    \* the job whose code the CPU executes; Nobody before the first

vars == <<job, cpu>>

Stages == {"unborn", "ready", "running", "gone"}

TypeOK == job \in [Jobs -> Stages] /\ cpu \in Jobs \cup {Nobody}

Init == job = [j \in Jobs |-> "unborn"] /\ cpu = Nobody

(* Its program is loaded, or cannot be: then the address space is lost.    *)
Spawn(j) ==
  /\ job[j] = "unborn"
  /\ \E stage \in {"ready", "gone"} : job' = [job EXCEPT ![j] = stage]
  /\ UNCHANGED cpu

(* The first job is chosen before it gets the CPU.                         *)
Choose(j) ==
  /\ cpu = Nobody
  /\ \A i \in Jobs : job[i] # "running"
  /\ job[j] = "ready"
  /\ job' = [job EXCEPT ![j] = "running"]
  /\ UNCHANGED cpu

Dispatch(j) ==
  /\ job[j] \in {"ready", "running"}
  /\ job' = [i \in Jobs |-> IF i = j THEN "running"
                            ELSE IF job[i] = "running" THEN "ready"
                            ELSE job[i]]
  /\ cpu' = j

Finish ==
  /\ cpu # Nobody
  /\ job[cpu] = "running"
  /\ job' = [job EXCEPT ![cpu] = "gone"]
  /\ UNCHANGED cpu

Kill(j) ==
  /\ job[j] = "ready"
  /\ job' = [job EXCEPT ![j] = "gone"]
  /\ UNCHANGED cpu

Next ==
  \/ \E j \in Jobs : Spawn(j) \/ Choose(j) \/ Dispatch(j) \/ Kill(j)
  \/ Finish

Spec == Init /\ [][Next]_vars
=============================================================================
