# A TLA+ model of the LostOnesWeeping operating system

The repository is a small 32-bit operating system in C: a kernel with paging,
a fixed table of processes under a round-robin timer, a FAT32-like file system
on an ATA disk, a keyboard and text screen, and a shell with its commands as
the first user program. This directory models it in TLA+ - processes, memory,
file system, shell commands, console and clock - model-checks it with TLC and
proves with TLAPS that most of what the runs check holds for every size of the
system.

Paths below are relative to `src/src/`.

## 1. Inventory

| Component | State | Operations | Modelled |
|---|---|---|---|
| Page manager, `code/memory/paging.c` | frame map, free count, directory table with used flags | create and free a directory, allocate and free a frame, check | `Paging`, `PagingApi` |
| Process manager, `code/process/process.c` | `_process_list` (state, pid, name, context), `active_process_count` | create, destroy, list | `Process` |
| Scheduler, `code/process/scheduler.c` | none of its own; `state`, CR3, the CPU | init, save context, switch | `Scheduler` |
| Interrupts and boot, `code/cpu/interrupt.c`, `kernel/kernel.c` | none | timer, faults, system calls, `kernel_setup` | `Kernel` (process part) |
| exec, kill, `usermode/` | the copied process list, a pending command | list, decide, call | `Kernel` |
| File system, `code/filesystem/fat32.c` | disk, cached allocation table, table buffer | format, mount, write, delete, read, read_directory | `Fat32` |
| Disk, `code/driver/disk.c` | the drive | read and write blocks | writes that a stop can tear between two sectors: `Fat32` |
| Shell file commands, `usermode/*.c` | current folder and a copy of its table | cd, mkdir, rm, cp, mv, write, txt, cat, find, play | `ShellFiles`, `Find` |
| Inserter, `helper/external-inserter.c` | the disk image | one write into the folder it is told | `ShellFiles` |
| Keyboard, prompt, screen, `code/driver/keyboard.c`, `code/text/framebuffer.c`, `usermode/user-shell.c` | one-character buffer, modifier keys; row, column, cells; the line and its length | key interrupts, put, newline, delete, scroll, clear; fetch, echo, erase, split | `Keyboard`, `Framebuffer`, `LineEditor`, `Console` |
| Clock, `code/driver/cmos.c`, `clock/clock.c` | two readings of the chip | read until two agree, convert, print | `Clock`, the chip as its environment |
| String library, `stdlib/string.c` | `saved_token` of `my_strtok` | strtok, compare, copy | `my_strtok` in `Console`, comparison in `Fat32` |
| Descriptor tables, port I/O, build | constant or none | | no |

How they interact. `kernel_setup` mounts the file system, creates the shell
from disk and enters it through the scheduler. From then on the kernel only
runs in handlers. All gates are interrupt gates, so a handler is never
interrupted: each is one atomic action here. User programs are interrupted
between any two instructions by the timer, which saves the context in the
table and switches. The shell is an ordinary process: `exec` and `kill` are two
system calls each, a listing and an act, with any number of timer interrupts
between. Creation of a process goes through the page manager and through
`read` of the file system. The keyboard interrupt leaves one character in a
buffer; the shell polls it with a system call, echoes with another, and keeps
the line. The clock program, a process of its own, reads the chip's registers
one by one and writes into a row of the screen that the shell does not use. The
kernel reaches the screen without its base address in one place, and so relies
on the memory of whichever process is running (`ShellSurvives`).

What is hard here, and where it is checked, is the `hazards` list of
PROJECT.json. In short: context and address space mixed up across switches;
decisions taken on an old listing; processes that returned but still have the
CPU; steps of a creation that fails half-way; tables that never shrink; the
round-robin search at the end of the table; a machine that stops between two
writes of a request; clusters lost or shared after many requests; handles that
outlive their folder; two searches of the same table that disagree; keys that
come faster than they are fetched; a screen that scrolls at one row only while
other keys move the cursor; registers of a clock that counts on while it is read.

What makes each component correct:

* page manager: no frame is mapped twice, the count says what the map says,
  a directory handed out is empty;
* process manager: a slot that can be scheduled is complete, its directory,
  frame and program are its own, the counter covers the living;
* scheduler: at most one Running process, and it is the one that executes; a
  process resumes where it stopped; each gets its turn;
* kernel: the shell survives; what happened to each address space is the life
  of one job, from spawned to gone;
* file system: allocation table and tree agree, the tree changes by one whole
  entry at a time, restarts keep it, a stop hurts only the entry at hand;
* shell: a command that fails loses nothing, the current folder stays in the
  tree, ls prints a folder as it is on the disk, find prints every match or says that it
  could not;
* console: the line a command gets is the line that was typed less what was
  erased, the screen shows it, text and clock keep apart, every key is taken;
* clock: what is shown is a time the chip had, and a reading ends.

## 2. Modules

| Module | Models | Extends |
|---|---|---|
| `Paging` | state and inner steps of the page manager | |
| `PagingApi` | every function of its header, called in any order | `Paging` |
| `Process` | process table, creation with its five outcomes, destruction | `Paging` |
| `Scheduler` | CPU, saving, the switch as it searches | `Process` |
| `Kernel` | boot, timer, faults, exit, exec and kill; properties | `Scheduler` |
| `Multitasking` | what the kernel promises: jobs that are spawned, take turns, end | |
| `FileStore` | what the file system promises: a tree changed one entry at a time | |
| `Fat32` | the file system driver and the machine it runs on; properties | |
| `Find` | the search of the tree for a name and its ring of clusters; property | `Fat32` |
| `ShellFiles` | the shell's file commands, its current folder, the inserter; properties | `Fat32` |
| `Keyboard` | the keyboard interrupt and its buffer | |
| `Framebuffer` | the screen: each function from one state of it to the next | |
| `LineEditor` | what keyboard and prompt promise: a mailbox of one key, a line | |
| `Console` | shell, keyboard, screen and clock row together, splitting the line; properties | `Keyboard`, `Framebuffer` |
| `Clock` | the clock program beside the chip; properties | |
| `MCPaging`, `MCKernel`, `MCFat32`, `MCShellFiles`, `MCConsole`, `MCClock` | instances for TLC; in `MCFat32` and `MCShellFiles` also a statement of a header that the code departs from | |
| `KernelProofs` | the page manager alone; types, `KernelInv` and what follows from it; resuming, starting once, never losing the CPU; `Kernel` implements `Multitasking` | `Kernel`, `PagingApi` |
| `FilesProofs` | theorems about the driver that hold through any crash | `Fat32` |
| `TreeProofs` | the tree on the disk until a crash | `FilesProofs` |
| `StoreProofs` | `Fat32` implements `FileStore`; reading; the first crash | `TreeProofs` |
| `ShellProofs` | the shell over the driver: types, the tree below it, rename, mv, write, the prompt, ls | `StoreProofs`, `ShellFiles` |
| `FindProofs` | find prints every match once | `TreeProofs`, `Find` |
| `ConsoleProofs` | theorems about `Console`, and that it implements `LineEditor` | `Console` |
| `ClockProofs` | theorems about `Clock` | `Clock` |

Definitions whose name describes a mistake (`SavesToEveryWaiting`,
`FatWithoutFirst`, ...) stand before the definition they vary; they are used by
no specification and show, put in its place, that a property notices.

### The process core

State keeps the names of the C code. A slot of `_process_list` is an index of
`state`, `name`, `pid`, `context`; a page directory is a function from user
pages to frames. Programs are model values: `image[f]` is the program a frame
holds. `eip` is one of a few points of a program; `MaxEip` bounds them.
`Kernel!Next` has one disjunct for each handler or piece of user code:

| Action | Code |
|---|---|
| `BootCreate`, `BootInit`, `BootSwitch` | `kernel_setup` lines 39 to 44 |
| `UserStep` | a user instruction |
| `TimerInterrupt` | `main_interrupt_handler`, IRQ 0 |
| `Fault` | exceptions 0xd and 0xe; what follows the switch there is never reached |
| `Exit`, `ExitAgain` | system call 14, from a running process and from one that already exited |
| `ShellListsToKill`, `ShellListsToExec` | system call 17 and the decision of `kill.c`, `exec.c` on what it returned |
| `ShellKills`, `ShellExecs` | system calls 16 and 15 |

Undefined behaviour is nondeterminism. System call 17 stores one byte into an
uninitialised `int total`, so the listing loop sees exactly the entries, none,
or more (`ListOutcomes`). After an exit no process is Running and the handlers
use a NULL PCB: `ExitAgain` writes into the program at address 12
(`Scribbled`), and a switch that finds nobody loads a context from address 0,
which is `phase = "lost"`, a state without a successor. The scheduler's read
one slot beyond the table finds zeros, never a Waiting state: that is what the
linked image has there. A program that exited keeps the CPU until the next
timer interrupt; it is allowed to compute, exit again or fault.

### The file system

A cluster of the disk is a tagged value: zeros, the signature, an allocation
table, a directory table, or part `n` of a text. Sizes are counted in clusters.
Each request yields the sequence of its cluster writes in the code's order
(`WriteSteps`, `DeleteSteps`, `FormatSteps`). The action of a request applies
all of them; `Crash` applies a prefix of them, the last write of which may be torn,
loses the memory and leaves the machine off. A write of one cluster is four
sectors in order (`Torn`): a table that is torn has the new entries up to some
place and the old ones from there on. Where a sector ends inside the 512 links
or 64 entries of a cluster is left open, so that an instance of few clusters
still meets every case. `initialize_filesystem_fat32` starts it again from what
the disk holds. Requests name any cluster as the parent, since the shell keeps
cluster numbers while folders come and go. A request is `padded` when the bytes
after its name are zero: `rm`, `cp`, `mv` and `write` copy the name out of an
uninitialised array, and an edited command line leaves what was erased behind
its end. `memcmp` sees these bytes, `strcmp` does not, and the name
is stored without them. Extensions count as padded, the empty one of a name
without a dot included. `read` and `read_directory` change nothing and are
operators. Following a broken chain, `delete` reaches cluster 0
and then indexes far outside of the table: `DeleteLost`, after which the
machine has to be reset. `read` on a broken chain overruns the caller's buffer;
that is a matter of the calling program and not modelled.

Text never looks like a directory entry to the driver (attribute 0x10 and user
attribute 0xAA are not characters), and the values that end a chain or mark
cluster 0 are modelled by the two numbers above the last cluster.

`Find` adds no state: nobody else writes to the disk while the shell searches
it, so `find` is a function of the tree. Its ring of clusters is modelled index
by index, the test for a full ring where the code makes it.

### The shell

`ShellFiles` adds the shell to that machine. A command is three things: what it
finds out before it changes anything (the walk along its paths, which also
loads `curr_dir`, and what it reads), its system calls in order (`todo`), and
the prompt. `WritefCalls`, `MoveCalls`, `RenameFileCalls` and the like list the
calls as the code makes them; a call that is made only after certain return
codes says so in `after`. Each call is one action; between two of them the
machine can be switched off, and `StopInCall` stops it inside one. The shell
then starts again in the root. Reading needs no step of its own, since nobody
else writes to the disk.

Undefined values are choices: `renaming` in `mv` when one name has an extension
and the other has none, and whether an `int` into which a system call stores
one byte was clean (`clean`). What follows the dot in `..` is one too.

When the current folder itself was deleted the prompt climbs from a cluster of
zeros to block 0 and on to whatever number stands there: `mode = "astray"`.

`write` to a name without a dot makes a file without extension, in any folder: its
buffer is not empty, so the driver takes it for no folder (fat32.c:266). The
inserter makes such files too, in the cluster it is told (`InsertParents`).

Inputs left out: names with several dots, `..` as the name to be removed, moved
or copied, arguments that are missing, paths of more than ten components.

### The console

State keeps the names of the C code: `keyboard_state`, the screen with `row`,
`col` and its cells, `prompt_val` and `prompt_size`; `mode` is the place in
`main` and `get_prompt`, `char` the character just fetched.

| Action | Code |
|---|---|
| `KeyboardInterrupt`, `PressUp`, `PressDown` | `keyboard_isr` |
| `Activate` | system call 7, the first of the shell |
| `PrintPrompt` | `print_prompt` |
| `GetPrompt` | system call 10: fetch and empty the buffer |
| `Erase`, `Echo` | the rest of the loop of `get_prompt`, with the system call 12 or 5 it makes |
| `RunPrompt` | `run_prompt` up to its command, with the `clear_prompt` that follows |
| `CommandPrints` | what commands do to the screen; `play` clears it and prints on |
| `CommandClears` | `clear`, after which the prompt comes |
| `ClockWrites` | system call 8, by the clock program |

Handlers run behind interrupt gates, so each is one step, and between any two
system calls of the shell there may be any number of them. What the shell
computes between two system calls is one step with one of them, since nobody
else sees it. Cells are told apart by who wrote them: cleared, erased, typed,
printed, clock. One cell stands for the prompt. Keys are of five kinds: a
letter, the space bar (which the shifted map lacks), backspace, enter and a key
without a character, such as the arrows to the left and right, which empties
the buffer. The case of letters is left out, and so are alt and ctrl, which nobody
reads.

`my_strtok` is an operator on the bytes of the line: the line keeps erased
characters behind its end, and `TokensAreTheWords` says that no command is
given them. `LineEditor` is the abstract view, a mailbox and a line; `Console`
refines it (`LineIsKept`). Keys may be overwritten in the mailbox before they
are fetched: that is the code's choice, and part of the abstract view.

### The clock

The chip is the environment: it counts, and while its update flag is up each
register holds its old or its new value. `ReadSecond`, `ReadMinute` and
`ReadHour` are the three reads of a pass of `read_rtc`; an update may begin
and end between any two of them, because the scheduler can hold the program up
for any time. `Convert` is the conversion from BCD and from the twelve-hour
mark, for each of the four formats of register B, and `print_time` shows hour,
minute and second one after the other.

## 3. Runs

All runs are small instances; the counts are distinct states.

| Run | Shows | States |
|---|---|---|
| `MCPaging` | page manager functions in any order: frames apart, count never too low, unused directories empty | 1 571 |
| `MCKernelRun` | no program returns: each resumes where it stopped, exec never doubles a program, the CPU is never lost; every Waiting process runs again, the last slot being unused | 25 379 |
| `MCKernelExit` | programs return, fault, fail to load, are killed late; every outcome of the uninitialised total: table invariants, `KernelInv`, and `Kernel` implements `Multitasking` | 564 763 |
| `MCFat32` | padded requests with restarts: the tree leads to the root, read gives what was written, `Fat32` implements `FileStore`, find prints every match | 43 599 |
| `MCFat32Crash` | requests padded or not, with one stop inside a format, write or delete, torn anywhere, then anything: one owner for each cluster and a cache that is the disk's, one entry hurt, a half-formatted disk is never used | 59 325 |
| `MCShellFiles` | all file commands call by call, switched off or stopped anywhere: a moved file is always whole somewhere, a rename loses no other name, write finds room again, the prompt finds the root, ls prints an up-to-date table | 1 294 515 |
| `MCConsole` | keys, clock, commands and scrolling between any two system calls: the shell gets the typed line, the screen shows it, text stays above the clock, words are words, every key is taken | 816 050 |
| `MCClock` | readings around the end of every hour, in four formats: what is shown is a time the chip had, a reading ends | 131 780 |

Bounds. Three or four slots are enough for the switch to have a first, a
middle and a last slot, and one more program than slots besides the shell makes
creation fail for want of a slot, of memory and of the file. `MaxEip` is 1 where
resuming matters and 0 elsewhere. `COUNTER_SIZE` stands for 2^32: as long as
the counter never goes below zero no value below it behaves differently, and no
run reaches it. Frames are never given back by the kernel, so five of them
bound the creations of a run without further guards. `FREE_COUNT_BOUND` in
`PagingApi` bounds the free count, which frees of unmapped pages raise without
end. On the disk, three clusters besides the reserved ones allow nested
folders, two-cluster files, reuse in another order and a full disk; two or three
entries besides the reserved ones allow a full table, and, with the three names
of `MCFat32`, a folder with more subfolders than find's ring of two. The crash
runs have `CrashBound` 1:
one stop is where the properties speak; what follows it is unbounded. The shell
has one name: with two extensions, nesting, the names `..` and the empty one
that `mv` can produce, files and folders still meet, hide and replace each
other, while a second name takes the run into many millions of states. One
folder in front of a name lets a command act above, beside and below the
current folder. The inserter writes into the root or into the cluster behind it, where
the first folder is made (`InsertParents`).

The console has a screen of three columns, two rows of text, the clock's row and
rows below it, and lines of up to three keys: a line with its prompt is
as long as the text on the screen (which `ConsoleAssumption` asks of every
instance, and the shipped sizes satisfy by far: 512 bytes and 20 rows of 80),
and so are scrolling while typing and erasure over the start of a row. At most one
arrow key is pressed (`ArrowBound`), while no modifier is active and no character
waits; afterwards only keys come that no modifier changes, and commands clear the
screen (`ArrowsFree` is FALSE; the theorems hold for TRUE as well). One is enough to
lose the text's distance from the clock, which is what the properties are
conditioned on. Lines of up to three keys have one word at most that something
follows: where a second word ends is left to `CommandsGetTheirWords`, which holds for
every length. The clock looks at the two seconds on either side of each hour's
end, midnight and noon included, and at four where tens change (`Seconds`); at
most two updates come while the time is read and shown (`UpdatesPerCall`). The chip
updates once a second and a reading takes microseconds; two allow both passes
of a reading to be hit.

Deadlock is checked except where the system can stop: `MCKernelExit` reaches
`phase = "lost"`, and the page manager, whose count is bounded, can reach a
state with nothing left to do.

Fairness. `EveryProcessGetsItsTurn` needs weak fairness of `Boot`
(straight-line code with interrupts off) and of `TimerInterrupt` (the PIT is
programmed to fire for ever, and interrupts are enabled in user code).
`EveryKeyIsTaken` needs weak fairness of the steps of the shell, that is, that
the shell gets its turn, which is what `MCKernelRun` shows under the condition
stated there, and that each command comes to an end; none is assumed of keys or
of the clock. `EveryReadEnds` needs it of the clock program, and of the end of an
update, which takes the chip two milliseconds. That updates stay apart
is `UpdatesPerCall`: a program that is held up for a second in each pass could
read for ever. No fairness is assumed of user programs in `Kernel` or of the
file system.

### Where the code and its documentation disagree

Each of these runs checks one statement of the repository and TLC refutes it.

| Run | Statement | What happens |
|---|---|---|
| `MCKernelStarve` | all processes get their turn | from the last slot the search skips slot 0 |
| `MCKernelAlone` | with no other process the shell is used | a NULL PCB is, and the CPU is lost |
| `MCFat32Delete` | delete removes only one entry | after a stop inside write it can take the boot sector |
| `MCShellRename` | mv renames the file | when the new name is taken the file is deleted |

Others are plain from the models and have no run of their own: `paging_free_user_page_frame`
marks another frame free than the one the page mapped (paging.c:81);
`process_destroy` releases no directory (process.c:253, header/process/process.h:162);
the frames reserved for the kernel are handed out (paging.c:62, header/process/process.h:16);
`exit` does not decrement `active_process_count` (interrupt.c:143);
`scheduler_init` makes slot 0 Running when nothing is Waiting (scheduler.c:44);
entry 0 of a folder refers to its parent, not to itself (fat32.c:38, fat32.h:163);
`read` answers 2 and -1 where fat32.h:235 says 3 and 2, and does not find a file
without extension that is named like its folder (fat32.c:232);
`read_directory` compares the extension (fat32.c:191, fat32.h:223); a name whose
padding is not zero can be written twice (fat32.c:286, fat32.h:243); the clock
shows hours from 8 to 19, for seven are added after the conversion to twelve hours
(clock.c:63); mv loses a file without extension that is named like the folder it is
in (mv.c:188, fat32.c:187, fat32.c:439; see `MoveKeepsTheFile` below); and
framebuffer.h:14 speaks of a screen of 80 by 25 where
`BUFFER_HEIGHT` is 100.

## 4. Proofs

Each theorem holds for every value of the constants: any number of slots, frames,
clusters, table entries, columns and rows, any programs, names and texts. What
each assumes beyond the `ASSUME`s of its module, which the shipped sizes satisfy,
is in the third column of the table.

| Theorem | Shows | Assumes |
|---|---|---|
| `KernelProofs!TypeCorrect` | `TypeOK` | |
| `KernelProofs!KernelInvariant` | `KernelInv` | `KernelBoots` |
| its corollaries `CpuOwnership`, `MemoryIsolation`, `FreeCountCorrect`, `CreationIsWhole`, `CounterCovers`, `LossIsLast` | `RunningOwnsTheCpu`, `ProcessesKeepTheirMemory`, `FreeCountExact`, `CreateNeverLeavesAHalf`, `CountCoversLive`, `LostOnlyBesideTheShell` | `KernelBoots` |
| `KernelProofs!ShellIsKept` | `ShellSurvives` | `KernelBoots` |
| `KernelProofs!KernelRunsJobs` | `JobsAreKept`: `Kernel` implements `Multitasking` | `KernelBoots` |
| `KernelProofs!Resumption` | `ResumesWhereItStopped` | `KernelBoots` |
| `KernelProofs!ExecStartsOnce` | `OneProcessPerProgram` | `KernelBoots`, `NoListIsShort` |
| `KernelProofs!CpuIsKept` | `NeverLost` | `KernelBoots`, `NoListIsShort`, `NothingExits` |
| `KernelProofs!PagingTypes`, `AddressSpacesApart`, `CountIsEnough`, `FreshDirectories` | `PagingTypeOK`, `NoFrameMappedTwice`, `CountNeverTooLow`, `UnusedDirectoriesAreEmpty` | |
| `FilesProofs!DriverIsSound`, `DriverTypes`, `CacheAgrees` | `DriverInv`; `TypeOK`; the cached table is the disk's | |
| `FilesProofs!HalfFormatted` | `HalfFormattedIsForGood` | |
| `TreeProofs!TreeStaysWhole` | until a stop inside a request there is a whole tree on the disk | |
| `TreeProofs!OwnersAreKept`, `RootedTree` | `EveryClusterHasOneOwner`, `TreeIsRooted` | |
| `StoreProofs!DriverIsAStore` | `StoreIsKept`: `Fat32` implements `FileStore` | `NoCrash`, `AllNamesPadded` |
| `StoreProofs!WrittenIsRead` | `ReadGivesTheStoredData` until a stop inside a request | `AllNamesPadded` |
| `StoreProofs!FirstCrashIsLocal` | `CrashHurtsOneEntry` | `OneCrash` |
| `ShellProofs!ShellTypes` | `ShellTypeOK` | |
| `ShellProofs!ShellKeepsOwners` | `EveryClusterHasOneOwner`, `TreeIsRooted` under the shell | |
| `ShellProofs!RenameTakesOneName` | `RenameLosesOneName` | |
| `ShellProofs!MoveIsSafe` | `MoveKeepsTheFile` | |
| `ShellProofs!WriteHasRoom` | `WriteFindsRoomAgain` | `NoCrash`, `AllNamesPadded` |
| `ShellProofs!PromptFindsTheRoot`, `ListingIsUpToDate` | `AstrayOnlyWithoutFolder`, `ListingIsOfSomeFolder`, until a stop inside a request | |
| `FindProofs!FindIsComplete` | `FindShowsEveryMatch` | |
| `ConsoleProofs!ConsoleTypes`, `TextAboveTheClock`, `EchoFollowsTheLine` | `ConsoleTypeOK`, `TextStaysAboveTheClock`, `EchoIsExact` | |
| `ConsoleProofs!TypedLineIsKept` | `LineIsKept`: `Console` implements `LineEditor` | |
| `ConsoleProofs!CommandsGetTheirWords` | `TokensAreTheWords` | |
| `ClockProofs!ClockTypes` | `ClockTypeOK` | |
| `ClockProofs!ShownTimeIsReal` | `ShownTimeWasReal` | `UpdatesPerCall < 60` |

`KernelBoots` says that the shell's file can be loaded, that there is memory for
it, and that there are no fewer page directories than frames (32 and 32 as
shipped). Without the last of these, creation can run out of directories half-way
(`CreateNoDirectory` in `Process`) and leave a slot with an old context.
`NoListIsShort` leaves out the outcome of system call 17 in which the
uninitialised total is negative and the loop over the list sees nothing: then
exec starts a program twice. `NothingExits` is the condition under which
`NeverLost` is true at all, see `MCKernelAlone`. With sixty updates in one call
both passes of `read_rtc` can see the same second of two minutes.

`MoveKeepsTheFile` has an exception, `NamedLikeItsFolder`, without which it is false.
`read` and `read_directory` search from entry 0, which holds the folder's own name,
and `delete` searches from entry 2. A file without extension that is called like
the folder it is in is therefore taken for a folder by `mv` (mv.c:188): after
`write a x` in folder `a`, `mv a ../b` makes an empty folder `a` in `b` and then
deletes the file. With the one name of `MCShellFiles` the copy is always refused, since
the folder itself stands where it would go, so there the property holds without its
exception; that nothing else is lost with more names is what the theorem says.

`NoCrash` and `AllNamesPadded` say that no request is interrupted and that
no name is followed by other bytes than zeros; `OneCrash` that at most one is.
The theorems on the prompt and ls end at the first stop inside a request, for the half
of an entry that it leaves can lead into a cluster that belongs to nobody, and a file
can be written over the table of a folder. `AstrayOnlyWithoutFolder` itself says no
more; `ListingIsOfSomeFolder` is checked in `MCShellFiles` beyond one stop, as long as
the root has its table.

**The process core.** None of the properties is inductive alone. `KernelInv` adds
what they rest on: as many directories are handed out as frames are taken, and
the count agrees (`CountsAgree`); used directories map different frames
(`DirectoriesMapApart`); a pid is 0 or the slot's index, and a living slot's
directory is used by no other slot and holds the slot's program
(`SlotsHoldTheirProcess`); how far boot has come (`BootOrder`). The counter
needs `CountCoversLive` over living slots and those which still have a pid, since
a slot that exited can be destroyed by its stale pid, once. The argument has one
lemma for the effect of each of create, destroy and switch on the tables
(`CreateKeeps`, `DestroyKeeps`, `SwitchKeeps`), one lemma per action, and
`StepInv`, which puts them together over `Next`. Four more inductions have
`KernelInv` as their hypothesis: no step maps another frame where a directory in
use has one (`ShellIsKept`, and with it that the kernel reads the screen through
frame 0); the point in the table, or in the CPU for the Running process, is the
point its program has reached (`ResumeInv`); only slot 0 holds the shell's
image, and what it is about to execute is listed nowhere (`SingleInv`), which
makes the decision on the old list right; and someone is Running whenever user
code runs (`RunningInv`). For the refinement, `StagesFollow`
reads the stage of a job off the slot that holds its directory, and each action
is a step of `Multitasking` or leaves all stages alone.

**The page manager** called in any order needs only that a mapped frame is
taken (`MappedIsTaken`) beside the properties themselves.

**The driver.** `DriverInv` holds through any number of crashes, whole or torn:
what each cluster may hold (`MayHold`), that the links of the reserved clusters
stay and nothing leads to one, that a disk without a root holds nothing else, and
that memory holds what it should. It has one lemma per write of a request, and
one for a write torn in the middle. All of it is said of any request
(`AnyRequest`), so that it holds below the shell as well.

**The tree.** `TreeInv` is stated of a disk as a value, part by part: each entry's
chain ends, has its length, and holds one text or one folder that leads back to
where it is listed; no two entries share a cluster and none in use belongs to
nobody; each folder is listed and reached from the root; entries not used are
blank. `WriteGrows` and `DeleteShrinks` say what a request's writes add up to:
one entry more, on clusters that were free (`Grown`), or one less, with its
clusters back (`Shrunk`). `GrownTree` and `ShrunkTree` then keep `TreeInv`, part
by part, without looking at the driver again. "Reached" is said without recursion:
every set that holds the root and that no entry leads out of holds all folders.
That this is what the walk of `FolderClusters` finds is a counting argument:
each level of the walk adds a folder until one adds none, and that one is closed
(`LastLevelIsClosed`). Chains are treated in the same way: what is said of
every place of a walk is shown by its least counterexample (`UpTo`), so that no
induction theorem of the library is needed.

**The store.** `StoreOnDisk` reads the disk as `FileStore` sees it. `NamesInv`, that
no folder lists a name twice, is a further induction over write: it needs
`AllNamesPadded`, since with other bytes after the zero `memcmp` finds no equal name
and write creates a second entry. (The shell's cp, mv and write copy names into
buffers they have not cleared.) What is one entry more for `TreeInv` is then `Create` for
`FileStore` (`GrownCreates`), one less is `Delete` (`ShrunkStore`), and a restart
reads the same disk. `NoCrash` is part of the promise: `FileStore` has no stop inside
a request. Reading is then a matter of the search: it starts at entry 0, and below
that finds one entry of the name only (`OneAnswers`).

**The first crash.** `StopIsPartly` says what a stop leaves of each cluster that a
request writes: table and map entries that are each the old or the new one.
`Scratched` collects what that means for a write or a delete that stopped: entry n
is there or not, its clusters list nothing and belong to nobody else, all other
places are as they were. A walk from the root over such a disk still reaches every
folder of the old tree, or the old tree would have had a closed set without it
(`OneEntryHurt`). The tree is not whole afterwards (clusters can be lost, or free
while an entry leads to them), so `OneCrash` is needed: after a second stop
the file that took such a cluster is hurt as well.

**The shell.** `CommandBegins` collects what the many ways of typing a command
come to: a folder is entered, an entry made, a file replaced, an entry removed,
moved or renamed, each with the calls it then makes. From it follow that every step
of the shell is a step of the driver, or none (`ShellMoves`), so that the tree stays
whole below it, and what can be left to do at any time (`PendingInv`).

* rename: a call of it deletes what it was asked to rename or nothing, and
  `WhatGoes` says what any call can take from the tree.
* mv: `MoveInv` says that before the copy is made, what `delete` would find
  (`Doomed`) is the file that was read, and afterwards that it is in the other
  folder as well (`CopyAt`), in another place, since a name that is listed already is
  refused. Between the two calls nobody changes the disk, but the machine may stop in
  either. A file without extension is found as a folder only by entry 0 of its own
  folder, and that is the exception (`Shadowed`).
* write: no name is listed twice (`OnceInv`), so after the delete there is none of
  it; its entry and its clusters are free again (`RoomOn`), and one is enough. With or
  without an extension the argument is the same: what delete takes is one entry, be it
  a file or an empty folder.
* the prompt: a folder that the walk from the root finds at its n-th level comes
  back to the root along `..` in n steps, and the walk finds every folder
  (`FoldersClimb`); from a cluster that is none, which reads as zeros, the climb
  comes to block 0 and stays there (`OnlyFoldersClimb`).
* ls: outside the root the prompt has just loaded the table. In the root it loads
  what bears the name in the table it has, so `ListingInv` follows each command from
  the walk on: its last call loads the root, or the root was loaded before
  (`RootLoaded`), or what is left to do leaves the tables of folders alone, but for
  write, which may delete the empty folder that was loaded and put a file in its place
  (`Lasting`). Only such a file keeps the prompt from loading a folder
  (`FileIsInTheWay`).

**The search.** The ring is taken by what is in it (`Waiting`): enqueue adds, dequeue
takes away, and enqueue without room leaves the new value alone (`Enqueued`,
`Dequeued`). `SearchInv` then says of a search in the middle of a folder that what
waits is known and was never taken off, that it is all that is left of what is
known unless the ring ran over, and that each place of the name was printed once. No
folder is known before its entry is seen, for no other entry leads to it
(`NotKnownYet`). There are more rounds than folders, so the last one finds the search
stopped (`FindEnds`), and if nothing waits then what was searched is closed and
holds the root: that is every folder (`AllSearched`).

**The console.** The cursor stays on the screen because of `TypeInv`, which knows
that the column is below the width between any two calls. `Echoed` counts cells
back from the cursor; the lemmas on put, newline, scroll and erase say what each
does to that count, across row ends. The words of `my_strtok` are compared with
`FirstWord` and `Rest` by the place of the first character that is not, and then
is, a space.

**The clock.** `RealInv` follows a reading register by register: for each place
in `read_rtc`, there is a time since the reading began which the registers read so
far show. The second passes are where two equal readings are needed.

Only model-checked is liveness (`EveryProcessGetsItsTurn`, `EveryKeyIsTaken`,
`EveryReadEnds`), which is out of the prover's reach. Every other property of a
passing run is stated by a theorem, under the assumptions of the table; what TLC
checks beyond these, on its small instances, is ls and
`WriteFindsRoomAgain` in runs with a stop inside a request, as far as the properties
speak of them.

## 5. Not modelled

* General registers and stacks (a context is `eip` and the directory), and so the
  depth of the kernel stack, which `write` fills with an array as long as the file,
  and the prompt's array of ten folders.
* Errors and status bits of the drive: the code waits for ready bits and tests
  no error.
* System call 11, a string in a given place, which no program makes.
* What cat and play print, and the sounds of play.
* The case of letters, alt and ctrl.
* Descriptor tables and the PIC, which only matter in that gates mask interrupts
  and the timer is acknowledged before the switch.

## 6. What could follow

* A second stop: what a start after a stop inside a request could repair, and
  what it leaves behind, is only said of the first (`OneCrash`).
* The prompt after a stop inside a request, and its array of ten folders, which
  would need the depth of the tree as a quantity.
* General registers and stacks in `Scheduler`, for the assembly of the context
  switch.
