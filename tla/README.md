# Verification of the RISC-V 64-bit embedded OS

TLA+ models of the kernel in `src/`, TLC runs that check them on small
instances, and TLAPS proofs that hold for every value of the constants.
`PROJECT.json` lists the components, the runs, the source lines behind every
definition, the findings, the hazards and the theorems.

## The system

A single-CPU kernel in supervisor mode, in C and assembly.

| part | files | state | operations | what is hard about it |
|---|---|---|---|---|
| scheduler | `kernel/process/scheduler.c` | four ring buffers (multi-level feedback queue), a sorted real-time array, the current and the idle process | `sched_add`, `sched_yield`, `context_switch`, `sched_tick`, `sched_set_priority`, `sched_set_policy`, `scheduler` | code after `swtch` runs when the thread is resumed; a tick switches threads inside the trap; queues drop silently when full; fields change while queued |
| process table | `kernel/process/process.c` | 64 slots, the tick counter | `process_alloc`, `process_free` | freeing looks at no queue |
| trap entry, switch | `bootloader/boot.S`, `kernel/trap/trap.c`, `kernel/process/swtch.S` | the registers, `sepc`, `sscratch`, `sstatus.SIE`, saved contexts | `trap_entry`, `trap_handler`, `swtch` | trap registers are not part of a saved context; a trap can end on another thread's stack |
| page allocator | `kernel/mm/mm.c` | a free list threaded through the free pages, a counter | `mm_init`, `alloc_page`, `free_page` | links live in memory that owners overwrite; no check of what is freed |
| heap | `kernel/mm/mm.c` | a bump pointer | `kmalloc`, `kfree` (does nothing) | nothing is ever given back; address arithmetic |
| virtual memory | `kernel/mm/vm.c` | SV39 page tables in allocated pages | `walk`, `mappages`, `unmappages`, `walkaddr`, `vm_free` | failure in the middle of a mapping; ownership of table pages |
| VFS, testdev | `kernel/fs/vfs.c`, `drivers/testdev/testdev.c` | device registry, open files, inodes; buffer and length | register, open, close, read, write, seek | reference counts, offsets shared through one buffer |
| SimpleFS | `kernel/fs/simplefs.c` | superblock, inode table | format, create, delete, read, write | truncated names, 32-bit sums, counters across a format |
| ELF loader, system calls | `kernel/process/elf.c`, `kernel/syscall/syscall.c` | none of their own | `elf_load`, `syscall_handler` | called by nobody today |
| boot and shell | `kernel/main.c`, `kvminit` and `kvminithart` of `kernel/mm/vm.c` | the kernel's page table, `satp`, the line that is typed | the boot sequence, `test_vm`, the line editor, the commands | devices reached before paging and not after; an array that keeps old lines |
| printf, UART, PLIC, RTC | `kernel/printf.c`, `drivers/` | device registers | console input and output | - |

How they interact: `trap_entry` calls `trap_handler`, which calls `sched_tick`
on a timer interrupt, which may call `sched_yield` and so leave the trap on
another thread's stack.  `vm.c` takes its tables from the page allocator,
`vfs.c` and `simplefs.c` take memory from the heap, the VFS calls the testdev
driver through its operations table, and from `kvminithart` on every access of
the kernel goes through the page table `kvminit` made.  Nothing in `src/` arms the timer, starts
`scheduler()` or calls `syscall_handler`; the models take timer interrupts and
calls of the operations as events of the environment.

## Modules

| module | models |
|---|---|
| `Queues` | vocabulary on sequences (membership, distinctness, insertion) |
| `Scheduler` | scheduler, process table, and the trap and switch state that decides where a thread continues |
| `MCScheduler` | time slices for the small instances of `Scheduler` |
| `Dispatch` | abstract: one process runs, others are ready, the CPU passes on; refined by `Scheduler` |
| `BoundedFifo` | abstract: a bounded queue that drops what does not fit |
| `ReadyRing` | the ring buffer `mlfq_t`; refines `BoundedFifo` |
| `PreemptedAdd` | `mlfq_enqueue` statement by statement, interrupted by a tick |
| `PagePool` | abstract: what the page allocator promises |
| `PageAlloc` | the free list of `mm.c`; refines `PagePool` |
| `TrapFrame` | the registers across traps and switches: `trap_entry`, `trap_handler`, `swtch` |
| `PageTable` | the SV39 tables of `vm.c` over the allocator as `PagePool` describes it |
| `Kernel`, `MCKernel` | boot and shell as users of `PageTable`, and the small instance of both |
| `Names` | names in fixed arrays: what is stored of one, and what it is compared with |
| `SimpleFs` | the inode table and counters of `simplefs.c` |
| `SharedFile` | abstract: handles on one shared content |
| `Vfs`, `MCVfs` | registry and open files of `vfs.c`, the testdev driver, and the heap; refines `SharedFile`; its small instance |
| `SchedulerProofs`, `ReadyRingProofs`, `PageAllocProofs`, `TrapFrameProofs`, `PageTableProofs`, `KernelProofs`, `SimpleFsProofs`, `VfsProofs` | theorems and proofs |

### Scheduler

One variable per field of `process_t` that the scheduler reads, as a function
on the process slots and the idle process; `ready_queues` and `rt_queue` as
sequences (`ReadyRing` justifies the sequence for the ring); `current`; the
tick counter modulo the aging period; `sie` for `sstatus.SIE`; `trapped` for
the thread whose `pc` and `sp` are in `sepc` and `sscratch`; `held` for slots
allocated and not yet added.

* `sched_yield` is one action: `sched_next` dequeues and refills the slice,
  `context_switch` demotes and re-queues the old process, and the new process
  continues where it was suspended.  If that was inside `sched_tick`
  (`context[p] = "tick"`), the rest of `sched_tick`, the aging code, runs now,
  and the `sret` of `trap_entry` sets `SIE` again.
* `sched_tick` is three actions: no current process, the process continues,
  the process is preempted.
* Calls come from the boot thread or from the running process.  Callers
  configure and free only processes they hold (as `test_scheduler` does).
* Operations are atomic: the timer is taken between calls.  `PreemptedAdd`
  shows what happens otherwise.
* Process code is external and does not touch `sstatus`.  Nothing in `src/`
  fills in the context of a process, not even of the idle process, whose first
  dispatch therefore loads `ra = 0`.  `InitialContext = "zero"` is that case:
  the model stops at the dispatch (`Wild`).  The runs use `"entry"`, which has
  those behaviours up to the dispatch and goes on; the proofs cover both.
* Left out: pid, name, affinity, statistics, `satp`, and the fields nobody
  reads (`dynamic_priority`, `cpu_id`).  The clamp of the level in `sched_add`
  never acts (`TypeOK`).

`Dispatch` is what remains of this without queues, levels, slices and ticks: a
runner, the set of ready processes, those that are real-time processes, and those that
were added and are never chosen again.  A switch takes a real-time process if
one was ready before it, otherwise any that was ready, otherwise the idle
process, and puts the old process back; only a real-time one may be dropped.
The refinement (`ImplementsDispatch`) reads `ready` off the five queues.

### ReadyRing, PreemptedAdd

`ReadyRing` has the array, `head`, `tail` and `size`, and refines `BoundedFifo`
under the mapping that reads the window as a sequence.  `PreemptedAdd` splits
the three stores of `mlfq_enqueue` and lets a tick come between them; it
follows one level (3), from which there is no demotion.

### PageAlloc

The free list with its links in the first word of each page; the owner of a
page may store any word there (`Store`, external), page addresses included.
Callers free pages they own.  The refinement mapping hides the links: the
contents of a page are visible to the pool only while it is owned.

### PageTable

`table` holds the entries of the pages used as tables; an entry is invalid,
points to a table, or is a leaf (one of R, W, X is set, as all callers pass
one).  A call of `mappages` or `unmappages` is the record `call`, and every
level of every walk is a step, so that a failure of either allocation of a walk
is a state of its own; no other call starts meanwhile.  Addresses are bytes
modulo `WORD`.  `panic` is final.  `vm_free` is one step: the recursion visits
the root, its subtables and theirs.  `space` is no state of the code: it
records what callers mapped, for `Translates` and `MapReturns` to compare with.

### Kernel

Composes `PageTable` with its user.  `main` is the place of `kernel_main`:
`kvminit` makes the kernel's table, or panics without a page for it, and maps
one region after another, each call of `mappages` walking step by step as in `PageTable`; `kvminithart` writes
`satp`; `test_vm` makes, maps and frees a table; then the shell reads lines.
The line array starts with any contents (it is not initialized); a printable
character, backspace and the end of the line are an action each; a command is
compared with the array as the parser does, character by character and with the
terminator.  `line` is no state of the code: it records what was typed and not
taken back, for `LineIsTyped` to compare with.  `reboot` is a store through
`satp`; all other commands return to the prompt.  In the behaviours in which
`main` is `"clients"` arbitrary callers use the page tables instead, so that one
instance serves `PageTable` and `Kernel`.

### TrapFrame

`Scheduler` decides which thread runs; `TrapFrame` lets any thread run and
follows the registers, by class: `ra`, `sp`, `s` (callee-saved) and `t` (the
temporaries and arguments).  A thread's own code computes anything.  An
interrupt stores `pc`, clears `SIE`, and runs C code, which keeps `ra` and `s`
in a frame below `sp` and leaves anything in the other registers; in the middle
of it `sched_tick` may call `swtch`, and the thread switched to may be one that
is in its own code, or one that is itself in the middle of a trap.  `left` is
no state of the machine: it records the registers as a thread's own code left
them.  A process starts with an entry point and a stack of its own, or with
zeros, which is what `src/` leaves.

### SimpleFs

`inodes` and `superblock` are the tables of the code; `covered` and `reached`
are no state of the code: they record how far callers wrote, for `CountsAgree`
to compare with.  A name is a head, the part that fits its array, and a tail that
is cut off.  Sums are modulo `WORD`.  Calls that return an error change nothing
and are no steps.  Callers format while there are no files, as `kernel_main`
does.

There is no file content in the model because there is none in the code:
`sfs_read` and `sfs_write` check their arguments, keep the size and return a
count, and copy nothing (`simplefs.c:155-158`, `173-181`: "Full
implementation would read from actual blocks").  `docs/NEW_FEATURES.md:144` lists
"Support create, delete, read, write operations" and
`IMPLEMENTATION_SUMMARY.md:88` "create, delete, read, write"; a caller of `sfs_read` gets the count of
what was written and an untouched buffer.  `CountsAgree` is about these counts
and nothing else.

Two limits of the code are visible in the properties.  `UniqueNames` excepts
names that fill the field: a longer name is stored cut off, is not found again,
and can be created twice.  `docs/NEW_FEATURES.md:163` gives "Maximum filename
length: 28 characters"; 27 are stored.  `CountsAgree` is for requests that do not
wrap and that an `int` can return.

### Vfs

`inode` and `file` hold the objects at their heap addresses, a file from open to
close, an inode for ever with its reference count.  `vfs_open` has four
outcomes, an action each: opened, no device or no room for the file, no room
for the inode (the file's bytes are lost), refused by the driver.  testdev
accepts every open; a driver `"other"`, external, may refuse.  `OtherAlloc` is
the rest of the kernel calling `kmalloc`.  `kfree` does nothing, so a leaked and
a freed object differ only in the reference count, which `HandlesSound` follows.
Callers close a file once.  `SkipSlash` is what the first lines of `vfs_open` do
to a path.

A seek goes to every offset `testdev_seek` accepts, up to the size of the
buffer, which may be behind the data (nobody in `src/` seeks but to 0).  There
the unsigned difference in `testdev_read` wraps and the read is not cut short:
inside the buffer it returns the zeros there, which `SharedFile` describes too;
one that would leave the buffer is undefined, sets `outside` and ends the
behaviour (`ReadOutside`).  `PassedBySeek` says that a seek is the only way
behind the data, and that a read leaves the buffer from there only.


## Runs

| run | result | shows |
|---|---|---|
| `SchedSafety` | passes | Three processes of all policies through every operation: none is lost, queued twice or overtaken within its queue, each is in the queue of its policy and level, one runs, the CPU passes on as Dispatch promises, and a thread suspended inside the timer trap finds its sepc and sscratch intact. Checks `TypeOK`, `QueuesDistinct`, `QueuedIsReady`, `Routed`, `NoProcessLost`, `OneRunning`, `RtSorted`, `RunnerHasSlice`, `TrapStateIntact`, `NoOvertaking`, `TakesTurns`, `LevelSteps`, `ImplementsDispatch`. |
| `SchedPreemption` | passes | With the timer as the only thing that is sure to happen, a normal or SCHED_RR process that runs with interrupts on loses the CPU to one that waits, yielding or not. Checks `TimerPreempts`. |
| `SchedStarvation` | violated | A demoted process can wait for ever: it was suspended inside the timer trap, so ticks, and aging with them, are off until it runs. Checks `AgingPreventsStarvation`. |
| `SchedIdle` | violated | The only process is preempted in favour of the idle process: the next process is chosen before the old one is put back. Checks `IdleOnlyWhenNoneReady`. |
| `PreemptedAdd` | violated | A timer interrupt between two statements of mlfq_enqueue loses the process being added. Checks `NoRaceOnOneCpu`. |
| `ReadyRing` | passes | The ring buffer of a queue level, wherever its window lies, is a bounded FIFO queue. Checks `TypeOK`, `WindowSound`, `ImplementsFifo`. |
| `PageAlloc` | passes | The free list threads exactly the unowned pages whatever owners store in theirs, and the allocator implements the abstract pool. Checks `TypeOK`, `FreeListSound`, `ImplementsPool`. |
| `PageTable` | passes | Address spaces in six pages, made by arbitrary callers and by the boot: the tables stay trees of depth three without leak or sharing and translate exactly what was mapped, mappages maps the whole range or fails for want of memory or address space, the kernel runs on an identity map of its regions, and the shell obeys the line that was typed. Checks `TypeOK`, `TreeSound`, `Translates`, `KernelMap`, `LineIsTyped`, `MapReturns`. |
| `SimpleFs` | passes | Files with names that fit, fill and exceed the name field: the counters agree with the table, names are unique but for those cut off, and the counts that reads return agree with those of the writes although sums of other writes wrap (neither moves data). Checks `TypeOK`, `TableSound`, `UniqueNames`, `CountsAgree`. |
| `Vfs` | passes | Files opened on two drivers over a heap that runs out: failed and refused opens leave no inode counted, no two objects overlap, no offset passes the data but by a seek there and no read leaves the buffer but from behind the data, later registrations change no lookup, and the files of testdev are handles on one shared content. Checks `TypeOK`, `HandlesSound`, `PassedBySeek`, `LookupStable`, `ImplementsSharedFile`. |
| `TrapRegisters` | violated | An interrupt leaves the interrupted thread with other values in ra and in the temporary registers than it had. Checks `ContextRestored`. |
| `Reboot` | violated | The reboot command stores to a device no region of the kernel's page table covers: the kernel panics and the emulation goes on. Checks `RebootExits`. |

Bounds.  `Scheduler`: three slots (a queue holds one, two or all processes, a
ring is full, two processes wait while one runs), six priorities for 140 (two
real-time, one per level), slices of one or two ticks and an aging period of
five, so that a process is demoted to the last level, is held there, and is
boosted, in the same behaviour.  The liveness runs use a period of three.
`ReadyRing`: four slots, three processes, so that the window wraps and the ring
overflows.  `PageAlloc`: four pages.
`PageTable`, `Kernel`: six pages, tables of four entries and pages of two bytes, with
ranges across the end of a last-level table, of a middle table, of the address
space and of the word; the pages are interchangeable and declared symmetric.
Four regions, two of which touch, fill a last-level table; the line array has
five places, so that lines fill it and shorter ones follow longer ones; the
commands are prefixes of each other.  The boot and `test_vm`
succeed here, with every page in use when `test_vm` ends; that they may fail for
want of pages is covered by the proofs and, for other callers, by the clients.  `TrapFrame`: one
process, two values and two stack depths, enough for the counterexample.
`SimpleFs`: three slots, words of three bits with requests that wrap and that
do not, and names that are empty, fit, fill the field, or exceed it in one way.
`Vfs`: two devices, a buffer of two characters, and a heap for two files and
some other allocations, so that opens fail at each of their two allocations.

Fairness.  `FairSpec` assumes one thing: the timer interrupts while `SIE` is
set.  That is the hardware's part (and that of whoever arms the timer); no
process has to call `sched_yield`, for `src/` has no process code that does.
Under it `TimerPreempts` says that a `SCHED_NORMAL` or `SCHED_RR` process on the
CPU with interrupts on passes the CPU to one that waits.  It says nothing of a
process that runs with interrupts off, and the code promises nothing there:
`sched_tick` switches threads inside the trap, `swtch` does not set `SIE`, and
until a process suspended in `sched_tick` is resumed no tick comes.  A process
that does not yield then keeps the CPU for ever, whatever its policy, although
`docs/SCHEDULER.md:92` calls `SCHED_RR` "Real-time round-robin (preemptive)" and
line 102 says "SCHED_RR processes can be preempted after their time slice".
What the code does give round-robin is the order, a safety property:
`TakesTurns` (a process goes behind those that wait with its priority) with
`NoOvertaking`.  `YieldingSpec` adds that the boot thread calls `scheduler` and
that every process yields in the end.  The code does not guarantee this; only
the violated run `SchedStarvation` uses it, to show that the claim about aging
fails even then.

## Findings

* `SchedStarvation` (`src/kernel/process/scheduler.c:371`): sched_tick switches threads inside the trap, with SIE off and SIE not part of context_t. The preempted process is demoted; processes of a higher level that yield to each other keep the CPU, no tick is taken, so aging never runs and the demoted process never does. The comment at src/kernel/process/scheduler.c:369-370 says "Aging mechanism: periodically boost all processes back to highest queue", "This prevents starvation".
* `SchedIdle` (`src/kernel/process/scheduler.c:323`): sched_yield calls sched_next before context_switch re-queues the old process, so the only runnable process is switched out for the idle process when its slice ends (and an expired SCHED_RR process for a normal one). docs/SCHEDULER.md:150 says of the idle process "**Behavior**: Runs only when no other processes are ready".
* `PreemptedAdd` (`src/kernel/process/scheduler.c:71`): mlfq_enqueue stores the slot, the tail and the size with interrupts enabled. A tick between two of the stores runs mlfq_dequeue and mlfq_enqueue on the same ring: the slot just written is overwritten and the added process is in no queue. FINAL_REPORT.md:177 says "✅ No race conditions in single-CPU mode".
* `TrapRegisters` (`src/bootloader/boot.S:49`): trap_entry stores sp and nothing else, and calls trap_handler, a C function: ra and the registers t0 to t6 and a0 to a7 of the interrupted thread are lost with every interrupt, for sret returns with what the handler left in them. The comments at src/bootloader/boot.S:48 and :54 say "Save context" and "Restore context and return".
* `Reboot` (`src/kernel/main.c:349`): The store to 0x100000 is made with paging on, and kvminit maps the kernel, UART, PLIC and CLINT only (src/kernel/mm/vm.c:26-44): a store page fault, which trap_handler reports before it panics. The comment at src/kernel/main.c:348 says "writing 0x5555 causes QEMU to exit", docs/BUILD.md:104 "`reboot` - Reboot the system (exit QEMU)".

The cause of `SchedIdle`, the choice of the next process before the old one is
put back, also lets a normal process run before an expired `SCHED_RR` process.

Two more disagreements are visible in the models without a run of their own.
A `SCHED_FIFO` process that calls `sched_yield` stays `PROC_RUNNING`, is in no
queue and does not run again (`context_switch` re-queues `SCHED_NORMAL` and
`SCHED_RR` only): it is the exception `NoProcessLost` and `OneRunning` name,
while `docs/SCHEDULER.md:101` says "SCHED_FIFO processes run until completion
or blocking".  And `sched_set_policy` or `sched_set_priority` of a process that
is queued touches no queue: aging then takes the process out of its ring and,
finding it is not `SCHED_NORMAL`, puts it nowhere, and a changed real-time
priority leaves `rt_queue` unsorted.  Nobody in `src/` configures a process
after adding it, and the models take callers not to.

Read off the code while modelling it, in parts that nothing calls or that
nothing checked here depends on: `printf` knows no `%lu`, which `elf_load` and
others pass; `elf_load` compares `p_vaddr + p_memsz`, a sum that can wrap, with
`MAXVA`; `switch_to_user` leaves `sp` the kernel's, and `trap_vector_user`
returns with another `t0` than it saved; `mappages` with a size within a page
of 2^64 wraps behind its own start (excluded by `PageTableAssumption`);
`sfs_format` of a file system with files resets the counters and keeps the
inodes; `kmalloc` of a size near 2^64 wraps past its bounds test;
`docs/ARCHITECTURE.md:77` places the CLINT at the address of the test device.

## Proofs

From `ConstantsAssumption` (a table of at least one slot, positive slices and
period, a non-empty normal priority range; nothing about the callers'
arguments but their type), `SchedulerProofs` proves `Spec => []IInv`, where
`IInv` is the conjunction of the safety invariants with two facts that make it
inductive: `HeldRunnable` (a held slot is RUNNABLE and not on the CPU) and
`RunnerPolicy` (the idle process has policy `SCHED_IDLE`, a process on the CPU
has not).  The invariants need each other: `NoProcessLost` needs that the
queues never overflow, which follows from `QueuesDistinct` and the number of
slots by a pigeonhole argument; aging empties three rings
into one, and keeps distinctness because `Routed` keeps the rings disjoint;
`QueuesDistinct` needs `QueuedIsReady` and `OneRunning` (the process put back
is in no queue).  There is one lemma per action, and `SwitchIInv` for the part
that `scheduler`, `sched_yield` and `sched_tick` share.

Four results are about steps.  `NoOvertaking`, `TakesTurns` and `LevelSteps` follow the same
three stages as the invariant: `NextOrder`, `AddOrder` and `AgedOrder` say what
taking the head, appending or inserting one process, and emptying three rings
into the first do to the order of two queued processes, `AddTurn` and
`AgedTurn` where a process that was in no queue ends up, and `SwitchStages` names the
queues between the stages.  The order survives aging because `Routed` and
`QueuesDistinct` give each process one ring: two that were in the same ring are
moved together, and in order.  `DispatchImplemented` is the refinement of
`Dispatch`: every action is an `Add`, a `Switch` or a stutter of it, and needs
from the invariant that queued processes are in the queue of their policy
(so that the head of `rt_queue` is a real-time process, and no other queue has
one) and that no ring overflows (so that the old process is ready again).

`ReadyRingProofs` proves the window invariant and the refinement of
`BoundedFifo` for every capacity.  `PageAllocProofs` proves that the links
visit every unowned page exactly once, for every number of pages, with the list
as a bounded function rather than a recursive walk, and from it the refinement
of `PagePool`.

`TrapFrameProofs` proves `CalleeSavedIntact` (a thread in its own code finds
`sp` and `s` as it left them, on its own stack) and `TrapReturnsHome` for any
number of processes and any schedule.  The inductive invariant says where the
registers of every thread are: in the CPU, in its context, or in its context and
the frame of its trap.  It needs that at most one thread is in a trap, because
`sepc` and `sscratch` exist once; that holds because `SIE` is off from the trap
until its `sret`, whichever threads run in between.

`PageTableProofs` proves `TypeOK`, `TreeSound`, `Translates` and `MapReturns`
from `PageTableAssumption`.  The invariant for the trees and translations adds
`WalkSound`: the table a walk is at is the one that the indices of its address
lead to, at its level.  A page's path through the tables determines it
(`PX` of three levels is injective below `MAXVA`), so an entry stored at the end
of a walk is the entry of that page and of no other, and a table entered on the
way is fresh and empty and so translates nothing.  `MapReturns` is a property of
a step; `CallSound` relates the call under way to the pages it has mapped so far.

`KernelProofs` proves `KernelMap` and `LineIsTyped`, and that the boot keeps the
page-table invariants and `MapReturns`, from `KernelAssumption` (the regions lie below `MAXVA`
and share no page; every command fits the array).  `BootInv` says for every
place of `kernel_main` what is mapped in which table: after some calls of
`mappages` exactly the regions before the current one and the pages of it up to
the walk.  It rests on `CallSound`; that no region meets another follows from
their being disjoint, so the `panic` of a remap cannot happen.

`SimpleFsProofs` proves `TableSound`, `UniqueNames` and `CountsAgree` for every
table, word and set of names.  The inductive invariant adds `SizeTracks`: the
size of a file lies between what was written without wrapping and what was
written at all.  `VfsProofs` proves `HandlesSound` and `PassedBySeek` for
every heap, buffer and registry; its invariant adds `Layout` (`heap_current` is
aligned, every object ends below it, and every inode number is below
`next_ino`) and `Blank` (the buffer is zero behind the data).  `LookupStable` follows from the registry only being appended to.
`SharedFileImplemented` is the refinement of `SharedFile`: a read or write
through one file moves that file's offset and no other's, because the objects of
two open files do not overlap; the copy loop changes the content exactly between
the offset and the end of what was written, and leaves the zeros between the
data and an offset behind it, which `Blank` gives; failed opens and all that other drivers do are stutters.


Every property of the passing runs is a theorem but one: `TimerPreempts`, a
liveness property under fairness, is out of the prover's reach and checked by
TLC only, as are the properties of the violated runs, which do not hold.

## Not modelled

* process table: process_alloc, process_free and the tick counter. pid, names, statistics and process_print_stats are left out; process_init is called by nobody.
* ELF loader: elf_load checks a header and the range of each segment, prints, and changes no state but *entry; nothing calls it. The sum it compares with MAXVA can wrap around (README).
* system calls: Nothing calls syscall_handler: trap_handler panics at an ecall. Its branches pass on to operations that are modelled (vfs_open, vfs_close, sched_yield) or are console I/O.
* kernel main and shell: The boot as far as it uses the page tables, test_vm, the line editor and the command parser of the shell, and reboot. The commands that print, and those that call other components (test, testdev), are steps without effect in Kernel; their calls are the callers' side of Vfs, SimpleFs and Scheduler.
* printf: Formatting and console output, without state; panic is the final state of PageTable, Kernel and TrapFrame.
* UART, PLIC and RTC drivers: Loads and stores of device registers, without state of their own.
