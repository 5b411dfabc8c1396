----------------------------- MODULE TrapFrame -----------------------------
(***************************************************************************)
(* The registers of the CPU across interrupts and context switches:        *)
(* trap_entry (bootloader/boot.S), trap_handler (kernel/trap/trap.c) and   *)
(* swtch (kernel/process/swtch.S).  Registers are taken by class: ra, sp,  *)
(* s (s0 to s11, which a C function gives back as it found them) and t (t0 *)
(* to t6 and a0 to a7, which it may leave with anything).  gp and tp are   *)
(* never written.                                                          *)
(*                                                                         *)
(* A thread is the boot thread or a process; its own code is everything it *)
(* runs outside of trap_entry and swtch.  Which process a switch goes to   *)
(* is the matter of Scheduler; here it is any other one.                   *)
(***************************************************************************)
EXTENDS Integers

CONSTANTS
  NPROC,    \* number of processes, the idle process among them
  Values,   \* what code computes in registers
  Depths    \* how far a stack is filled

Procs == 1 .. NPROC
NULL == 0  \* no process: the boot thread
Threads == Procs \cup {NULL}

\* Code addresses: the own code of a thread, and places in the kernel.
OwnCode(th) == <<"own", th>>
Handler == <<"trap_handler", NULL>>   \* before sched_tick has switched
Resumed == <<"sched_tick", NULL>>     \* after its call of sched_yield
TrapEntry == <<"trap_entry", NULL>>   \* after the call of trap_handler
Panic == <<"panic", NULL>>
Zero == <<"zero", NULL>>              \* address 0

\* scause of a timer interrupt; trap_handler returns from all others unchanged.
TIMER == 5
Interrupts == {1, TIMER, 9, 13}

VARIABLES
  pc,
  reg,       \* the registers ra, sp, s, t; sp is a place on a thread's stack
  sie,       \* sstatus.SIE
  scause, sepc, sscratch,
  frame,     \* what the C code of a trap keeps below a place on a stack
  context,   \* the context_t of every process
  current,   \* cpu_data[0].current
  left       \* the registers as the own code of each thread left them (no part
             \* of the machine)

vars == <<pc, reg, sie, scause, sepc, sscratch, frame, context, current, left>>

trapregs == <<scause, sepc, sscratch>>

\* The CPU executes the own code of a thread, of which one.
Own == pc[1] = "own"
Self == pc[2]

-----------------------------------------------------------------------------
\* What swtch saves of the old process, and what it leaves in the registers.
Saved(ra) == [ra |-> ra, sp |-> reg.sp, s |-> reg.s]
Loaded(c) == [ra |-> c.ra, sp |-> c.sp, s |-> c.s, t |-> reg.t]

\* swtch(old, new), to return to ra; the boot thread has no context to be saved
\* in.  The caller in a thread counts on sp and s, and on no other register.
swtch(new, ra) ==
  LET c == context[new] IN
  /\ context' = [p \in Procs |-> IF p = current THEN Saved(ra) ELSE context[p]]
  /\ reg' = Loaded(c)
  /\ pc' = c.ra
  /\ current' = new
  /\ left' = [th \in Threads |->
                IF c.ra = OwnCode(th)
                THEN [ra |-> c.ra, sp |-> left[th].sp, s |-> left[th].s,
                      t |-> reg.t]
                ELSE left[th]]

\* A thread computes, calls and returns.
Compute(ra, d, s, t) ==
  /\ Own
  /\ reg' = [ra |-> ra, sp |-> <<Self, d>>, s |-> s, t |-> t]
  /\ left' = [left EXCEPT ![Self] = reg']
  /\ UNCHANGED <<pc, sie, trapregs, frame, context, current>>

\* context_switch, called by a thread through sched_yield or scheduler.
context_switch(new) ==
  /\ Own
  /\ new # current
  /\ swtch(new, pc)
  /\ UNCHANGED <<sie, trapregs, frame>>

-----------------------------------------------------------------------------
\* The hardware stores pc and clears SIE; trap_entry stores sp and calls
\* trap_handler, which keeps its return address and s on the stack and then uses
\* the registers.
trap_entry(cause, ra, s, t) ==
  /\ Own
  /\ sie
  /\ sie' = FALSE
  /\ scause' = cause
  /\ sepc' = pc
  /\ sscratch' = reg.sp
  /\ frame' = [frame EXCEPT ![reg.sp] = [ra |-> TrapEntry, s |-> reg.s]]
  /\ reg' = [ra |-> ra, sp |-> reg.sp, s |-> s, t |-> t]
  /\ pc' = Handler
  /\ UNCHANGED <<context, current, left>>

\* trap_handler reports an exception and panics.
Exception ==
  /\ Own
  /\ pc' = Panic
  /\ UNCHANGED <<reg, sie, trapregs, frame, context, current, left>>

\* The slice of the process is used up: sched_tick calls sched_yield.
sched_tick(new) ==
  /\ pc = Handler
  /\ scause = TIMER
  /\ current # NULL
  /\ new # current
  /\ swtch(new, Resumed)
  /\ UNCHANGED <<sie, trapregs, frame>>

\* trap_handler returns to where its frame says, trap_entry, which reloads sp
\* and executes sret.
TrapReturn ==
  /\ pc \in {Handler, Resumed}
  /\ reg' = [ra |-> frame[reg.sp].ra, sp |-> sscratch, s |-> frame[reg.sp].s,
             t |-> reg.t]
  /\ pc' = sepc
  /\ sie' = TRUE
  /\ UNCHANGED <<trapregs, frame, context, current, left>>

-----------------------------------------------------------------------------
\* A context before the first dispatch: zeros, as the .bss leaves it, or an entry
\* point, a stack and values.  Nothing in the kernel fills one in; whoever creates
\* processes to be run has to.
Zeros == [ra |-> Zero, sp |-> Zero, s |-> Zero]
Entry(p) == [ra |-> OwnCode(p), sp |-> left[p].sp, s |-> left[p].s]

\* The boot thread after trap_init and scheduler_init.
Init ==
  /\ pc = OwnCode(NULL)
  /\ left \in [Threads -> [ra : Values, sp : Threads \X Depths,
                           s : Values, t : Values]]
  /\ \A th \in Threads : left[th].sp[1] = th
  /\ reg = left[NULL]
  /\ sie = TRUE
  /\ scause = 0 /\ sepc = Zero /\ sscratch = Zero
  /\ frame = [a \in Threads \X Depths |-> [ra |-> Zero, s |-> Zero]]
  /\ current = NULL
  /\ \E ready \in SUBSET Procs :
       context = [p \in Procs |-> IF p \in ready THEN Entry(p) ELSE Zeros]

Next ==
  \/ \E ra, s, t \in Values, d \in Depths : Compute(ra, d, s, t)
  \/ \E ra, s, t \in Values, cause \in Interrupts : trap_entry(cause, ra, s, t)
  \/ \E new \in Procs : context_switch(new) \/ sched_tick(new)
  \/ Exception
  \/ TrapReturn

Spec == Init /\ [][Next]_vars

-----------------------------------------------------------------------------
InTrap == pc \in {Handler, Resumed}

\* Whatever interrupts and switches happened meanwhile, a thread that executes
\* its own code finds sp and s as it left them, on its own stack.  swtch and
\* trap_entry rely on each other for it: sepc and sscratch are in no context_t,
\* and the frame of a trap is found through the sp that swtch keeps.
CalleeSavedIntact ==
  Own => reg.sp = left[Self].sp /\ reg.s = left[Self].s /\ reg.sp[1] = Self

\* trap_handler returns to trap_entry and from there to the own code of the
\* thread that current names, with its sp, although threads were switched in the
\* middle of traps.
TrapReturnsHome ==
  /\ InTrap => /\ frame[reg.sp].ra = TrapEntry
               /\ sepc = OwnCode(current)
               /\ sscratch = left[current].sp
  /\ Own => Self = current

\* "Save context", "Restore context and return" (trap_entry): a thread that
\* executes its own code finds every register as it left it.
ContextRestored == Own => reg = left[Self]

=============================================================================
