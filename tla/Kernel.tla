------------------------------- MODULE Kernel -------------------------------
(***************************************************************************)
(* kernel_main (kernel/main.c) as the user of the page tables: kvminit and *)
(* kvminithart (kernel/mm/vm.c), test_vm, and the shell, whose commands    *)
(* come from a line that is edited in a fixed array.  Every access of the  *)
(* kernel to a device goes through the kernel's page table from            *)
(* kvminithart on; reboot is such an access.  The commands that print, or  *)
(* that call the page allocator, the scheduler and the VFS, leave no trace *)
(* here.                                                                   *)
(*                                                                         *)
(* The behaviours in which main is "clients" are those of PageTable alone, *)
(* with the kernel's tables in pages that are not looked at.               *)
(***************************************************************************)
EXTENDS PageTable, Sequences

CONSTANTS
  Regions,            \* <<va, size>> of what kvminit maps, in its order
  TEST_VM,            \* <<va, size, pa>> that test_vm maps
  QEMU_VIRT_TEST,     \* the device that ends the emulation
  SHELL_BUFFER_SIZE,
  Chars,              \* printable characters
  SPACE,
  Commands,           \* the words the shell knows
  REBOOT,             \* one of them
  ECHO                \* the word that takes the rest of the line

NUL == "NUL"
Places == 0 .. SHELL_BUFFER_SIZE - 1

\* The pages of a region.
PagesOf(x) == x[1] \div PGSIZE .. (x[1] + x[2] - 1) \div PGSIZE

ASSUME KernelAssumption ==
  /\ Regions \in Seq(Address \X (Address \ {0}))
  /\ \A i \in DOMAIN Regions : Regions[i][1] + Regions[i][2] <= MAXVA
  /\ \A i, j \in DOMAIN Regions :
       i # j => PagesOf(Regions[i]) \cap PagesOf(Regions[j]) = {}
  /\ TEST_VM \in Address \X (Address \ {0}) \X Address
  /\ TEST_VM[1] + TEST_VM[2] <= MAXVA
  /\ TEST_VM[3] % PGSIZE = 0
  /\ QEMU_VIRT_TEST \in 0 .. MAXVA - 1
  /\ SHELL_BUFFER_SIZE \in Nat \ {0}
  /\ SPACE \in Chars /\ NUL \notin Chars
  /\ Commands \subseteq Seq(Chars) /\ REBOOT \in Commands /\ <<>> \notin Commands
  /\ ECHO \in Seq(Chars) \ Commands
  /\ \A w \in Commands \cup {ECHO} : Len(w) < SHELL_BUFFER_SIZE

VARIABLES
  main,              \* where kernel_main is
  kernel_pagetable,
  mapped,            \* calls of mappages that kvminit has made
  satp,              \* the page table in use, NULL before kvminithart
  pt,                \* the page table of test_vm
  buffer, pos,       \* of run_shell
  line               \* what was typed and not taken back (no part of the code)

console == <<buffer, pos, line>>
kernel == <<main, kernel_pagetable, mapped, satp, pt, console>>
kernelVars == <<vars, kernel>>

At(place) == main = place /\ Ready

-----------------------------------------------------------------------------
\* The kernel stops if there is no page for its page table.
kvminit ==
  /\ At("kvminit")
  /\ IF owned = Pages
     THEN Return("panic")
          /\ UNCHANGED <<owned, table, roots, space, main, kernel_pagetable>>
     ELSE \E p \in Pages :
            vm_create_user_pagetable(p) /\ kernel_pagetable' = p /\ main' = "regions"
  /\ UNCHANGED <<mapped, satp, pt, console>>

\* Mutant: the PLIC is taken to be a page longer and overlaps the UART.
Identity_long(i) ==
  <<Regions[i][1], Regions[i][2] + (IF i = 3 THEN PGSIZE ELSE 0), Regions[i][1]>>

\* What kvminit passes for a region.
Identity(i) == <<Regions[i][1], Regions[i][2], Regions[i][1]>>

\* The next region, if the one before was mapped; if not the kernel stops.
kvminit_region ==
  /\ At("regions")
  /\ mapped < Len(Regions)
  /\ IF ret = "failed"
     THEN Return("panic") /\ UNCHANGED <<owned, table, roots, space, mapped>>
     ELSE LET x == Identity(mapped + 1) IN
          mappages(kernel_pagetable, x[1], x[2], x[3]) /\ mapped' = mapped + 1
  /\ UNCHANGED <<main, kernel_pagetable, satp, pt, console>>

\* The last return of mappages is looked at before satp is written.
kvminithart ==
  /\ At("regions")
  /\ mapped = Len(Regions)
  /\ IF ret = "failed"
     THEN Return("panic") /\ UNCHANGED <<owned, table, roots, space, main, satp>>
     ELSE satp' = kernel_pagetable /\ main' = "test_vm" /\ UNCHANGED vars
  /\ UNCHANGED <<kernel_pagetable, mapped, pt, console>>

-----------------------------------------------------------------------------
\* test_vm makes a page table and maps one page, unless there is no memory.
test_vm ==
  /\ At("test_vm")
  /\ IF owned = Pages
     THEN main' = "run_shell" /\ UNCHANGED <<vars, pt>>
     ELSE \E p \in Pages :
            vm_create_user_pagetable(p) /\ pt' = p /\ main' = "mappages"
  /\ UNCHANGED <<kernel_pagetable, mapped, satp, console>>

test_vm_map ==
  /\ At("mappages")
  /\ mappages(pt, TEST_VM[1], TEST_VM[2], TEST_VM[3])
  /\ main' = "walkaddr"
  /\ UNCHANGED <<kernel_pagetable, mapped, satp, pt, console>>

\* A test that fails returns without freeing the page table.
test_vm_free ==
  /\ At("walkaddr")
  /\ main' = "run_shell"
  /\ LET v == TEST_VM[1] \div PGSIZE IN
     IF ret = "ok" /\ Mapped(pt, v) /\ walkaddr(pt, v) = TEST_VM[3]
     THEN vm_free(pt)
     ELSE UNCHANGED vars
  /\ UNCHANGED <<kernel_pagetable, mapped, satp, pt, console>>

-----------------------------------------------------------------------------
\* The array of run_shell is not initialized.
run_shell ==
  /\ At("run_shell")
  /\ buffer' \in [Places -> Chars \cup {NUL}]
  /\ pos' = 0
  /\ line' = <<>>
  /\ main' = "read"
  /\ UNCHANGED <<vars, kernel_pagetable, mapped, satp, pt>>

\* A printable character; one that does not fit is ignored.
Type(c) ==
  /\ At("read")
  /\ pos < SHELL_BUFFER_SIZE - 1
  /\ buffer' = [buffer EXCEPT ![pos] = c]
  /\ pos' = pos + 1
  /\ line' = Append(line, c)
  /\ UNCHANGED <<vars, main, kernel_pagetable, mapped, satp, pt>>

Backspace ==
  /\ At("read")
  /\ pos > 0
  /\ pos' = pos - 1
  /\ line' = SubSeq(line, 1, Len(line) - 1)
  /\ UNCHANGED <<vars, main, kernel_pagetable, mapped, satp, pt, buffer>>

\* Mutant: a line is not terminated.
Terminated_not == buffer

Terminated == [buffer EXCEPT ![pos] = NUL]

\* The end of the line; an empty one is no command.
Enter ==
  /\ At("read")
  /\ buffer' = Terminated
  /\ main' = IF pos = 0 THEN "read" ELSE "command"
  /\ UNCHANGED <<vars, kernel_pagetable, mapped, satp, pt, pos, line>>

\* The comparisons of the command parser.
StartsWith(w) == \A i \in 1 .. Len(w) : buffer[i - 1] = w[i]
IsCommand(w) == StartsWith(w) /\ buffer[Len(w)] = NUL
IsEcho == StartsWith(ECHO) /\ pos > Len(ECHO) /\ buffer[Len(ECHO)] = SPACE

Prompt == main' = "read" /\ pos' = 0 /\ line' = <<>>

\* Every command but reboot comes back to the prompt.
Command ==
  /\ At("command")
  /\ ~IsCommand(REBOOT)
  /\ Prompt
  /\ UNCHANGED <<vars, kernel_pagetable, mapped, satp, pt, buffer>>

\* A store to a page that is not mapped is an exception, and trap_handler panics.
reboot ==
  /\ At("command")
  /\ IsCommand(REBOOT)
  /\ IF Mapped(satp, QEMU_VIRT_TEST \div PGSIZE)
     THEN main' = "exited" /\ UNCHANGED vars
     ELSE Return("panic") /\ UNCHANGED <<main, owned, table, roots, space>>
  /\ UNCHANGED <<kernel_pagetable, mapped, satp, pt, console>>

-----------------------------------------------------------------------------
KernelInit ==
  /\ Init
  /\ main \in {"kvminit", "clients"}
  /\ kernel_pagetable = NULL
  /\ mapped = 0
  /\ satp = NULL
  /\ pt = NULL
  /\ buffer = [i \in Places |-> NUL]
  /\ pos = 0
  /\ line = <<>>

KernelNext ==
  \/ main = "clients" /\ Calls /\ UNCHANGED kernel
  \/ Work /\ UNCHANGED kernel
  \/ kvminit
  \/ kvminit_region
  \/ kvminithart
  \/ test_vm
  \/ test_vm_map
  \/ test_vm_free
  \/ run_shell
  \/ \E c \in Chars : Type(c)
  \/ Backspace
  \/ Enter
  \/ Command
  \/ reboot

KernelSpec == KernelInit /\ [][KernelNext]_kernelVars

-----------------------------------------------------------------------------
\* The kernel runs on an identity map of exactly the regions of kvminit, from
\* kvminithart on and whatever test_vm and the shell do; no region runs into
\* another, so that only a lack of pages stops the boot; and the shell starts
\* with the kernel's tables alone in use, unless test_vm ran out of pages.
KernelMap ==
  /\ satp # NULL =>
       LET kernelPages == UNION {PagesOf(Regions[i]) : i \in DOMAIN Regions} IN
       /\ space[satp] = [v \in kernelPages |-> v * PGSIZE]
       /\ \A v \in kernelPages : Mapped(satp, v) /\ walkaddr(satp, v) = v * PGSIZE
  /\ ret = "panic" /\ main \notin {"clients", "command"} => owned = Pages
  /\ main \in {"read", "command"}
       => owned = Freed(kernel_pagetable) \/ owned = Pages

\* A command is what was typed and not taken back, whatever longer lines were
\* in the array before: the parser takes it for the word that it is, or for
\* echo with the rest of the line, and what is printed of the array ends where
\* the line ends.  While a line is typed the array has room for the terminator.
LineIsTyped ==
  /\ main \in {"read", "command"} =>
       /\ pos = Len(line) /\ pos < SHELL_BUFFER_SIZE
       /\ \A i \in 1 .. pos : buffer[i - 1] = line[i]
  /\ main = "command" =>
       /\ buffer[pos] = NUL
       /\ \A w \in Commands : IsCommand(w) <=> line = w
       /\ IsEcho <=> /\ Len(line) > Len(ECHO)
                     /\ SubSeq(line, 1, Len(ECHO) + 1) = Append(ECHO, SPACE)

\* "writing 0x5555 causes QEMU to exit" (run_shell), "Reboot the system (exit
\* QEMU)" (docs/BUILD.md): the command ends the emulation.
RebootExits == [][reboot => main' = "exited"]_kernelVars

=============================================================================
