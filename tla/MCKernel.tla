------------------------------ MODULE MCKernel ------------------------------
(***************************************************************************)
(* A small instance of Kernel and PageTable: tables of four entries, pages *)
(* of two bytes, addresses of seven bits.  The arguments of mappages lie   *)
(* within a page, across the end of a last-level table (pages 3 and 4),    *)
(* across the end of a middle table (15 and 16), across the end of the     *)
(* address space, and around the end of the address word.  The regions of  *)
(* the kernel fill one last-level table; the second and the third touch,   *)
(* as the PLIC and the UART do, and the device of reboot is in none.       *)
(***************************************************************************)
EXTENDS Kernel, TLC

MCMapArgs == {<<6, 1, 9>>, <<7, 2, 20>>, <<30, 4, 40>>, <<62, 4, 126>>,
              <<60, 70, 0>>, <<0, 0, 0>>}
MCUnmapArgs == {<<8, 2>>, <<30, 3>>}
PageSymmetry == Permutations(Pages)

\* Kernel, UART, PLIC and CLINT.
MCRegions == <<<<6, 2>>, <<4, 1>>, <<2, 2>>, <<0, 2>>>>
MCTestVm == <<2, 2, 6>>

MCCommands == {<<"a">>, <<"a", "b">>, <<"b", "a">>}
MCReboot == <<"b", "a">>
MCEcho == <<"b">>

=============================================================================
