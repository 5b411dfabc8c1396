------------------------------- MODULE MCVfs -------------------------------
(***************************************************************************)
(* A small instance of Vfs.  One name has a leading slash; one is as long  *)
(* as a device name may be, and is also the head of a longer one.          *)
(***************************************************************************)
EXTENDS Vfs

MCSkipSlash ==
  [n \in Names |-> IF n.head = "/testdev" THEN [n EXCEPT !.head = "testdev"] ELSE n]

=============================================================================
