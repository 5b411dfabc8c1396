---------------------------- MODULE BoundedFifo ----------------------------
(***************************************************************************)
(* What a level of the multi-level feedback queue promises to the          *)
(* scheduler: a FIFO queue that holds up to Capacity processes, drops what *)
(* is added beyond that, and yields NULL when it is empty.                 *)
(***************************************************************************)
EXTENDS Integers, Sequences

CONSTANTS Processes, NULL, Capacity

VARIABLES items,  \* the processes in the queue, oldest first
          got     \* what the last removal returned

Init == items = <<>> /\ got = NULL

Add(p) ==
  /\ items' = IF Len(items) < Capacity THEN Append(items, p) ELSE items
  /\ UNCHANGED got

Remove ==
  \/ items = <<>> /\ got' = NULL /\ UNCHANGED items
  \/ items # <<>> /\ got' = Head(items) /\ items' = Tail(items)

Next == (\E p \in Processes : Add(p)) \/ Remove

Spec == Init /\ [][Next]_<<items, got>>

=============================================================================
