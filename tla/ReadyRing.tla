----------------------------- MODULE ReadyRing -----------------------------
(***************************************************************************)
(* mlfq_t of kernel/process/scheduler.c: the ring buffer behind each level *)
(* of the multi-level feedback queue.  Scheduler uses it as a sequence;    *)
(* this module shows that the array with head, tail and size is one.       *)
(***************************************************************************)
EXTENDS Integers, Sequences

CONSTANTS
  MAX_PROCESSES,  \* slots of the ring
  Processes,      \* process_t pointers
  NULL            \* the null pointer, and what an unused slot holds

ASSUME RingAssumption ==
  /\ MAX_PROCESSES \in Nat \ {0}
  /\ NULL \notin Processes

VARIABLES queue, head, tail, size,
          proc    \* what the last call of mlfq_dequeue returned

vars == <<queue, head, tail, size, proc>>

Slots == 0 .. MAX_PROCESSES - 1

\* Mutants: a ring that takes one process too many, and a tail that is not
\* wrapped before the slot after the last one is written.
Full_late == size > MAX_PROCESSES
Advance_late(i) == IF i = MAX_PROCESSES - 1 THEN i ELSE i + 1

Full == size >= MAX_PROCESSES
Advance(i) == (i + 1) % MAX_PROCESSES

\* mlfq_init, on an array the loader has zeroed.
Init ==
  /\ queue = [i \in Slots |-> NULL]
  /\ head = 0
  /\ tail = 0
  /\ size = 0
  /\ proc = NULL

\* A full ring drops the process silently.
mlfq_enqueue(p) ==
  /\ IF Full
     THEN UNCHANGED <<queue, tail, size>>
     ELSE /\ queue' = [queue EXCEPT ![tail] = p]
          /\ tail' = Advance(tail)
          /\ size' = size + 1
  /\ UNCHANGED <<head, proc>>

mlfq_dequeue ==
  /\ IF size = 0
     THEN proc' = NULL /\ UNCHANGED <<head, size>>
     ELSE /\ proc' = queue[head]
          /\ head' = Advance(head)
          /\ size' = size - 1
  /\ UNCHANGED <<queue, tail>>

Next == (\E p \in Processes : mlfq_enqueue(p)) \/ mlfq_dequeue

Spec == Init /\ [][Next]_vars

-----------------------------------------------------------------------------
TypeOK ==
  /\ queue \in [Slots -> Processes \cup {NULL}]
  /\ head \in Slots
  /\ tail \in Slots
  /\ size \in 0 .. MAX_PROCESSES
  /\ proc \in Processes \cup {NULL}

\* head, tail and size agree, and the slots between head and tail hold
\* processes: no slot that mlfq_dequeue reads is one nobody wrote.
WindowSound ==
  /\ tail = (head + size) % MAX_PROCESSES
  /\ \A i \in 0 .. size - 1 : queue[(head + i) % MAX_PROCESSES] \in Processes

\* The processes in the ring, oldest first.
Items == [i \in 1 .. size |-> queue[(head + i - 1) % MAX_PROCESSES]]

FIFO == INSTANCE BoundedFifo WITH
          Capacity <- MAX_PROCESSES, items <- Items, got <- proc

\* The ring behaves as a bounded FIFO queue: mlfq_enqueue and mlfq_dequeue
\* return the processes in the order they came, wherever the window between
\* head and tail lies and whether or not it wraps.
ImplementsFifo == FIFO!Spec

=============================================================================
