---------------------------- MODULE PreemptedAdd ----------------------------
(***************************************************************************)
(* The ring of one level of the multi-level feedback queue (level 3, the   *)
(* one a process that is demoted stays in), when a process calls sched_add *)
(* with interrupts enabled: no statement of mlfq_enqueue masks the timer,  *)
(* so sched_tick can run between two of them, take a process out of the    *)
(* ring and put the interrupted one in.  The scheduler's own calls are     *)
(* single steps here, as they run in the trap with interrupts disabled.    *)
(***************************************************************************)
EXTENDS Integers

CONSTANTS
  MAX_PROCESSES,  \* slots of the ring
  Processes,      \* SCHED_NORMAL processes of level 3
  First,          \* the process that runs at the start
  Idle,           \* the idle process
  NULL

VARIABLES
  queue, head, tail, size,  \* mlfq_t
  current,                  \* the process on the CPU
  pc,                       \* per process: the statement of mlfq_enqueue it is at
  added,                    \* processes passed to sched_add (or running)
  suspended                 \* the process preempted in sched_tick; SIE is off

vars == <<queue, head, tail, size, current, pc, added, suspended>>
ring == <<queue, head, tail, size>>

Advance(i) == (i + 1) % MAX_PROCESSES

Init ==
  /\ queue = [i \in 0 .. MAX_PROCESSES - 1 |-> NULL]
  /\ head = 0
  /\ tail = 0
  /\ size = 0
  /\ current = First
  /\ pc = [p \in Processes |-> "run"]
  /\ added = {First}
  /\ suspended = NULL

\* sched_add(n) called by the running process: the three assignments of
\* mlfq_enqueue, one step each.
StoreSlot(n) ==
  /\ current \in Processes
  /\ pc[current] = "run"
  /\ n \notin added
  /\ size < MAX_PROCESSES
  /\ queue' = [queue EXCEPT ![tail] = n]
  /\ added' = added \cup {n}
  /\ pc' = [pc EXCEPT ![current] = "tail"]
  /\ UNCHANGED <<head, tail, size, current, suspended>>

StoreTail ==
  /\ current \in Processes
  /\ pc[current] = "tail"
  /\ tail' = Advance(tail)
  /\ pc' = [pc EXCEPT ![current] = "size"]
  /\ UNCHANGED <<queue, head, size, current, added, suspended>>

StoreSize ==
  /\ current \in Processes
  /\ pc[current] = "size"
  /\ size' = size + 1
  /\ pc' = [pc EXCEPT ![current] = "run"]
  /\ UNCHANGED <<queue, head, tail, current, added, suspended>>

\* sched_yield: sched_next takes the head of the ring, or the idle process;
\* context_switch puts the old process back.  A process that was suspended in
\* sched_tick returns from the trap, which enables interrupts.
SwitchTo(new, h, s) ==
  /\ current' = new
  /\ head' = h
  /\ IF current = Idle
     THEN size' = s /\ UNCHANGED <<queue, tail>>
     ELSE /\ queue' = [queue EXCEPT ![tail] = current]
          /\ tail' = Advance(tail)
          /\ size' = s + 1

Switch ==
  IF size > 0 THEN SwitchTo(queue[head], Advance(head), size - 1)
  ELSE SwitchTo(Idle, head, 0)

sched_yield ==
  /\ current = Idle => size > 0
  /\ current # Idle => pc[current] = "run"
  /\ Switch
  /\ suspended' = IF current' = suspended THEN NULL ELSE suspended
  /\ UNCHANGED <<pc, added>>

\* The time slice of the current process ends at a timer interrupt.
sched_tick ==
  /\ suspended = NULL
  /\ current # Idle
  /\ Switch
  /\ suspended' = current
  /\ UNCHANGED <<pc, added>>

Next ==
  \/ \E n \in Processes : StoreSlot(n)
  \/ StoreTail
  \/ StoreSize
  \/ sched_yield
  \/ sched_tick

Spec == Init /\ [][Next]_vars

-----------------------------------------------------------------------------
InRing == {queue[(head + i) % MAX_PROCESSES] : i \in 0 .. size - 1}

\* "No race conditions in single-CPU mode" (FINAL_REPORT.md): whenever no call
\* of mlfq_enqueue is under way, every process added runs or is in the ring.
NoRaceOnOneCpu ==
  (\A p \in Processes : pc[p] = "run") => added \subseteq InRing \cup {current}

=============================================================================
