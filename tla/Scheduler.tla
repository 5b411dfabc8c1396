----------------------------- MODULE Scheduler -----------------------------
(***************************************************************************)
(* The process table (kernel/process/process.c) and the scheduler          *)
(* (kernel/process/scheduler.c) of the kernel on its one CPU, together     *)
(* with what swtch (swtch.S), trap_entry (boot.S) and the timer branch of  *)
(* trap_handler (trap.c) do to a thread that is switched out.              *)
(*                                                                         *)
(* A call of swtch does not return until somebody switches back, so the    *)
(* statements that follow a call of sched_yield run when the process is    *)
(* RESUMED.  For a process preempted by the timer these statements are the *)
(* aging code at the end of sched_tick and the sret of trap_entry;         *)
(* context[p] records which of the two kinds of suspension p is in.        *)
(*                                                                         *)
(* Every operation is atomic here: the timer is taken between calls of     *)
(* the scheduler, never inside one.                                        *)
(***************************************************************************)
EXTENDS Integers, Sequences, Queues

CONSTANTS
  MAX_PROCESSES,      \* slots of proc_table, and capacity of every queue
  Idle,               \* &idle_processes[0]
  NULL,               \* the null process pointer
  queue_time_slices,  \* ticks a process may run at each queue level
  AgingPeriod,        \* the 100 of sched_tick
  PRIORITY_RT_MAX,    \* largest real-time priority
  PRIORITY_MAX,       \* largest priority
  PriorityArgs,       \* arguments callers pass to sched_set_priority
  PolicyArgs,         \* arguments callers pass to sched_set_policy
  InitialContext      \* what context_t holds before the first dispatch

NUM_QUEUE_LEVELS == 4
Levels == 0 .. NUM_QUEUE_LEVELS - 1
Slots == 0 .. MAX_PROCESSES - 1
Procs == Slots \cup {Idle}

PRIORITY_MIN == 0
PRIORITY_NORMAL_MIN == PRIORITY_RT_MAX + 1
PRIORITY_DEFAULT == PRIORITY_NORMAL_MIN

\* proc_state_t; PROC_SLEEPING and PROC_ZOMBIE are never assigned.
UNUSED == "PROC_UNUSED"
RUNNABLE == "PROC_RUNNABLE"
RUNNING == "PROC_RUNNING"

Policies == {"SCHED_NORMAL", "SCHED_FIFO", "SCHED_RR", "SCHED_IDLE"}

\* A saved context: all zeros as the .bss leaves it, an entry point set up by
\* the creator of the process, or a call of swtch made under sched_yield
\* called by the process itself or by sched_tick.
Contexts == {"zero", "entry", "yield", "tick"}

ASSUME ConstantsAssumption ==
  /\ MAX_PROCESSES \in Nat \ {0}
  /\ Idle \notin Slots
  /\ NULL \notin Procs
  /\ queue_time_slices \in [Levels -> Nat \ {0}]
  /\ AgingPeriod \in Nat \ {0}
  /\ PRIORITY_RT_MAX \in Nat
  /\ PRIORITY_MAX \in Nat
  /\ PRIORITY_RT_MAX < PRIORITY_MAX
  /\ PriorityArgs \subseteq Int
  /\ PolicyArgs \subseteq Policies
  /\ InitialContext \in {"zero", "entry"}

VARIABLES
  \* fields of process_t, for the slots of proc_table and for the idle process
  state, priority, policy, queue_level, time_slice, context,
  ready_queues,   \* the four MLFQ rings, oldest process first
  rt_queue,       \* the real-time queue, front first
  current,        \* cpu_data[0].current
  global_ticks,   \* the tick counter modulo AgingPeriod
  sie,            \* sstatus.SIE: timer interrupts are taken
  trapped,        \* the thread whose pc and sp are in sepc and sscratch
  held            \* allocated slots not yet passed to sched_add

vars == <<state, priority, policy, queue_level, time_slice, context,
          ready_queues, rt_queue, current, global_ticks, sie, trapped, held>>

fields == <<state, priority, policy, queue_level, time_slice, context>>
queues == <<ready_queues, rt_queue>>
cpu == <<current, global_ticks, sie, trapped>>

-----------------------------------------------------------------------------
(***************************************************************************)
(* Queues.                                                                 *)
(***************************************************************************)

\* Mutant: the ring is taken to be full one process early.
mlfq_enqueue_short(q, p) ==
  IF Len(q) >= MAX_PROCESSES - 1 THEN q ELSE Append(q, p)

\* mlfq_enqueue drops the process when the ring is full.
mlfq_enqueue(q, p) == IF Len(q) >= MAX_PROCESSES THEN q ELSE Append(q, p)

\* Mutant: the scan also passes processes of equal priority.
ScanStopStrict(q, p, i) ==
  /\ i \in 0 .. Len(q)
  /\ i > 0 => priority[q[i]] < priority[p]
  /\ \A j \in i + 1 .. Len(q) : priority[q[j]] >= priority[p]

\* The last position of q whose priority is at most that of p: where the
\* scan of rt_enqueue, which starts at the end, stops.
ScanStop(q, p, i) ==
  /\ i \in 0 .. Len(q)
  /\ i > 0 => priority[q[i]] <= priority[p]
  /\ \A j \in i + 1 .. Len(q) : priority[q[j]] > priority[p]

\* Mutant: no scan, the process goes to the end.
rt_enqueue_last(q, p) == IF Len(q) >= MAX_PROCESSES THEN q ELSE Append(q, p)

\* rt_enqueue inserts p behind that position, or drops it when q is full.
rt_enqueue(q, p) ==
  IF Len(q) >= MAX_PROCESSES
  THEN q
  ELSE LET i == CHOOSE i \in 0 .. Len(q) : ScanStop(q, p, i)
       IN InsertAfter(q, i, p)

\* Mutant: the level is read before the demotion.
MlfqAddStale(qs, p, level) ==
  IF policy[p] = "SCHED_NORMAL"
  THEN [qs EXCEPT ![queue_level[p]] = mlfq_enqueue(@, p)]
  ELSE qs

\* sched_add routes by policy; SCHED_IDLE goes to neither queue.  The clamp
\* of queue_level to the four levels never acts (TypeOK).
RtAdd(q, p) ==
  IF policy[p] \in {"SCHED_FIFO", "SCHED_RR"} THEN rt_enqueue(q, p) ELSE q

MlfqAdd(qs, p, level) ==
  IF policy[p] = "SCHED_NORMAL"
  THEN [qs EXCEPT ![level] = mlfq_enqueue(@, p)]
  ELSE qs

\* sched_next: the real-time queue first, then the lowest non-empty level,
\* then the idle process.
ReadyLevel(l) ==
  /\ l \in Levels
  /\ ready_queues[l] # <<>>
  /\ \A k \in 0 .. l - 1 : ready_queues[k] = <<>>

\* Mutant: the loop over the levels starts at 1.
PicksMlfqFromOne ==
  rt_queue = <<>> /\ \E l \in Levels \ {0} : ready_queues[l] # <<>>

PicksRt == rt_queue # <<>>
PicksMlfq == rt_queue = <<>> /\ \E l \in Levels : ready_queues[l] # <<>>
PickedLevel == CHOOSE l \in Levels : ReadyLevel(l)

sched_next ==
  IF PicksRt THEN Head(rt_queue)
  ELSE IF PicksMlfq THEN Head(ready_queues[PickedLevel])
  ELSE Idle

\* Mutants: a dequeue that reads the head and leaves it; no new time slice.
RtRestKept == rt_queue
MlfqRestKept == ready_queues
RefillNone(ts) == ts

\* What sched_next leaves of the queues, and of the time slices ts: only a
\* process that comes from the MLFQ gets a new slice.
RtRest == IF PicksRt THEN Tail(rt_queue) ELSE rt_queue
MlfqRest ==
  IF PicksMlfq THEN [ready_queues EXCEPT ![PickedLevel] = Tail(@)]
  ELSE ready_queues
Refill(ts) ==
  IF PicksMlfq
  THEN [ts EXCEPT ![sched_next] = queue_time_slices[PickedLevel]]
  ELSE ts

-----------------------------------------------------------------------------
(***************************************************************************)
(* Aging, the end of sched_tick: when the tick counter is a multiple of    *)
(* the period (due), levels 1, 2 and 3 are emptied in order; the           *)
(* SCHED_NORMAL processes found there go to the end of level 0, the others *)
(* nowhere.                                                                *)
(***************************************************************************)
IsNormal(p) == policy[p] = "SCHED_NORMAL"

\* Mutant: the lower queues are emptied from the tail.
KeepNormalFromTail(q) == [i \in 1 .. Len(q) |-> q[Len(q) + 1 - i]]

\* SelectSeq(q, IsNormal), with the case in which it keeps all of q apart.
KeepNormal(q) ==
  IF \A i \in 1 .. Len(q) : IsNormal(q[i]) THEN q ELSE SelectSeq(q, IsNormal)
Boosted(qs) == KeepNormal(qs[1]) \o KeepNormal(qs[2]) \o KeepNormal(qs[3])
BoostedSet(qs) == {p \in Slots : Member(Boosted(qs), p)}

\* One mlfq_enqueue after another: what exceeds the capacity is dropped.
FillTo(q) ==
  IF Len(q) <= MAX_PROCESSES THEN q ELSE SubSeq(q, 1, MAX_PROCESSES)

AgedQueues(due, qs) ==
  IF due
  THEN [l \in Levels |-> IF l = 0 THEN FillTo(qs[0] \o Boosted(qs)) ELSE <<>>]
  ELSE qs
AgedLevel(due, qs, level) ==
  [p \in Procs |-> IF due /\ p \in BoostedSet(qs) THEN 0 ELSE level[p]]
AgedSlice(due, qs, ts) ==
  [p \in Procs |-> IF due /\ p \in BoostedSet(qs)
                   THEN queue_time_slices[0] ELSE ts[p]]

-----------------------------------------------------------------------------
(***************************************************************************)
(* sched_yield and context_switch, called at `point' ("yield" by a         *)
(* thread, "tick" by sched_tick) with the time slices ts, the tick counter *)
(* tk and the interrupt enable `on'.  The next process is taken from the   *)
(* queues BEFORE the old one is put back.  The new process continues where *)
(* it was suspended: if that was in sched_tick, it runs the aging code now *)
(* and the sret that ends the trap enables interrupts again.               *)
(***************************************************************************)

\* Mutant: one of the two policies is forgotten.
RequeuesRROnly(old) ==
  old \in Slots /\ state[old] = RUNNING /\ policy[old] = "SCHED_RR"

Requeues(old) ==
  /\ old \in Slots
  /\ state[old] = RUNNING
  /\ policy[old] \in {"SCHED_NORMAL", "SCHED_RR"}

\* Mutant: a process is demoted whenever it loses the CPU.
DemotesAlways(old, ts) ==
  /\ Requeues(old)
  /\ policy[old] = "SCHED_NORMAL"
  /\ queue_level[old] < NUM_QUEUE_LEVELS - 1

Demotes(old, ts) ==
  /\ Requeues(old)
  /\ policy[old] = "SCHED_NORMAL"
  /\ ts[old] = 0
  /\ queue_level[old] < NUM_QUEUE_LEVELS - 1

DemotedLevel(old, ts) ==
  IF Demotes(old, ts) THEN [queue_level EXCEPT ![old] = @ + 1]
  ELSE queue_level

\* Mutant: interrupts are enabled after every switch.
InterruptsOn(on, new) == TRUE

InterruptsAfter(on, new) == on \/ context[new] = "tick"

context_switch(old, new, point, ts, tk, on) ==
  LET level == DemotedLevel(old, ts)
      rt == IF Requeues(old) THEN RtAdd(RtRest, old) ELSE RtRest
      mlfq == IF Requeues(old) THEN MlfqAdd(MlfqRest, old, level[old])
              ELSE MlfqRest
      due == context[new] = "tick" /\ tk = 0
  IN /\ state' = [p \in Procs |->
                    IF p = new THEN RUNNING
                    ELSE IF p = old /\ (Requeues(p) \/ p = Idle) THEN RUNNABLE
                    ELSE state[p]]
     /\ context' = [p \in Procs |-> IF p = old THEN point ELSE context[p]]
     /\ current' = new
     /\ rt_queue' = rt
     /\ ready_queues' = AgedQueues(due, mlfq)
     /\ queue_level' = AgedLevel(due, mlfq, level)
     /\ time_slice' = AgedSlice(due, mlfq, Refill(ts))
     /\ sie' = InterruptsAfter(on, new)
     /\ UNCHANGED <<priority, policy, held>>

-----------------------------------------------------------------------------
(***************************************************************************)
(* Operations.  Calls come from the boot thread (current = NULL) or from   *)
(* the running process; of the idle process only sched_yield is modelled.  *)
(* Dispatching a context of zeros sends the CPU to address 0 with no       *)
(* stack, after which no operation happens any more.                       *)
(***************************************************************************)
Wild == current # NULL /\ context[current] = "zero"

Calls == ~Wild /\ current # Idle

\* The first unused slot; when there is none NULL is returned.
process_alloc ==
  /\ Calls
  /\ \E p \in Slots :
       /\ state[p] = UNUSED
       /\ \A q \in 0 .. p - 1 : state[q] # UNUSED
       /\ state' = [state EXCEPT ![p] = RUNNABLE]
       /\ priority' = [priority EXCEPT ![p] = PRIORITY_DEFAULT]
       /\ policy' = [policy EXCEPT ![p] = "SCHED_NORMAL"]
       /\ queue_level' = [queue_level EXCEPT ![p] = 0]
       /\ time_slice' = [time_slice EXCEPT ![p] = 0]
       /\ held' = held \cup {p}
  /\ UNCHANGED <<context, queues, cpu>>

\* process_free takes the process out of no queue: callers free only a
\* process they have not passed to sched_add.
process_free(p) ==
  /\ Calls
  /\ p \in held
  /\ state' = [state EXCEPT ![p] = UNUSED]
  /\ priority' = [priority EXCEPT ![p] = 0]
  /\ queue_level' = [queue_level EXCEPT ![p] = 0]
  /\ time_slice' = [time_slice EXCEPT ![p] = 0]
  /\ held' = held \ {p}
  /\ UNCHANGED <<policy, context, queues, cpu>>

Clamp(prio) ==
  IF prio < PRIORITY_MIN THEN PRIORITY_MIN
  ELSE IF prio > PRIORITY_MAX THEN PRIORITY_MAX ELSE prio

LevelOf(prio) ==
  ((prio - PRIORITY_NORMAL_MIN) * NUM_QUEUE_LEVELS)
    \div (PRIORITY_MAX - PRIORITY_NORMAL_MIN + 1)

\* A real-time priority makes the policy SCHED_RR; a normal one changes the
\* level and leaves the policy.  No queue is touched.
sched_set_priority(p, arg) ==
  LET prio == Clamp(arg)
      rt == prio <= PRIORITY_RT_MAX
  IN /\ Calls
     /\ priority' = [priority EXCEPT ![p] = prio]
     /\ policy' = [policy EXCEPT ![p] = IF rt THEN "SCHED_RR" ELSE @]
     /\ queue_level' = [queue_level EXCEPT ![p] = IF rt THEN @ ELSE LevelOf(prio)]
     /\ UNCHANGED <<state, time_slice, context, queues, cpu, held>>

sched_set_policy(p, arg) ==
  /\ Calls
  /\ policy' = [policy EXCEPT ![p] = arg]
  /\ UNCHANGED <<state, priority, queue_level, time_slice, context,
                 queues, cpu, held>>

sched_add(p) ==
  /\ Calls
  /\ p \in held
  /\ state' = [state EXCEPT ![p] = RUNNABLE]
  /\ rt_queue' = RtAdd(rt_queue, p)
  /\ ready_queues' = MlfqAdd(ready_queues, p, queue_level[p])
  /\ held' = held \ {p}
  /\ UNCHANGED <<priority, policy, queue_level, time_slice, context, cpu>>

\* scheduler(), or sched_yield() called by the boot thread, whose own
\* context is saved nowhere.
scheduler ==
  /\ current = NULL
  /\ context_switch(NULL, sched_next, "yield", time_slice, global_ticks, sie)
  /\ UNCHANGED <<global_ticks, trapped>>

\* The idle process yielding to itself changes nothing.
sched_yield ==
  /\ ~Wild
  /\ current # NULL
  /\ sched_next # current
  /\ context_switch(current, sched_next, "yield", time_slice, global_ticks, sie)
  /\ UNCHANGED <<global_ticks, trapped>>

(***************************************************************************)
(* A timer interrupt: the trap stores pc and sp of the interrupted thread  *)
(* in sepc and sscratch and clears SIE, sched_tick runs, sret sets SIE.    *)
(***************************************************************************)
NextTick == (global_ticks + 1) % AgingPeriod

\* Mutant: the decrement is not guarded.
TickSliceUnguarded == [time_slice EXCEPT ![current] = @ - 1]

\* Mutant: no decrement.
TickSliceKept == time_slice

TickSlice ==
  [time_slice EXCEPT ![current] = IF @ > 0 THEN @ - 1 ELSE 0]

Preempts ==
  /\ TickSlice[current] = 0
  /\ policy[current] \in {"SCHED_NORMAL", "SCHED_RR"}

TrapEntry ==
  /\ ~Wild
  /\ sie
  /\ global_ticks' = NextTick
  /\ trapped' = current

TickWithoutProcess ==
  /\ TrapEntry
  /\ current = NULL
  /\ UNCHANGED <<fields, queues, current, sie, held>>

TickContinues ==
  /\ TrapEntry
  /\ current # NULL
  /\ ~Preempts
  /\ ready_queues' = AgedQueues(NextTick = 0, ready_queues)
  /\ queue_level' = AgedLevel(NextTick = 0, ready_queues, queue_level)
  /\ time_slice' = AgedSlice(NextTick = 0, ready_queues, TickSlice)
  /\ UNCHANGED <<state, priority, policy, context, rt_queue, current, sie, held>>

TickPreempts ==
  /\ TrapEntry
  /\ current # NULL
  /\ Preempts
  /\ context_switch(current, sched_next, "tick", TickSlice, NextTick, FALSE)

sched_tick == TickWithoutProcess \/ TickContinues \/ TickPreempts

-----------------------------------------------------------------------------
(***************************************************************************)
(* The state scheduler_init leaves, with trap_init's interrupts enabled.   *)
(***************************************************************************)
Init ==
  /\ state = [p \in Procs |-> IF p = Idle THEN RUNNABLE ELSE UNUSED]
  /\ priority = [p \in Procs |-> IF p = Idle THEN PRIORITY_MAX ELSE 0]
  /\ policy = [p \in Procs |->
                 IF p = Idle THEN "SCHED_IDLE" ELSE "SCHED_NORMAL"]
  /\ queue_level = [p \in Procs |->
                      IF p = Idle THEN NUM_QUEUE_LEVELS - 1 ELSE 0]
  /\ time_slice = [p \in Procs |-> 0]
  /\ context = [p \in Procs |-> InitialContext]
  /\ ready_queues = [l \in Levels |-> <<>>]
  /\ rt_queue = <<>>
  /\ current = NULL
  /\ global_ticks = 0
  /\ sie = TRUE
  /\ trapped = NULL
  /\ held = {}

Configure(p) ==
  \/ \E arg \in PriorityArgs : sched_set_priority(p, arg)
  \/ \E arg \in PolicyArgs : sched_set_policy(p, arg)

\* Callers configure a process before they add it, as test_scheduler does.
Next ==
  \/ process_alloc
  \/ \E p \in held : process_free(p) \/ Configure(p) \/ sched_add(p)
  \/ scheduler
  \/ sched_yield
  \/ sched_tick

Spec == Init /\ [][Next]_vars

-----------------------------------------------------------------------------
InRt(p) == Member(rt_queue, p)
InLevel(p, l) == Member(ready_queues[l], p)
Queued(p) == InRt(p) \/ \E l \in Levels : InLevel(p, l)

TypeOK ==
  /\ state \in [Procs -> {UNUSED, RUNNABLE, RUNNING}]
  /\ priority \in [Procs -> PRIORITY_MIN .. PRIORITY_MAX]
  /\ policy \in [Procs -> Policies]
  /\ queue_level \in [Procs -> Levels]
  /\ time_slice \in [Procs -> Nat]
  /\ context \in [Procs -> Contexts]
  /\ ready_queues \in [Levels -> Seq(Slots)]
  /\ rt_queue \in Seq(Slots)
  /\ current \in Procs \cup {NULL}
  /\ global_ticks \in 0 .. AgingPeriod - 1
  /\ sie \in BOOLEAN
  /\ trapped \in Procs \cup {NULL}
  /\ held \subseteq Slots

-----------------------------------------------------------------------------
(***************************************************************************)
(* Safety.                                                                 *)
(***************************************************************************)

\* No process is in a queue twice.  mlfq_enqueue and rt_enqueue do not look
\* for duplicates; a process queued twice would be dispatched while it runs
\* and would in time fill a ring, whose overflow is silent.
QueuesDistinct ==
  /\ Distinct(rt_queue)
  /\ \A l \in Levels : Distinct(ready_queues[l])

\* A queued process is ready: RUNNABLE, not on the CPU, and no longer in the
\* hands of its creator (so process_free cannot pull it away).
QueuedIsReady ==
  \A p \in Slots : Queued(p) =>
    state[p] = RUNNABLE /\ p # current /\ p \notin held

\* Every queued process is in the queue sched_add would choose for it now:
\* real-time policies in rt_queue, SCHED_NORMAL at its queue_level.  With
\* QueuesDistinct: a process is in at most one place of all queues.
Routed ==
  /\ \A p \in Slots : InRt(p) => policy[p] \in {"SCHED_FIFO", "SCHED_RR"}
  /\ \A p \in Slots, l \in Levels :
       InLevel(p, l) => policy[p] = "SCHED_NORMAL" /\ queue_level[p] = l

Added(p) == state[p] # UNUSED /\ p \notin held

\* sched_add, context_switch and aging lose no process: one that was added
\* runs or waits in a queue, unless it was added as SCHED_IDLE, or is a
\* SCHED_FIFO process that yielded (context_switch requeues neither).
NoProcessLost ==
  \A p \in Slots : Added(p) =>
    \/ Queued(p)
    \/ current = p
    \/ policy[p] = "SCHED_IDLE" /\ state[p] = RUNNABLE
    \/ policy[p] = "SCHED_FIFO" /\ state[p] = RUNNING /\ context[p] = "yield"

\* The process on the CPU is RUNNING, and nothing else is, but for the
\* SCHED_FIFO processes that yielded.
OneRunning ==
  /\ current # NULL => state[current] = RUNNING
  /\ \A p \in Procs : state[p] = RUNNING =>
       p = current \/ (p \in Slots /\ policy[p] = "SCHED_FIFO")

Sorted(q) ==
  \A i, j \in 1 .. Len(q) : i < j => priority[q[i]] <= priority[q[j]]

\* The real-time queue is sorted by priority, so rt_dequeue takes a process
\* of the highest priority.
RtSorted == Sorted(rt_queue)

\* A SCHED_NORMAL process on the CPU has ticks left, at most its level's: it
\* is refilled at every dispatch and switched out at the tick that uses the
\* slice up.
RunnerHasSlice ==
  current \in Slots /\ policy[current] = "SCHED_NORMAL" =>
    time_slice[current] \in 1 .. queue_time_slices[queue_level[current]]

Suspended(p) == p # current /\ context[p] = "tick"

\* A process suspended inside sched_tick will return through the sret of
\* trap_entry, which uses sepc and sscratch.  These registers are not part of
\* a context_t; they are still its own because no trap is taken until it has
\* returned.  In particular at most one process is suspended in sched_tick.
TrapStateIntact == \A p \in Procs : Suspended(p) => ~sie /\ trapped = p

Before(q, a, b) ==
  \E i, j \in 1 .. Len(q) : i < j /\ q[i] = a /\ q[j] = b

\* Processes in one queue do not overtake each other: two that wait in the
\* same queue before and after a step keep their order, aging included.
OrderKept ==
  \A a, b \in Slots :
    /\ Before(rt_queue, a, b) => ~Before(rt_queue', b, a)
    /\ \A l \in Levels : Before(ready_queues[l], a, b) =>
         \A m \in Levels : ~Before(ready_queues'[m], b, a)

\* No step of the scheduler lets a process overtake another.
NoOvertaking == [][OrderKept]_vars

\* A process that enters a queue has its turn after those that wait there: in
\* the real-time queue after all of its priority, in a ring after all.
TurnStep ==
  \A p \in Slots : ~Queued(p) => \A q \in Slots :
    /\ InRt(q) /\ priority[q] <= priority[p] => ~Before(rt_queue', p, q)
    /\ \A l \in Levels : InLevel(q, l) => ~Before(ready_queues'[l], p, q)

\* Every step that queues a process, new, yielding or preempted, does it so.
\* With NoOvertaking: between two turns of a process, each that waits with it
\* in that queue has one.
TakesTurns == [][TurnStep]_vars

\* The level of a process the scheduler has changes in two ways only: up by
\* one for the process that loses the CPU at a tick, and to 0 when the tick
\* counter is at a multiple of the aging period.  A process that yields keeps
\* its level.
LevelStep ==
  \A p \in Slots : Added(p) /\ queue_level'[p] # queue_level[p] =>
    \/ queue_level'[p] = queue_level[p] + 1 /\ p = current
         /\ time_slice[p] = 1 /\ context'[p] = "tick"
    \/ queue_level'[p] = 0 /\ global_ticks' = 0 /\ p # current'

\* Every step changes the levels in these two ways, or not at all.
LevelSteps == [][LevelStep]_vars

-----------------------------------------------------------------------------
(***************************************************************************)
(* Dispatch is what remains without the queues: ready are the processes in *)
(* any of the five, and gone those that were added and are in none.        *)
(***************************************************************************)
ReadySet == {p \in Slots : Queued(p)}
RealTimeSet == {p \in Slots : Added(p) /\ policy[p] \in {"SCHED_FIFO", "SCHED_RR"}}
GoneSet == {p \in Slots : Added(p) /\ ~Queued(p) /\ p # current}

Dispatcher == INSTANCE Dispatch WITH
  Processes <- Slots, running <- current, ready <- ReadySet,
  realtime <- RealTimeSet, gone <- GoneSet

\* sched_add, context_switch and sched_tick pass the CPU as Dispatch says:
\* every step dispatches one process that was ready, a real-time one if there
\* is any, puts the old one back unless it is a real-time process, and changes
\* the set of ready processes in no other way, whatever demotion and aging do.
ImplementsDispatch == Dispatcher!Spec

-----------------------------------------------------------------------------
(***************************************************************************)
(* Liveness.  The timer, once armed, interrupts whenever SIE allows it.    *)
(* Nothing else is assumed: no process has to call sched_yield.            *)
(***************************************************************************)
FairSpec == Spec /\ WF_vars(sched_tick)

\* While interrupts are on, a SCHED_NORMAL or SCHED_RR process that never
\* yields does not keep the CPU from those that wait: sched_tick passes it to
\* one of them.  (After a switch inside sched_tick interrupts stay off until a
\* process preempted there is resumed, and nothing of this kind holds.)
TimerPreempts ==
  \A p \in Slots :
    /\ current = p /\ policy[p] \in {"SCHED_NORMAL", "SCHED_RR"} /\ sie
    /\ \E q \in Slots : Queued(q)
    ~> current \in Slots \ {p}

-----------------------------------------------------------------------------
(***************************************************************************)
(* What comments and documents say of the scheduler and the code does not  *)
(* do; each is refuted by a run of its own.                                *)
(***************************************************************************)

\* All that could be asked of the processes in favour of the claim below: each
\* one calls sched_yield in the end, and the boot thread calls scheduler.
\* Nothing is asked of the idle process, which sched_tick does not preempt.
YieldingSpec ==
  /\ FairSpec
  /\ WF_vars(scheduler)
  /\ WF_vars(current # Idle /\ sched_yield)

\* "Aging mechanism: periodically boost all processes back to highest queue.
\* This prevents starvation" (scheduler.c): a waiting SCHED_NORMAL process
\* runs in the end, in a system without real-time processes, unless the idle
\* process has the CPU.
AgingPreventsStarvation ==
  \A p \in Slots :
    (\E l \in Levels : InLevel(p, l)) /\ current # Idle ~> current = p

\* "Runs only when no other processes are ready" (docs/SCHEDULER.md, of the
\* idle process): no tick gives it the CPU while a process is queued.
IdleOnlyWhenNoneReady ==
  [][TickPreempts /\ current' = Idle =>
       \A p \in Slots : ~Queued(p)']_vars

=============================================================================
