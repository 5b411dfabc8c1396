------------------------------ MODULE Dispatch ------------------------------
(***************************************************************************)
(* What the scheduler promises the threads of the kernel, without its      *)
(* queues, levels, slices and ticks: one process runs, a set of processes  *)
(* is ready, and the CPU passes from one to another.                       *)
(***************************************************************************)
CONSTANTS
  Processes,
  Idle,
  NULL

VARIABLES
  running,   \* NULL before the first switch
  ready,     \* processes that wait for the CPU
  realtime,  \* processes that were added as real-time processes
  gone       \* processes that were added and never get the CPU (again)

vars == <<running, ready, realtime, gone>>

Known == ready \cup gone \cup {running}

Init == running = NULL /\ ready = {} /\ realtime = {} /\ gone = {}

\* A new process is made ready; the scheduler keeps no queue for processes
\* that are neither real-time nor normal.
Add(p) ==
  /\ UNCHANGED running
  /\ p \notin Known
  /\ \/ /\ ready' = ready \cup {p}
        /\ realtime' \in {realtime, realtime \cup {p}}
        /\ gone' = gone
     \/ /\ gone' = gone \cup {p}
        /\ UNCHANGED <<ready, realtime>>

\* Real-time processes go first, and the idle process runs when nobody else
\* was ready before the switch.
Candidates ==
  IF ready = {} THEN {Idle}
  ELSE IF ready \cap realtime # {} THEN ready \cap realtime
  ELSE ready

\* The old process becomes ready again, but a real-time one may be forgotten.
Switch ==
  /\ running' \in Candidates
  /\ LET left == ready \ {running'}
         old == {running} \ {Idle, NULL}
     IN \/ ready' = left \cup old /\ gone' = gone
        \/ old \subseteq realtime /\ ready' = left /\ gone' = gone \cup old
  /\ UNCHANGED realtime

Next == (\E p \in Processes : Add(p)) \/ Switch

Spec == Init /\ [][Next]_vars

=============================================================================
