---------------------------- MODULE MCScheduler ----------------------------
(***************************************************************************)
(* Small instances of Scheduler for TLC.  Priorities 0..5 stand for 0..139 *)
(* (0 and 1 real-time, 2..5 one per queue level); a process runs for two   *)
(* ticks at level 1 and for one at the others.                             *)
(***************************************************************************)
EXTENDS Scheduler

MCSlices == [l \in 0 .. 3 |-> IF l = 1 THEN 2 ELSE 1]

=============================================================================
