--------------------------- MODULE TrapFrameProofs ---------------------------
(***************************************************************************)
(* What trap_entry and swtch do preserve, for every number of processes.   *)
(* The inductive invariant says where the registers of every thread are:   *)
(* in the CPU, in its context_t, or half of them in the frame of a trap    *)
(* and half in sepc and sscratch, which one thread at a time can use.      *)
(***************************************************************************)
EXTENDS TrapFrame, TLAPS

\* Functions have their domains, and threads their own stacks.
Shape ==
  /\ current \in Threads
  /\ sie \in BOOLEAN
  /\ DOMAIN left = Threads
  /\ DOMAIN context = Procs
  /\ DOMAIN frame = Threads \X Depths
  /\ \A th \in Threads : left[th].sp \in Threads \X Depths /\ left[th].sp[1] = th

\* The thread is in a trap: its s is in the frame, its pc and sp in sepc and
\* sscratch, and no interrupt can overwrite them.
TrapHolds(th) ==
  /\ frame[left[th].sp].ra = TrapEntry
  /\ frame[left[th].sp].s = left[th].s
  /\ sepc = OwnCode(th)
  /\ sscratch = left[th].sp
  /\ sie = FALSE

\* The CPU executes own code or the trap of current, or is lost.
OnCpu ==
  \/ pc = OwnCode(current) /\ reg.sp = left[current].sp /\ reg.s = left[current].s
  \/ InTrap /\ reg.sp = left[current].sp /\ TrapHolds(current)
  \/ pc \in {Panic, Zero}

\* A process that was not dispatched yet, called swtch itself, or had swtch
\* called by sched_tick.
Waiting(p) ==
  \/ context[p] = Zeros
  \/ /\ context[p].ra = OwnCode(p)
     /\ context[p].sp = left[p].sp
     /\ context[p].s = left[p].s
  \/ /\ context[p].ra = Resumed
     /\ context[p].sp = left[p].sp
     /\ TrapHolds(p)

IInv == Shape /\ OnCpu /\ \A p \in Procs : p # current => Waiting(p)

LEMMA Places ==
  /\ \A th, u : OwnCode(th) = OwnCode(u) => th = u
  /\ \A th : /\ OwnCode(th) # Handler /\ OwnCode(th) # Resumed
             /\ OwnCode(th) # Panic /\ OwnCode(th) # Zero
             /\ OwnCode(th)[1] = "own" /\ OwnCode(th)[2] = th
  /\ Handler[1] # "own" /\ Resumed[1] # "own" /\ Panic[1] # "own" /\ Zero[1] # "own"
  /\ Resumed # Zero /\ Resumed # Panic /\ Handler # Zero /\ Handler # Panic
  /\ Handler # Resumed
  BY DEF OwnCode, Handler, Resumed, Panic, Zero

LEMMA ProcsAreThreads == Procs = Threads \ {NULL} /\ NULL \notin Procs
  BY DEF Procs, Threads, NULL

\* Own code is that of current, with sp and s in place.
LEMMA OwnMeans ==
  ASSUME IInv, Own
  PROVE  pc = OwnCode(current) /\ reg.sp = left[current].sp
         /\ reg.s = left[current].s /\ Self = current
  BY Places DEF IInv, OnCpu, Own, InTrap, Self

LEMMA InitIInv == Init => IInv
<1> SUFFICES ASSUME Init PROVE IInv
  OBVIOUS
<1> USE ProcsAreThreads
<1>1. NULL \in Threads
  BY DEF Init, Threads, NULL
<1>2. Shape
  BY <1>1 DEF Init, Shape
<1>3. OnCpu
  BY DEF Init, OnCpu
<1>4. ASSUME NEW p \in Procs PROVE Waiting(p)
  BY DEF Init, Waiting, Entry
<1> QED BY <1>2, <1>3, <1>4 DEF IInv

\* The thread that runs may change its own registers.
LEMMA ComputeIInv ==
  ASSUME IInv, NEW ra, NEW d \in Depths, NEW s, NEW t, Compute(ra, d, s, t)
  PROVE  IInv'
<1>1. pc = OwnCode(current) /\ Self = current /\ current \in Threads
  BY OwnMeans DEF Compute, IInv, Shape
<1>2. /\ reg' = [ra |-> ra, sp |-> <<current, d>>, s |-> s, t |-> t]
      /\ left' = [left EXCEPT ![current] = reg']
      /\ UNCHANGED <<pc, sie, scause, sepc, sscratch, frame, context, current>>
  BY <1>1 DEF Compute, trapregs
<1>3. Shape'
  BY <1>1, <1>2 DEF IInv, Shape
<1>4. OnCpu'
  BY <1>1, <1>2 DEF IInv, Shape, OnCpu
<1>5. ASSUME NEW p \in Procs, p # current' PROVE Waiting(p)'
  <2>1. p \in Threads /\ left'[p] = left[p]
    BY <1>2, <1>5, ProcsAreThreads DEF IInv, Shape
  <2> QED BY <1>2, <1>5, <2>1 DEF IInv, Waiting, TrapHolds
<1> QED BY <1>3, <1>4, <1>5 DEF IInv

\* A switch saves the registers of the old process and takes up those of the
\* new one; ra is where the old one continues.
LEMMA SwtchIInv ==
  ASSUME IInv, NEW new \in Procs, new # current, NEW ra, swtch(new, ra),
         UNCHANGED <<sie, sepc, sscratch, frame>>,
         reg.sp = left[current].sp,
         \/ ra = OwnCode(current) /\ reg.s = left[current].s
         \/ ra = Resumed /\ TrapHolds(current)
  PROVE  IInv'
<1> DEFINE c == context[new]
<1>1. /\ new \in Threads /\ current \in Threads /\ Waiting(new)
      /\ context' = [p \in Procs |-> IF p = current THEN Saved(ra) ELSE context[p]]
      /\ reg' = Loaded(c) /\ pc' = c.ra /\ current' = new
      /\ left' = [th \in Threads |->
                    IF c.ra = OwnCode(th)
                    THEN [ra |-> c.ra, sp |-> left[th].sp, s |-> left[th].s,
                          t |-> reg.t]
                    ELSE left[th]]
  BY ProcsAreThreads DEF IInv, Shape, swtch
<1> HIDE DEF c
<1>2. \A th \in Threads : left'[th].sp = left[th].sp /\ left'[th].s = left[th].s
  BY <1>1
<1>3. Shape'
  BY <1>1, <1>2 DEF IInv, Shape
<1>4. \A th \in Threads : TrapHolds(th)' = TrapHolds(th)
  BY <1>2 DEF TrapHolds
<1>5. OnCpu'
  <2>1. CASE c = Zeros
    BY <2>1, <1>1 DEF OnCpu, Zeros
  <2>2. CASE c.ra = OwnCode(new) /\ c.sp = left[new].sp /\ c.s = left[new].s
    BY <2>2, <1>1, <1>2 DEF OnCpu, Loaded
  <2>3. CASE c.ra = Resumed /\ c.sp = left[new].sp /\ TrapHolds(new)
    BY <2>3, <1>1, <1>2, <1>4 DEF OnCpu, Loaded, InTrap
  <2> QED BY <2>1, <2>2, <2>3, <1>1 DEF Waiting, c
<1>6. ASSUME NEW p \in Procs, p # current' PROVE Waiting(p)'
  <2>0. p \in Threads
    BY ProcsAreThreads
  <2>1. CASE p = current
    <3>1. context'[p] = Saved(ra)
      BY <2>1, <1>1
    <3> QED BY <3>1, <2>0, <2>1, <1>2, <1>4 DEF Waiting, Saved
  <2>2. CASE p # current
    <3>1. context'[p] = context[p] /\ Waiting(p)
      BY <2>2, <1>1 DEF IInv
    <3> QED BY <3>1, <2>0, <1>2, <1>4 DEF Waiting
  <2> QED BY <2>1, <2>2
<1> QED BY <1>3, <1>5, <1>6 DEF IInv

\* An interrupt is taken only while nobody is suspended in a trap.
LEMMA TrapEntryIInv ==
  ASSUME IInv, NEW cause, NEW ra, NEW s, NEW t, trap_entry(cause, ra, s, t)
  PROVE  IInv'
<1>1. /\ pc = OwnCode(current) /\ reg.sp = left[current].sp
      /\ reg.s = left[current].s /\ current \in Threads
  BY OwnMeans DEF trap_entry, IInv, Shape
<1>2. /\ sie = TRUE /\ sie' = FALSE /\ sepc' = pc /\ sscratch' = reg.sp
      /\ frame' = [frame EXCEPT ![reg.sp] = [ra |-> TrapEntry, s |-> reg.s]]
      /\ reg' = [ra |-> ra, sp |-> reg.sp, s |-> s, t |-> t]
      /\ pc' = Handler
      /\ UNCHANGED <<context, current, left>>
  BY DEF trap_entry, IInv, Shape
<1>3. reg.sp \in DOMAIN frame
  BY <1>1 DEF IInv, Shape
<1>4. Shape'
  BY <1>2 DEF IInv, Shape
<1>5. TrapHolds(current)'
  BY <1>1, <1>2, <1>3 DEF TrapHolds
<1>6. OnCpu'
  BY <1>1, <1>2, <1>5 DEF OnCpu, InTrap
<1>7. ASSUME NEW p \in Procs, p # current' PROVE Waiting(p)'
  <2>1. Waiting(p) /\ ~TrapHolds(p)
    BY <1>2, <1>7 DEF IInv, TrapHolds
  <2> QED BY <2>1, <1>2 DEF Waiting
<1> QED BY <1>4, <1>6, <1>7 DEF IInv

\* Interrupts are enabled again when the one thread in a trap has left it.
LEMMA TrapReturnIInv ==
  ASSUME IInv, TrapReturn
  PROVE  IInv'
<1>1. /\ pc \in {Handler, Resumed} /\ pc' = sepc /\ sie' = TRUE
      /\ reg' = [ra |-> frame[reg.sp].ra, sp |-> sscratch, s |-> frame[reg.sp].s,
                 t |-> reg.t]
      /\ UNCHANGED <<sepc, sscratch, frame, context, current, left>>
  BY DEF TrapReturn, trapregs
<1>2. reg.sp = left[current].sp /\ TrapHolds(current) /\ current \in Threads
  BY <1>1, Places DEF IInv, OnCpu, Shape
<1>3. Shape'
  BY <1>1 DEF IInv, Shape
<1>4. OnCpu'
  BY <1>1, <1>2 DEF OnCpu, TrapHolds
<1>5. ASSUME NEW p \in Procs, p # current' PROVE Waiting(p)'
  <2>1. Waiting(p) /\ ~TrapHolds(p)
    BY <1>1, <1>2, <1>5, Places DEF IInv, TrapHolds
  <2> QED BY <2>1, <1>1 DEF Waiting
<1> QED BY <1>3, <1>4, <1>5 DEF IInv

LEMMA NextIInv == IInv /\ [Next]_vars => IInv'
<1> SUFFICES ASSUME IInv, [Next]_vars PROVE IInv'
  OBVIOUS
<1>1. CASE \E ra, s, t \in Values, d \in Depths : Compute(ra, d, s, t)
  BY <1>1, ComputeIInv
<1>2. CASE \E ra, s, t \in Values, cause \in Interrupts : trap_entry(cause, ra, s, t)
  BY <1>2, TrapEntryIInv
<1>3. ASSUME NEW new \in Procs, context_switch(new) PROVE IInv'
  <2>1. pc = OwnCode(current) /\ reg.sp = left[current].sp /\ reg.s = left[current].s
    BY <1>3, OwnMeans DEF context_switch
  <2>2. /\ new # current /\ swtch(new, pc)
        /\ UNCHANGED <<sie, sepc, sscratch, frame>>
    BY <1>3 DEF context_switch, trapregs
  <2> QED BY <2>1, <2>2, SwtchIInv
<1>4. ASSUME NEW new \in Procs, sched_tick(new) PROVE IInv'
  <2>1. reg.sp = left[current].sp /\ TrapHolds(current)
    BY <1>4, Places DEF sched_tick, IInv, OnCpu
  <2>2. /\ new # current /\ swtch(new, Resumed)
        /\ UNCHANGED <<sie, sepc, sscratch, frame>>
    BY <1>4 DEF sched_tick, trapregs
  <2> QED BY <2>1, <2>2, SwtchIInv
<1>5. CASE Exception
  <2>1. UNCHANGED <<sie, sepc, sscratch, frame, context, current, left>> /\ pc' = Panic
    BY <1>5 DEF Exception, trapregs
  <2> QED BY <2>1 DEF IInv, Shape, OnCpu, Waiting, TrapHolds
<1>6. CASE TrapReturn
  BY <1>6, TrapReturnIInv
<1>7. CASE UNCHANGED vars
  BY <1>7 DEF vars, IInv, Shape, OnCpu, Waiting, TrapHolds, InTrap
<1> QED BY <1>1, <1>2, <1>3, <1>4, <1>5, <1>6, <1>7 DEF Next

\* Interrupts, traps and switches keep IInv.
THEOREM TrapFrameIInv == Spec => []IInv
  BY InitIInv, NextIInv, PTL DEF Spec

\* swtch and trap_entry give every thread its sp and s0 to s11 back, for any
\* number of processes and however traps and switches are nested.
THEOREM CalleeSavedSafe == Spec => []CalleeSavedIntact
<1>1. IInv => CalleeSavedIntact
  BY OwnMeans DEF CalleeSavedIntact, IInv, Shape
<1> QED BY <1>1, TrapFrameIInv, PTL

\* Every trap ends in trap_entry and in the own code of the thread it
\* interrupted, although sepc and sscratch are saved nowhere.
THEOREM TrapReturnsSafe == Spec => []TrapReturnsHome
<1>1. ASSUME IInv PROVE InTrap => /\ frame[reg.sp].ra = TrapEntry
                                  /\ sepc = OwnCode(current)
                                  /\ sscratch = left[current].sp
  BY <1>1, Places DEF IInv, OnCpu, InTrap, TrapHolds
<1>2. IInv => TrapReturnsHome
  BY <1>1, OwnMeans DEF TrapReturnsHome
<1> QED BY <1>2, TrapFrameIInv, PTL

=============================================================================
