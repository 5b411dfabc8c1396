-------------------------- MODULE ReadyRingProofs --------------------------
(***************************************************************************)
(* The ring buffer of a scheduling level implements a bounded FIFO queue,  *)
(* for any number of slots and any set of processes.                       *)
(***************************************************************************)
EXTENDS ReadyRing, TLAPS, SequenceTheorems

\* The remainder of a position at most one turn ahead.
LEMMA Wrap ==
  ASSUME NEW x \in 0 .. 2 * MAX_PROCESSES - 1
  PROVE  x % MAX_PROCESSES =
           IF x < MAX_PROCESSES THEN x ELSE x - MAX_PROCESSES
<1>0. MAX_PROCESSES \in Nat /\ MAX_PROCESSES > 0
  BY RingAssumption
<1>1. CASE x < MAX_PROCESSES
  BY <1>0, <1>1
<1>2. CASE x >= MAX_PROCESSES
  <2>1. x - MAX_PROCESSES \in 0 .. MAX_PROCESSES - 1
    BY <1>0, <1>2
  <2>2. (x - MAX_PROCESSES) % MAX_PROCESSES = x - MAX_PROCESSES
    BY <1>0, <2>1
  <2>3. x % MAX_PROCESSES = (x - MAX_PROCESSES) % MAX_PROCESSES
    BY <1>0, <1>2
  <2> QED BY <1>0, <1>2, <2>2, <2>3
<1> QED BY <1>0, <1>1, <1>2

-----------------------------------------------------------------------------
\* The strengthening that is inductive: types and the window.
IInv == TypeOK /\ WindowSound

\* Positions of a ring whose window starts at h: in range, distinct within
\* one turn, and shifted by one when the head advances.
LEMMA Positions ==
  ASSUME NEW h \in Slots
  PROVE  /\ \A i \in 0 .. MAX_PROCESSES : (h + i) % MAX_PROCESSES \in Slots
         /\ \A i, j \in 0 .. MAX_PROCESSES - 1 :
              i # j => (h + i) % MAX_PROCESSES # (h + j) % MAX_PROCESSES
         /\ h % MAX_PROCESSES = h
         /\ Advance(h) \in Slots
         /\ \A i \in 0 .. MAX_PROCESSES - 1 :
              (Advance(h) + i) % MAX_PROCESSES = (h + (i + 1)) % MAX_PROCESSES
         /\ \A i \in 0 .. MAX_PROCESSES - 1 :
              Advance((h + i) % MAX_PROCESSES) = (h + (i + 1)) % MAX_PROCESSES
<1> DEFINE N == MAX_PROCESSES
<1>0. N \in Nat /\ N > 0 /\ h \in Nat /\ h < N
  BY RingAssumption DEF Slots
<1>w. \A x \in 0 .. 2 * N - 1 : x % N = IF x < N THEN x ELSE x - N
  BY Wrap
<1>a. \A i \in Slots : Advance(i) = IF i + 1 < N THEN i + 1 ELSE 0
  <2> TAKE i \in Slots
  <2>1. i + 1 \in 0 .. 2 * N - 1 /\ i + 1 <= N
    BY <1>0 DEF Slots
  <2>2. (i + 1) % N = IF i + 1 < N THEN i + 1 ELSE (i + 1) - N
    BY <1>w, <2>1
  <2> QED BY <1>0, <2>1, <2>2 DEF Advance, Slots
<1>b. \A i \in 0 .. N : h + i \in 0 .. 2 * N - 1
  BY <1>0
<1>c. \A i \in 0 .. N : (h + i) % N = IF h + i < N THEN h + i ELSE h + i - N
  <2> TAKE i \in 0 .. N
  <2> DEFINE x == h + i
  <2>1. x \in 0 .. 2 * N - 1
    BY <1>b
  <2> HIDE DEF x
  <2>2. x % N = IF x < N THEN x ELSE x - N
    BY <2>1, <1>w
  <2> QED BY <1>0, <2>2 DEF x
<1> HIDE DEF N
<1>1. \A i \in 0 .. N : (h + i) % N \in Slots
  <2> SUFFICES \A i \in 0 .. N : (h + i) % N \in 0 .. N - 1
    BY DEF Slots, N
  <2> QED BY <1>0, <1>c
<1>2. \A i, j \in 0 .. N - 1 : i # j => (h + i) % N # (h + j) % N
  BY <1>0, <1>c
<1>3. h % N = h
  <2>1. h \in 0 .. 2 * N - 1
    BY <1>0
  <2> QED BY <1>0, <1>w, <2>1
<1>4. Advance(h) \in Slots
  <2>1. Advance(h) \in 0 .. N - 1
    BY <1>0, <1>a
  <2> QED BY <2>1 DEF Slots, N
<1>5. \A i \in 0 .. N - 1 : (Advance(h) + i) % N = (h + (i + 1)) % N
  <2> TAKE i \in 0 .. N - 1
  <2>1. i + 1 \in 0 .. N /\ i \in 0 .. N
    BY <1>0
  <2>2. (h + (i + 1)) % N = IF h + i + 1 < N THEN h + i + 1 ELSE h + i + 1 - N
    BY <1>0, <1>c, <2>1
  <2>3. CASE h + 1 < N
    <3>1. Advance(h) = h + 1
      BY <1>0, <1>a, <2>3
    <3> DEFINE x == Advance(h) + i
    <3>2. x = h + i + 1 /\ x \in 0 .. 2 * N - 1
      BY <1>0, <2>1, <2>3, <3>1
    <3> HIDE DEF x
    <3>3. x % N = IF x < N THEN x ELSE x - N
      BY <1>w, <3>2
    <3>4. x % N = (h + (i + 1)) % N
      BY <1>0, <2>1, <2>2, <3>2, <3>3
    <3> QED BY <3>4 DEF x
  <2>4. CASE h + 1 >= N
    <3>1. Advance(h) = 0
      BY <1>0, <1>a, <2>4
    <3> DEFINE x == Advance(h) + i
    <3>2. x = i /\ x \in 0 .. 2 * N - 1
      BY <1>0, <2>1, <3>1
    <3> HIDE DEF x
    <3>3. x % N = IF x < N THEN x ELSE x - N
      BY <1>w, <3>2
    <3>4. x % N = (h + (i + 1)) % N
      BY <1>0, <2>1, <2>2, <2>4, <3>2, <3>3
    <3> QED BY <3>4 DEF x
  <2> QED BY <1>0, <2>3, <2>4
<1>6. \A i \in 0 .. N - 1 : Advance((h + i) % N) = (h + (i + 1)) % N
  <2> TAKE i \in 0 .. N - 1
  <2>1. i + 1 \in 0 .. N /\ i \in 0 .. N
    BY <1>0
  <2>2. (h + i) % N \in Slots
    BY <1>1, <2>1
  <2>3. Advance((h + i) % N) =
          IF ((h + i) % N) + 1 < N THEN ((h + i) % N) + 1 ELSE 0
    BY <1>a, <2>2
  <2>4. (h + i) % N = IF h + i < N THEN h + i ELSE h + i - N
    BY <1>c, <2>1
  <2>5. (h + (i + 1)) % N =
          IF h + (i + 1) < N THEN h + (i + 1) ELSE h + (i + 1) - N
    BY <1>c, <2>1
  <2> DEFINE y == (h + i) % N
             z == (h + (i + 1)) % N
  <2> HIDE DEF y, z
  <2>6. /\ y = IF h + i < N THEN h + i ELSE h + i - N
        /\ z = IF h + (i + 1) < N THEN h + (i + 1) ELSE h + (i + 1) - N
        /\ Advance(y) = IF y + 1 < N THEN y + 1 ELSE 0
    BY <2>3, <2>4, <2>5 DEF y, z
  <2>7. Advance(y) = z
    BY <1>0, <2>1, <2>6
  <2> QED BY <2>7 DEF y, z
<1> QED BY <1>1, <1>2, <1>3, <1>4, <1>5, <1>6 DEF N

\* One step of mlfq_enqueue on a ring that is not full.
LEMMA EnqueueStep ==
  ASSUME IInv, NEW p \in Processes, ~Full, mlfq_enqueue(p)
  PROVE  IInv' /\ Items' = Append(Items, p) /\ proc' = proc /\ Len(Items) = size
<1> DEFINE N == MAX_PROCESSES
<1>0. /\ N \in Nat /\ N > 0 /\ size \in Nat /\ size < N
      /\ head \in Slots /\ tail \in Slots /\ tail = (head + size) % N
      /\ queue \in [Slots -> Processes \cup {NULL}]
      /\ \A i \in 0 .. size - 1 : queue[(head + i) % N] \in Processes
  BY RingAssumption DEF IInv, TypeOK, WindowSound, Full
<1>1. /\ queue' = [queue EXCEPT ![tail] = p]
      /\ tail' = Advance(tail)
      /\ size' = size + 1
      /\ head' = head /\ proc' = proc
  BY DEF mlfq_enqueue
<1>2. /\ \A i \in 0 .. N : (head + i) % N \in Slots
      /\ \A i, j \in 0 .. N - 1 : i # j => (head + i) % N # (head + j) % N
      /\ \A i \in 0 .. N - 1 :
           Advance((head + i) % N) = (head + (i + 1)) % N
  BY <1>0, Positions
<1> HIDE DEF N
<1>3. size \in 0 .. N - 1
  BY <1>0
<1>4. tail' = (head + (size + 1)) % N
  BY <1>0, <1>1, <1>2, <1>3
<1>5. tail' \in Slots
  <2>1. size + 1 \in 0 .. N
    BY <1>0
  <2> QED BY <1>2, <1>4, <2>1
<1>6. \A i \in 0 .. size - 1 :
        queue'[(head + i) % N] = queue[(head + i) % N]
  <2> TAKE i \in 0 .. size - 1
  <2>1. i \in 0 .. N - 1 /\ i # size /\ i \in 0 .. N
    BY <1>0
  <2>2. (head + i) % N # tail /\ (head + i) % N \in Slots
    BY <1>0, <1>2, <1>3, <2>1
  <2> QED BY <1>0, <1>1, <2>2
<1>7. queue'[(head + size) % N] = p
  BY <1>0, <1>1
<1>8. TypeOK'
  <2>1. size' \in 0 .. N
    BY <1>0, <1>1
  <2>2. queue' \in [Slots -> Processes \cup {NULL}]
    BY <1>0, <1>1
  <2>3. proc \in Processes \cup {NULL}
    BY DEF IInv, TypeOK
  <2> QED BY <1>0, <1>1, <1>5, <2>1, <2>2, <2>3 DEF TypeOK, N
<1>9. WindowSound'
  <2>1. tail' = (head' + size') % N
    BY <1>1, <1>4
  <2>2. ASSUME NEW i \in 0 .. size' - 1
        PROVE  queue'[(head' + i) % N] \in Processes
    <3>1. i \in 0 .. size - 1 \/ i = size
      BY <1>0, <1>1
    <3> QED BY <1>0, <1>1, <1>6, <1>7, <3>1
  <2> QED BY <2>1, <2>2 DEF WindowSound, N
<1>10. Items \in Seq(Processes) /\ Len(Items) = size
  <2>1. Items = [i \in 1 .. size |-> queue[(head + i - 1) % N]]
    BY DEF Items, N
  <2>2. ASSUME NEW i \in 1 .. size
        PROVE  queue[(head + i - 1) % N] \in Processes
    <3>1. i - 1 \in 0 .. size - 1 /\ head + i - 1 = head + (i - 1)
      BY <1>0 DEF Slots
    <3> QED BY <1>0, <3>1
  <2> QED BY <1>0, <2>1, <2>2
<1>11. Items' = Append(Items, p)
  <2>1. Items' = [i \in 1 .. size + 1 |-> queue'[(head + i - 1) % N]]
    BY <1>1 DEF Items, N
  <2>2. ASSUME NEW i \in 1 .. size + 1
        PROVE  queue'[(head + i - 1) % N] = IF i <= size THEN Items[i] ELSE p
    <3>1. head + i - 1 = head + (i - 1)
      BY <1>0 DEF Slots
    <3>2. CASE i <= size
      <4>1. i \in 1 .. size /\ i - 1 \in 0 .. size - 1
        BY <1>0, <3>2
      <4>2. Items[i] = queue[(head + i - 1) % N]
        BY <4>1 DEF Items, N
      <4> QED BY <1>6, <3>1, <3>2, <4>1, <4>2
    <3>3. CASE ~(i <= size)
      <4>1. i - 1 = size
        BY <1>0, <3>3
      <4> QED BY <1>7, <3>1, <3>3, <4>1
    <3> QED BY <3>2, <3>3
  <2>3. Append(Items, p) =
          [i \in 1 .. size + 1 |-> IF i <= size THEN Items[i] ELSE p]
    <3>1. /\ Append(Items, p) \in Seq(Processes)
          /\ Len(Append(Items, p)) = size + 1
          /\ \A i \in 1 .. size : Append(Items, p)[i] = Items[i]
          /\ Append(Items, p)[size + 1] = p
      BY <1>10, AppendProperties
    <3>2. \A i \in 1 .. size + 1 : ~(i <= size) => i = size + 1
      BY <1>0
    <3>3. \A i \in 1 .. size + 1 : i <= size => i \in 1 .. size
      BY <1>0
    <3> DEFINE A == Append(Items, p)
    <3> HIDE DEF A
    <3>4. A \in Seq(Processes) /\ Len(A) = size + 1
      BY <3>1 DEF A
    <3>5. A = [i \in 1 .. size + 1 |-> A[i]]
      BY <3>4
    <3>6. \A i \in 1 .. size + 1 : A[i] = IF i <= size THEN Items[i] ELSE p
      BY <3>1, <3>2, <3>3 DEF A
    <3>7. A = [i \in 1 .. size + 1 |-> IF i <= size THEN Items[i] ELSE p]
      BY <3>5, <3>6
    <3> QED BY <3>7 DEF A
  <2> QED BY <2>1, <2>2, <2>3
<1> QED BY <1>1, <1>8, <1>9, <1>10, <1>11 DEF IInv

\* One step of mlfq_dequeue on a ring that is not empty.
LEMMA DequeueStep ==
  ASSUME IInv, size # 0, mlfq_dequeue
  PROVE  IInv' /\ Items # <<>> /\ proc' = Head(Items) /\ Items' = Tail(Items)
<1> DEFINE N == MAX_PROCESSES
<1>0. /\ N \in Nat /\ N > 0 /\ size \in Nat /\ size > 0 /\ size <= N
      /\ head \in Slots /\ tail = (head + size) % N /\ tail \in Slots
      /\ queue \in [Slots -> Processes \cup {NULL}]
      /\ \A i \in 0 .. size - 1 : queue[(head + i) % N] \in Processes
  BY RingAssumption DEF IInv, TypeOK, WindowSound
<1>1. /\ proc' = queue[head]
      /\ head' = Advance(head)
      /\ size' = size - 1
      /\ queue' = queue /\ tail' = tail
  BY DEF mlfq_dequeue
<1>2. /\ head % N = head
      /\ Advance(head) \in Slots
      /\ \A i \in 0 .. N - 1 : (Advance(head) + i) % N = (head + (i + 1)) % N
  BY <1>0, Positions
<1> HIDE DEF N
<1>3. proc' \in Processes
  <2>1. 0 \in 0 .. size - 1 /\ head + 0 = head
    BY <1>0 DEF Slots
  <2>2. queue[(head + 0) % N] \in Processes
    BY <1>0, <2>1
  <2> QED BY <1>1, <1>2, <2>1, <2>2
<1>4. TypeOK'
  <2>1. size' \in 0 .. N
    BY <1>0, <1>1
  <2> QED BY <1>0, <1>1, <1>2, <1>3, <2>1 DEF TypeOK, N
<1>5. WindowSound'
  <2>1. tail' = (head' + size') % N
    <3>1. size - 1 \in 0 .. N - 1 /\ (size - 1) + 1 = size
      BY <1>0
    <3>2. (Advance(head) + (size - 1)) % N = (head + ((size - 1) + 1)) % N
      BY <1>2, <3>1
    <3> QED BY <1>0, <1>1, <3>1, <3>2
  <2>2. ASSUME NEW i \in 0 .. size' - 1
        PROVE  queue'[(head' + i) % N] \in Processes
    <3>1. i \in 0 .. N - 1 /\ i + 1 \in 0 .. size - 1
      BY <1>0, <1>1
    <3>2. (Advance(head) + i) % N = (head + (i + 1)) % N
      BY <1>2, <3>1
    <3> QED BY <1>0, <1>1, <3>1, <3>2
  <2> QED BY <2>1, <2>2 DEF WindowSound, N
<1>6. Items = [i \in 1 .. size |-> queue[(head + i - 1) % N]]
  BY DEF Items, N
<1>7. Items \in Seq(Processes) /\ Len(Items) = size
  <2>1. ASSUME NEW i \in 1 .. size
        PROVE  queue[(head + i - 1) % N] \in Processes
    <3>1. i - 1 \in 0 .. size - 1 /\ head + i - 1 = head + (i - 1)
      BY <1>0 DEF Slots
    <3> QED BY <1>0, <3>1
  <2> QED BY <1>0, <1>6, <2>1
<1>8. Items # <<>>
  BY <1>0, <1>7
<1>9. proc' = Head(Items)
  <2>1. Head(Items) = Items[1] /\ 1 \in 1 .. size
    BY <1>0, <1>7
  <2>2. Items[1] = queue[(head + 1 - 1) % N] /\ head + 1 - 1 = head
    BY <1>0, <1>6, <2>1 DEF Slots
  <2> QED BY <1>1, <1>2, <2>1, <2>2
<1>10. Items' = Tail(Items)
  <2>1. Items' = [i \in 1 .. size - 1 |-> queue[(Advance(head) + i - 1) % N]]
    BY <1>1 DEF Items, N
  <2>2. Tail(Items) = [i \in 1 .. size - 1 |-> Items[i + 1]]
    <3> DEFINE T == Tail(Items)
    <3>1. /\ T \in Seq(Processes) /\ Len(T) = size - 1
          /\ \A i \in 1 .. size - 1 : T[i] = Items[i + 1]
      BY <1>7, <1>8, HeadTailProperties
    <3> HIDE DEF T
    <3>2. T = [i \in 1 .. size - 1 |-> T[i]]
      BY <3>1
    <3>3. T = [i \in 1 .. size - 1 |-> Items[i + 1]]
      BY <3>1, <3>2
    <3> QED BY <3>3 DEF T
  <2>3. ASSUME NEW i \in 1 .. size - 1
        PROVE  queue[(Advance(head) + i - 1) % N] = Items[i + 1]
    <3>1. /\ i - 1 \in 0 .. N - 1 /\ i + 1 \in 1 .. size
          /\ Advance(head) + i - 1 = Advance(head) + (i - 1)
          /\ head + ((i - 1) + 1) = head + (i + 1) - 1
      BY <1>0, <1>2 DEF Slots
    <3>2. (Advance(head) + (i - 1)) % N = (head + ((i - 1) + 1)) % N
      BY <1>2, <3>1
    <3>3. Items[i + 1] = queue[(head + (i + 1) - 1) % N]
      BY <1>6, <3>1
    <3> QED BY <3>1, <3>2, <3>3
  <2> QED BY <2>1, <2>2, <2>3
<1> QED BY <1>4, <1>5, <1>8, <1>9, <1>10 DEF IInv

-----------------------------------------------------------------------------
\* The variables stay the same, or change by one of the two steps above.
LEMMA StepCases ==
  ASSUME IInv, [Next]_vars
  PROVE  IInv' /\ [FIFO!Next]_<<Items, proc>>
<1>1. CASE UNCHANGED vars
  BY <1>1 DEF vars, IInv, TypeOK, WindowSound, Items
<1>2. ASSUME NEW p \in Processes, mlfq_enqueue(p)
      PROVE  IInv' /\ [FIFO!Next]_<<Items, proc>>
  <2>1. CASE Full
    <3>1. UNCHANGED vars
      BY <1>2, <2>1 DEF mlfq_enqueue, vars
    <3> QED BY <3>1, <1>1
  <2>2. CASE ~Full
    <3>1. IInv' /\ Items' = Append(Items, p) /\ proc' = proc /\ Len(Items) = size
      BY <1>2, <2>2, EnqueueStep
    <3>2. Len(Items) < MAX_PROCESSES
      BY <2>2, <3>1, RingAssumption DEF Full, IInv, TypeOK
    <3>3. FIFO!Add(p)
      BY <3>1, <3>2 DEF FIFO!Add
    <3> QED BY <3>1, <3>3 DEF FIFO!Next
  <2> QED BY <2>1, <2>2
<1>3. CASE mlfq_dequeue
  <2>1. CASE size = 0
    <3>1. /\ proc' = NULL
          /\ queue' = queue /\ head' = head /\ tail' = tail /\ size' = size
      BY <1>3, <2>1 DEF mlfq_dequeue
    <3>2. IInv'
      BY <3>1 DEF IInv, TypeOK, WindowSound
    <3>3. Items' = Items
      BY <3>1 DEF Items
    <3>4. Items = <<>>
      BY <2>1 DEF Items
    <3>5. FIFO!Remove
      BY <3>1, <3>3, <3>4 DEF FIFO!Remove
    <3> QED BY <3>2, <3>5 DEF FIFO!Next
  <2>2. CASE size # 0
    <3>1. IInv' /\ Items # <<>> /\ proc' = Head(Items) /\ Items' = Tail(Items)
      BY <1>3, <2>2, DequeueStep
    <3>2. FIFO!Remove
      BY <3>1 DEF FIFO!Remove
    <3> QED BY <3>1, <3>2 DEF FIFO!Next
  <2> QED BY <2>1, <2>2
<1> QED BY <1>1, <1>2, <1>3 DEF Next

LEMMA InitCases == Init => IInv /\ FIFO!Init
<1> SUFFICES ASSUME Init PROVE IInv /\ FIFO!Init
  OBVIOUS
<1>1. TypeOK
  BY RingAssumption DEF Init, TypeOK, Slots
<1>2. WindowSound
  <2>1. (0 + 0) % MAX_PROCESSES = 0
    BY RingAssumption
  <2> QED BY <2>1 DEF Init, WindowSound
<1>3. FIFO!Init
  BY DEF Init, FIFO!Init, Items
<1> QED BY <1>1, <1>2, <1>3 DEF IInv

\* mlfq_enqueue and mlfq_dequeue keep IInv.
THEOREM RingIInv == Spec => []IInv
<1>1. IInv /\ [Next]_vars => IInv'
  BY StepCases
<1> QED BY <1>1, InitCases, PTL DEF Spec

\* head and tail stay within the array and size within the capacity.
THEOREM RingTypeCorrect == Spec => []TypeOK
<1>1. IInv => TypeOK
  BY DEF IInv
<1> QED BY <1>1, RingIInv, PTL

\* head, tail and size stay consistent, and every slot that mlfq_dequeue can
\* read holds a process.
THEOREM RingSound == Spec => []WindowSound
<1>1. IInv => WindowSound
  BY DEF IInv
<1> QED BY <1>1, RingIInv, PTL

\* mlfq_enqueue and mlfq_dequeue on the ring implement a bounded FIFO queue
\* of any capacity; Scheduler may therefore treat a level as a sequence.
THEOREM RingIsFifo == Spec => ImplementsFifo
<1>1. IInv /\ [Next]_vars => IInv' /\ [FIFO!Next]_<<Items, proc>>
  BY StepCases
<1> QED BY <1>1, InitCases, PTL DEF Spec, ImplementsFifo, FIFO!Spec

=============================================================================
