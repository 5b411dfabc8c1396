-------------------------- MODULE SchedulerProofs --------------------------
(***************************************************************************)
(* Proofs that the safety properties of Scheduler hold for every number of *)
(* processes, every time slice, aging period and range of priorities.      *)
(*                                                                         *)
(* An operation touches the queues in up to three stages: sched_next takes *)
(* a process out, context_switch or sched_add puts one in, aging moves     *)
(* processes to level 0.  QueuesOK is what each stage keeps and the lemmas *)
(* NextFacts, AddFacts and AgedFacts say what it does to membership.       *)
(***************************************************************************)
EXTENDS Scheduler, FiniteSets, TLAPS, SequenceTheorems, FiniteSetTheorems

\* The time the solver may take.
USE SMTT(30)

-----------------------------------------------------------------------------
(***************************************************************************)
(* Member and Distinct.                                                    *)
(***************************************************************************)

\* Every non-empty set of naturals has a least element: the principle behind
\* the arguments "the first position at which ...".
LEMMA LeastNatural ==
  ASSUME NEW T, T \subseteq Nat, T # {}
  PROVE  \E x \in T : \A y \in T : x <= y
<1>1. PICK x \in T : \A y \in T : ~ (<<y, x>> \in OpToRel(<, Nat))
  BY NatLessThanWellFounded, WFMin, Zenon
<1>2. ASSUME NEW y \in T PROVE x <= y
  <2>1. ~ (y < x)
    BY <1>1, Zenon DEF OpToRel
  <2> QED BY <2>1
<1> QED BY <1>2

\* Appending a new process to a queue without duplicates (mlfq_enqueue).
LEMMA AppendMember ==
  ASSUME NEW S, NEW q \in Seq(S), NEW p \in S
  PROVE  /\ Append(q, p) \in Seq(S)
         /\ \A x : Member(Append(q, p), x) <=> Member(q, x) \/ x = p
         /\ Distinct(q) /\ ~Member(q, p) => Distinct(Append(q, p))
<1>1. /\ Append(q, p) \in Seq(S)
      /\ Len(Append(q, p)) = Len(q) + 1
      /\ \A i \in 1 .. Len(q) : Append(q, p)[i] = q[i]
      /\ Append(q, p)[Len(q) + 1] = p
  BY AppendProperties
<1>2. Len(q) \in Nat
  BY LenProperties
<1>3. ASSUME NEW x PROVE Member(Append(q, p), x) <=> Member(q, x) \/ x = p
  BY <1>1, <1>2 DEF Member
<1>4. ASSUME Distinct(q), ~Member(q, p) PROVE Distinct(Append(q, p))
  BY <1>1, <1>2, <1>4 DEF Distinct, Member
<1> QED BY <1>1, <1>3, <1>4

\* Taking the head off a queue without duplicates (both dequeues).
LEMMA TailMember ==
  ASSUME NEW S, NEW q \in Seq(S), q # <<>>
  PROVE  /\ Head(q) \in S
         /\ Tail(q) \in Seq(S)
         /\ Member(q, Head(q))
         /\ Distinct(q) =>
              /\ Distinct(Tail(q))
              /\ \A x : Member(Tail(q), x) <=> Member(q, x) /\ x # Head(q)
<1>1. /\ Head(q) \in S
      /\ Tail(q) \in Seq(S)
      /\ Len(Tail(q)) = Len(q) - 1
      /\ \A i \in 1 .. Len(Tail(q)) : Tail(q)[i] = q[i + 1]
  BY HeadTailProperties
<1>2. Len(q) \in Nat /\ Len(q) > 0 /\ Head(q) = q[1]
  BY EmptySeq, LenProperties
<1>3. Member(q, Head(q))
  BY <1>2 DEF Member
<1>4. ASSUME Distinct(q) PROVE Distinct(Tail(q))
  BY <1>1, <1>2, <1>4 DEF Distinct
<1>5. ASSUME Distinct(q), NEW x
      PROVE  Member(Tail(q), x) <=> Member(q, x) /\ x # Head(q)
  <2>1. ASSUME Member(Tail(q), x) PROVE Member(q, x) /\ x # Head(q)
    <3>1. PICK i \in 1 .. Len(Tail(q)) : Tail(q)[i] = x
      BY <2>1 DEF Member
    <3>2. i + 1 \in 1 .. Len(q) /\ q[i + 1] = x /\ i + 1 # 1
      BY <3>1, <1>1, <1>2
    <3> QED BY <3>2, <1>2, <1>5 DEF Member, Distinct
  <2>2. ASSUME Member(q, x), x # Head(q) PROVE Member(Tail(q), x)
    <3>1. PICK i \in 1 .. Len(q) : q[i] = x
      BY <2>2 DEF Member
    <3>2. i - 1 \in 1 .. Len(Tail(q)) /\ Tail(q)[i - 1] = x
      BY <3>1, <2>2, <1>1, <1>2
    <3> QED BY <3>2 DEF Member
  <2> QED BY <2>1, <2>2
<1> QED BY <1>1, <1>3, <1>4, <1>5

\* Joining two queues without common processes (aging).
LEMMA ConcatMember ==
  ASSUME NEW S, NEW q \in Seq(S), NEW r \in Seq(S)
  PROVE  /\ q \o r \in Seq(S)
         /\ \A x : Member(q \o r, x) <=> Member(q, x) \/ Member(r, x)
         /\ Distinct(q) /\ Distinct(r) /\ (\A x : ~(Member(q, x) /\ Member(r, x)))
              => Distinct(q \o r)
<1>1. /\ q \o r \in Seq(S)
      /\ Len(q \o r) = Len(q) + Len(r)
      /\ \A i \in 1 .. Len(q) + Len(r) :
           (q \o r)[i] = IF i <= Len(q) THEN q[i] ELSE r[i - Len(q)]
  BY ConcatProperties
<1>2. Len(q) \in Nat /\ Len(r) \in Nat
  BY LenProperties
<1>3. ASSUME NEW x PROVE Member(q \o r, x) <=> Member(q, x) \/ Member(r, x)
  <2>1. ASSUME Member(q \o r, x) PROVE Member(q, x) \/ Member(r, x)
    <3>1. PICK i \in 1 .. Len(q) + Len(r) : (q \o r)[i] = x
      BY <2>1, <1>1 DEF Member
    <3>2. CASE i <= Len(q)
      BY <3>1, <3>2, <1>1, <1>2 DEF Member
    <3>3. CASE i > Len(q)
      <4>1. i - Len(q) \in 1 .. Len(r) /\ r[i - Len(q)] = x
        BY <3>1, <3>3, <1>1, <1>2
      <4> QED BY <4>1 DEF Member
    <3> QED BY <3>2, <3>3, <1>2
  <2>2. ASSUME Member(q, x) PROVE Member(q \o r, x)
    BY <2>2, <1>1, <1>2 DEF Member
  <2>3. ASSUME Member(r, x) PROVE Member(q \o r, x)
    <3>1. PICK i \in 1 .. Len(r) : r[i] = x
      BY <2>3 DEF Member
    <3>2. i + Len(q) \in 1 .. Len(q \o r) /\ (q \o r)[i + Len(q)] = x
      BY <3>1, <1>1, <1>2
    <3> QED BY <3>2 DEF Member
  <2> QED BY <2>1, <2>2, <2>3
<1>4. ASSUME Distinct(q), Distinct(r), \A x : ~(Member(q, x) /\ Member(r, x))
      PROVE  Distinct(q \o r)
  <2> SUFFICES ASSUME NEW i \in 1 .. Len(q) + Len(r),
                      NEW j \in 1 .. Len(q) + Len(r),
                      (q \o r)[i] = (q \o r)[j]
               PROVE  i = j
    BY <1>1 DEF Distinct
  <2>1. CASE i <= Len(q) /\ j <= Len(q)
    BY <2>1, <1>1, <1>2, <1>4 DEF Distinct
  <2>2. CASE i > Len(q) /\ j > Len(q)
    <3>1. i - Len(q) \in 1 .. Len(r) /\ j - Len(q) \in 1 .. Len(r)
          /\ r[i - Len(q)] = r[j - Len(q)]
      BY <2>2, <1>1, <1>2
    <3> QED BY <3>1, <1>4, <1>2 DEF Distinct
  <2>3. CASE i <= Len(q) /\ j > Len(q)
    <3>1. i \in 1 .. Len(q) /\ j - Len(q) \in 1 .. Len(r)
          /\ q[i] = r[j - Len(q)]
      BY <2>3, <1>1, <1>2
    <3>2. Member(q, q[i]) /\ Member(r, q[i])
      BY <3>1 DEF Member
    <3> QED BY <3>2, <1>4
  <2>4. CASE i > Len(q) /\ j <= Len(q)
    <3>1. j \in 1 .. Len(q) /\ i - Len(q) \in 1 .. Len(r)
          /\ q[j] = r[i - Len(q)]
      BY <2>4, <1>1, <1>2
    <3>2. Member(q, q[j]) /\ Member(r, q[j])
      BY <3>1 DEF Member
    <3> QED BY <3>2, <1>4
  <2> QED BY <2>1, <2>2, <2>3, <2>4, <1>2
<1> QED BY <1>1, <1>3, <1>4

\* Inserting a new element behind position i (rt_enqueue; i = 0: pushing on
\* a free list).
LEMMA InsertMember ==
  ASSUME NEW S, NEW q \in Seq(S), NEW p \in S, NEW i \in 0 .. Len(q)
  PROVE  /\ InsertAfter(q, i, p) \in Seq(S)
         /\ Len(InsertAfter(q, i, p)) = Len(q) + 1
         /\ \A k \in 1 .. Len(q) + 1 :
              InsertAfter(q, i, p)[k] = IF k <= i THEN q[k]
                                        ELSE IF k = i + 1 THEN p ELSE q[k - 1]
         /\ \A x : Member(InsertAfter(q, i, p), x) <=> Member(q, x) \/ x = p
         /\ Distinct(q) /\ ~Member(q, p) => Distinct(InsertAfter(q, i, p))
<1> DEFINE a == SubSeq(q, 1, i)
           b == SubSeq(q, i + 1, Len(q))
           r == a \o <<p>> \o b
<1>0. Len(q) \in Nat /\ i \in Nat /\ i <= Len(q)
  BY LenProperties
<1>1. /\ a \in Seq(S)
      /\ Len(a) = i
      /\ \A k \in 1 .. i : a[k] = q[k]
  <2>1. \A k \in 1 .. i : q[k] \in S
    BY <1>0, ElementOfSeq
  <2> QED BY <2>1, <1>0, SubSeqProperties
<1>2. /\ b \in Seq(S)
      /\ Len(b) = Len(q) - i
      /\ \A k \in 1 .. Len(q) - i : b[k] = q[i + k]
  <2>1. \A k \in i + 1 .. Len(q) : q[k] \in S
    BY <1>0, ElementOfSeq
  <2> QED BY <2>1, <1>0, SubSeqProperties
<1>3. /\ a \o <<p>> \in Seq(S)
      /\ Len(a \o <<p>>) = i + 1
      /\ \A k \in 1 .. i + 1 : (a \o <<p>>)[k] = IF k <= i THEN q[k] ELSE p
  <2>1. <<p>> \in Seq(S) /\ Len(<<p>>) = 1 /\ <<p>>[1] = p
    OBVIOUS
  <2> HIDE DEF a
  <2> QED BY <2>1, <1>0, <1>1, ConcatProperties
<1>4. /\ r \in Seq(S)
      /\ Len(r) = Len(q) + 1
      /\ \A k \in 1 .. Len(q) + 1 :
           r[k] = IF k <= i THEN q[k] ELSE IF k = i + 1 THEN p ELSE q[k - 1]
  <2> DEFINE c == a \o <<p>>
  <2> HIDE DEF c, b
  <2>0. c \in Seq(S) /\ Len(c) = i + 1 /\ b \in Seq(S) /\ Len(b) = Len(q) - i
    BY <1>2, <1>3 DEF c
  <2>1. /\ c \o b \in Seq(S)
        /\ Len(c \o b) = Len(q) + 1
        /\ \A k \in 1 .. Len(q) + 1 :
             (c \o b)[k] = IF k <= i + 1 THEN c[k] ELSE b[k - (i + 1)]
    <3>1. /\ c \o b \in Seq(S)
          /\ Len(c \o b) = Len(c) + Len(b)
          /\ \A k \in 1 .. Len(c) + Len(b) :
               (c \o b)[k] = IF k <= Len(c) THEN c[k] ELSE b[k - Len(c)]
      BY <2>0, ConcatProperties, Zenon
    <3>2. Len(c) + Len(b) = Len(q) + 1
      BY <1>0, <2>0
    <3> QED BY <3>1, <3>2, <2>0
  <2>2. r = c \o b
    BY DEF c
  <2>3. ASSUME NEW k \in 1 .. Len(q) + 1, k > i + 1
        PROVE  b[k - (i + 1)] = q[k - 1]
    BY <1>0, <1>2, <2>3
  <2>4. \A k \in 1 .. i + 1 : c[k] = IF k <= i THEN q[k] ELSE p
    BY <1>3 DEF c
  <2> HIDE DEF r
  <2>5. ASSUME NEW k \in 1 .. Len(q) + 1
        PROVE  r[k] = IF k <= i THEN q[k] ELSE IF k = i + 1 THEN p ELSE q[k - 1]
    <3>1. CASE k <= i + 1
      <4>1. k \in 1 .. i + 1
        BY <1>0, <3>1
      <4>2. r[k] = c[k]
        BY <2>1, <2>2, <3>1
      <4> QED BY <1>0, <2>4, <4>1, <4>2
    <3>2. CASE k > i + 1
      <4>2. ~(k <= i) /\ k # i + 1 /\ ~(k <= i + 1)
        BY <1>0, <3>2
      <4>1. (c \o b)[k] = b[k - (i + 1)]
        BY <2>1, <4>2
      <4> QED BY <2>2, <2>3, <3>2, <4>1, <4>2
    <3> QED BY <1>0, <3>1, <3>2
  <2>6. r \in Seq(S) /\ Len(r) = Len(q) + 1
    BY <2>1, <2>2
  <2> QED BY <2>5, <2>6
<1>r. InsertAfter(q, i, p) = r
  BY DEF InsertAfter
<1> HIDE DEF r, a, b
<1>5. ASSUME NEW x PROVE Member(r, x) <=> Member(q, x) \/ x = p
  <2>1. ASSUME Member(q, x) PROVE Member(r, x)
    <3>1. PICK k \in 1 .. Len(q) : q[k] = x
      BY <2>1 DEF Member
    <3>2. CASE k <= i
      BY <3>1, <3>2, <1>0, <1>4 DEF Member
    <3>3. CASE k > i
      <4>1. k + 1 \in 1 .. Len(r) /\ r[k + 1] = x
        BY <3>1, <3>3, <1>0, <1>4
      <4> QED BY <4>1 DEF Member
    <3> QED BY <3>2, <3>3, <1>0
  <2>2. Member(r, p)
    <3>1. i + 1 \in 1 .. Len(r) /\ r[i + 1] = p
      BY <1>0, <1>4
    <3> QED BY <3>1 DEF Member
  <2>3. ASSUME Member(r, x), x # p PROVE Member(q, x)
    <3>1. PICK k \in 1 .. Len(q) + 1 : r[k] = x
      BY <2>3, <1>4 DEF Member
    <3>2. CASE k <= i
      BY <3>1, <3>2, <1>0, <1>4 DEF Member
    <3>3. CASE k > i + 1
      <4>1. k - 1 \in 1 .. Len(q) /\ q[k - 1] = x
        BY <3>1, <3>3, <1>0, <1>4
      <4> QED BY <4>1 DEF Member
    <3> QED BY <3>1, <3>2, <3>3, <2>3, <1>0, <1>4
  <2> QED BY <2>1, <2>2, <2>3
<1>6. ASSUME Distinct(q), ~Member(q, p) PROVE Distinct(r)
  <2>0. \A m \in 1 .. Len(q) : q[m] # p
    BY <1>6 DEF Member
  <2>1. ASSUME NEW j \in 1 .. Len(q) + 1, NEW k \in 1 .. Len(q) + 1, j < k
        PROVE  r[j] # r[k]
    <3>1. CASE k <= i
      <4>1. r[j] = q[j] /\ r[k] = q[k]
        BY <2>1, <3>1, <1>0, <1>4
      <4>2. j \in 1 .. Len(q) /\ k \in 1 .. Len(q) /\ j # k
        BY <2>1, <3>1, <1>0
      <4> QED BY <1>6, <4>1, <4>2, Zenon DEF Distinct
    <3>2. CASE k = i + 1
      <4>1. r[j] = q[j] /\ r[k] = p /\ j \in 1 .. Len(q)
        BY <2>1, <3>2, <1>0, <1>4
      <4> QED BY <4>1, <2>0, Zenon
    <3>3. CASE k > i + 1 /\ j = i + 1
      <4>1. r[j] = p /\ r[k] = q[k - 1] /\ k - 1 \in 1 .. Len(q)
        BY <3>3, <1>0, <1>4
      <4> QED BY <4>1, <2>0
    <3>4. CASE k > i + 1 /\ j <= i
      <4>1. r[j] = q[j] /\ r[k] = q[k - 1] /\ j # k - 1
            /\ j \in 1 .. Len(q) /\ k - 1 \in 1 .. Len(q)
        BY <3>4, <1>0, <1>4
      <4> QED BY <4>1, <1>6 DEF Distinct
    <3>5. CASE k > i + 1 /\ j > i + 1
      <4>1. r[j] = q[j - 1] /\ r[k] = q[k - 1] /\ j - 1 # k - 1
            /\ j - 1 \in 1 .. Len(q) /\ k - 1 \in 1 .. Len(q)
        BY <2>1, <3>5, <1>0, <1>4
      <4> QED BY <4>1, <1>6 DEF Distinct
    <3> QED BY <2>1, <3>1, <3>2, <3>3, <3>4, <3>5, <1>0
  <2>2. ASSUME NEW j \in 1 .. Len(q) + 1, NEW k \in 1 .. Len(q) + 1,
               r[j] = r[k]
        PROVE  j = k
    <3>1. ~(j < k) /\ ~(k < j)
      BY <2>1, <2>2
    <3> QED BY <3>1, <1>0
  <2> QED BY <2>2, <1>4 DEF Distinct
<1> QED BY <1>4, <1>5, <1>6, <1>r

\* A queue without duplicates over a finite set is no longer than the set is
\* large, and shorter when an element of the set is missing from it.
LEMMA DistinctBound ==
  ASSUME NEW S, IsFiniteSet(S), NEW q \in Seq(S), Distinct(q)
  PROVE  /\ Len(q) <= Cardinality(S)
         /\ \A p \in S : ~Member(q, p) => Len(q) < Cardinality(S)
<1>1. Len(q) \in Nat /\ q \in [1 .. Len(q) -> S]
  BY LenProperties
<1>2. q \in Injection(1 .. Len(q), S)
  BY <1>1 DEF Distinct, Injection, IsInjective
<1>3. Cardinality(1 .. Len(q)) = Len(q)
  BY <1>1, FS_Interval
<1>4. /\ Len(q) <= Cardinality(S)
      /\ Len(q) = Cardinality(S) <=> q \in Surjection(1 .. Len(q), S)
  BY <1>2, <1>3, FS_Injection
<1>5. ASSUME NEW p \in S, ~Member(q, p) PROVE Len(q) # Cardinality(S)
  <2>1. q \notin Surjection(1 .. Len(q), S)
    BY <1>5 DEF Surjection, Member
  <2> QED BY <2>1, <1>4
<1>6. Cardinality(S) \in Nat
  BY FS_CardinalityType
<1> QED BY <1>1, <1>4, <1>5, <1>6

-----------------------------------------------------------------------------
(***************************************************************************)
(* Before: what of the order in a queue is already in the queue it came    *)
(* from.                                                                   *)
(***************************************************************************)

\* In a queue without duplicates no process is both before and behind another.
LEMMA BeforeOneWay ==
  ASSUME NEW S, NEW q \in Seq(S), Distinct(q), NEW a, NEW b, Before(q, a, b)
  PROVE  /\ Member(q, a) /\ Member(q, b)
         /\ ~Before(q, b, a)
<1>1. PICK i, j \in 1 .. Len(q) : i < j /\ q[i] = a /\ q[j] = b
  BY DEF Before
<1>2. Member(q, a) /\ Member(q, b)
  BY <1>1 DEF Member
<1>3. ASSUME NEW k \in 1 .. Len(q), NEW m \in 1 .. Len(q), q[k] = b, q[m] = a
      PROVE  ~(k < m)
  <2>1. k = j /\ m = i
    BY <1>1, <1>3 DEF Distinct
  <2> QED BY <2>1, <1>1
<1> QED BY <1>2, <1>3 DEF Before

\* Both dequeues.
LEMMA TailBefore ==
  ASSUME NEW S, NEW q \in Seq(S), q # <<>>, NEW a, NEW b, Before(Tail(q), a, b)
  PROVE  Before(q, a, b)
<1>1. /\ Len(Tail(q)) = Len(q) - 1 /\ Len(q) \in Nat
      /\ \A i \in 1 .. Len(Tail(q)) : Tail(q)[i] = q[i + 1]
  BY HeadTailProperties, LenProperties
<1>2. PICK i, j \in 1 .. Len(Tail(q)) : i < j /\ Tail(q)[i] = a /\ Tail(q)[j] = b
  BY DEF Before
<1>3. /\ i + 1 \in 1 .. Len(q) /\ j + 1 \in 1 .. Len(q) /\ i + 1 < j + 1
      /\ q[i + 1] = a /\ q[j + 1] = b
  BY <1>1, <1>2
<1> QED BY <1>3 DEF Before

\* mlfq_enqueue.
LEMMA AppendBefore ==
  ASSUME NEW S, NEW q \in Seq(S), NEW p \in S, NEW a, NEW b,
         Before(Append(q, p), a, b), b # p
  PROVE  Before(q, a, b)
<1>1. /\ Len(Append(q, p)) = Len(q) + 1 /\ Len(q) \in Nat
      /\ \A i \in 1 .. Len(q) : Append(q, p)[i] = q[i]
      /\ Append(q, p)[Len(q) + 1] = p
  BY AppendProperties, LenProperties
<1>2. PICK i, j \in 1 .. Len(q) + 1 :
        i < j /\ Append(q, p)[i] = a /\ Append(q, p)[j] = b
  BY <1>1 DEF Before
<1>3. i \in 1 .. Len(q) /\ j \in 1 .. Len(q) /\ q[i] = a /\ q[j] = b
  BY <1>1, <1>2
<1> QED BY <1>2, <1>3 DEF Before

\* rt_enqueue.
LEMMA InsertBefore ==
  ASSUME NEW S, NEW q \in Seq(S), NEW p \in S, NEW i \in 0 .. Len(q),
         NEW a, NEW b, a # p, b # p, Before(InsertAfter(q, i, p), a, b)
  PROVE  Before(q, a, b)
<1> DEFINE r == InsertAfter(q, i, p)
           Old(k) == IF k <= i THEN k ELSE k - 1
<1>1. /\ Len(r) = Len(q) + 1 /\ Len(q) \in Nat
      /\ \A k \in 1 .. Len(q) + 1 :
           r[k] = IF k <= i THEN q[k] ELSE IF k = i + 1 THEN p ELSE q[k - 1]
  BY InsertMember, LenProperties
<1> HIDE DEF r
<1>2. PICK j, k \in 1 .. Len(q) + 1 : j < k /\ r[j] = a /\ r[k] = b
  BY <1>1 DEF Before, r
<1>3. j # i + 1 /\ k # i + 1
  BY <1>1, <1>2
<1>4. /\ Old(j) \in 1 .. Len(q) /\ Old(k) \in 1 .. Len(q) /\ Old(j) < Old(k)
  BY <1>1, <1>2, <1>3
<1>5. q[Old(j)] = a /\ q[Old(k)] = b
  BY <1>1, <1>2, <1>3
<1> HIDE DEF Old
<1> QED BY <1>4, <1>5 DEF Before

\* A new process is last in the ring it enters.
LEMMA AppendLast ==
  ASSUME NEW S, NEW q \in Seq(S), NEW p \in S, ~Member(q, p), NEW b
  PROVE  ~Before(Append(q, p), p, b)
<1>1. /\ Len(Append(q, p)) = Len(q) + 1 /\ Len(q) \in Nat
      /\ \A i \in 1 .. Len(q) : Append(q, p)[i] = q[i]
  BY AppendProperties, LenProperties
<1>2. ASSUME NEW i \in 1 .. Len(q) + 1, NEW j \in 1 .. Len(q) + 1, i < j,
             Append(q, p)[i] = p
      PROVE  FALSE
  <2>1. i \in 1 .. Len(q) /\ q[i] = p
    BY <1>1, <1>2
  <2> QED BY <2>1 DEF Member
<1> QED BY <1>1, <1>2 DEF Before

\* A process inserted into the real-time queue is before those behind the place.
LEMMA InsertBehind ==
  ASSUME NEW S, NEW q \in Seq(S), NEW p \in S, NEW i \in 0 .. Len(q),
         ~Member(q, p), NEW b, Before(InsertAfter(q, i, p), p, b)
  PROVE  \E j \in i + 1 .. Len(q) : q[j] = b
<1> DEFINE r == InsertAfter(q, i, p)
<1>1. /\ Len(r) = Len(q) + 1 /\ Len(q) \in Nat
      /\ \A k \in 1 .. Len(q) + 1 :
           r[k] = IF k <= i THEN q[k] ELSE IF k = i + 1 THEN p ELSE q[k - 1]
  BY InsertMember, LenProperties
<1> HIDE DEF r
<1>2. PICK j, k \in 1 .. Len(q) + 1 : j < k /\ r[j] = p /\ r[k] = b
  BY <1>1 DEF Before, r
<1>3. \A m \in 1 .. Len(q) : q[m] # p
  BY DEF Member
<1>4. ~(j <= i)
  BY <1>1, <1>2, <1>3
<1>5. k - 1 \in i + 1 .. Len(q) /\ q[k - 1] = b
  BY <1>1, <1>2, <1>4
<1> QED BY <1>5

\* Aging joins queues.
LEMMA ConcatBefore ==
  ASSUME NEW S, NEW q \in Seq(S), NEW r \in Seq(S), NEW a, NEW b,
         Before(q \o r, a, b)
  PROVE  \/ Before(q, a, b)
         \/ Before(r, a, b)
         \/ Member(q, a) /\ Member(r, b)
<1>1. /\ Len(q \o r) = Len(q) + Len(r)
      /\ \A i \in 1 .. Len(q) + Len(r) :
           (q \o r)[i] = IF i <= Len(q) THEN q[i] ELSE r[i - Len(q)]
      /\ Len(q) \in Nat /\ Len(r) \in Nat
  BY ConcatProperties, LenProperties
<1>2. PICK i, j \in 1 .. Len(q) + Len(r) :
        i < j /\ (q \o r)[i] = a /\ (q \o r)[j] = b
  BY <1>1 DEF Before
<1>3. CASE j <= Len(q)
  <2>1. i \in 1 .. Len(q) /\ j \in 1 .. Len(q) /\ q[i] = a /\ q[j] = b
    BY <1>1, <1>2, <1>3
  <2> QED BY <1>2, <2>1 DEF Before
<1>4. CASE i > Len(q)
  <2> DEFINE k == i - Len(q)
             l == j - Len(q)
  <2>1. k \in 1 .. Len(r) /\ l \in 1 .. Len(r) /\ k < l /\ r[k] = a /\ r[l] = b
    BY <1>1, <1>2, <1>4
  <2> HIDE DEF k, l
  <2> QED BY <2>1, Zenon DEF Before
<1>5. CASE i <= Len(q) /\ j > Len(q)
  <2>1. /\ i \in 1 .. Len(q) /\ q[i] = a
        /\ j - Len(q) \in 1 .. Len(r) /\ r[j - Len(q)] = b
    BY <1>1, <1>2, <1>5
  <2> QED BY <2>1 DEF Member
<1> QED BY <1>1, <1>2, <1>3, <1>4, <1>5

\* Filling a ring takes the front of what is there.
LEMMA FillBefore ==
  ASSUME NEW S, NEW q \in Seq(S), NEW a, NEW b, Before(FillTo(q), a, b)
  PROVE  Before(q, a, b)
<1> DEFINE n == MAX_PROCESSES
           r == SubSeq(q, 1, n)
<1>1. Len(q) \in Nat /\ n \in Nat
  BY LenProperties, ConstantsAssumption
<1>2. CASE Len(q) <= n
  BY <1>2 DEF FillTo
<1>3. CASE ~(Len(q) <= n)
  <2>1. FillTo(q) = r
    BY <1>3, Zenon DEF FillTo
  <2>2. \A i \in 1 .. n : q[i] \in S
    BY <1>1, <1>3, ElementOfSeq
  <2>3. Len(r) = n /\ \A i \in 1 .. n : r[i] = q[i]
    <3>1. /\ Len(r) = IF 1 <= n THEN n - 1 + 1 ELSE 0
          /\ \A i \in 1 .. n - 1 + 1 : r[i] = q[1 + i - 1]
      BY <1>1, <2>2, SubSeqProperties
    <3> HIDE DEF r
    <3> QED BY <1>1, <3>1
  <2> HIDE DEF r
  <2>4. PICK i, j \in 1 .. n : i < j /\ r[i] = a /\ r[j] = b
    BY <2>1, <2>3 DEF Before
  <2>5. i \in 1 .. Len(q) /\ j \in 1 .. Len(q) /\ q[i] = a /\ q[j] = b
    BY <1>1, <1>3, <2>3, <2>4
  <2> QED BY <2>4, <2>5 DEF Before
<1> QED BY <1>2, <1>3

-----------------------------------------------------------------------------
(***************************************************************************)
(* The stages of an operation.                                             *)
(***************************************************************************)

\* From here on the steps are first-order; a leaf that needs arithmetic or the
\* theory of sequences names SMT.
USE Zenon

\* The queues rt and ml are well formed for the levels lvl.
QueuesOK(rt, ml, lvl) ==
  /\ rt \in Seq(Slots)
  /\ ml \in [Levels -> Seq(Slots)]
  /\ Distinct(rt)
  /\ \A l \in Levels : Distinct(ml[l])
  /\ \A p \in Slots : Member(rt, p) => policy[p] \in {"SCHED_FIFO", "SCHED_RR"}
  /\ \A p \in Slots, l \in Levels :
       Member(ml[l], p) => policy[p] = "SCHED_NORMAL" /\ lvl[p] = l

\* p waits in one of the queues rt and ml.
In(rt, ml, p) == Member(rt, p) \/ \E l \in Levels : Member(ml[l], p)

-----------------------------------------------------------------------------
(***************************************************************************)
(* Constants.                                                              *)
(***************************************************************************)
LEMMA SlotsFinite ==
  /\ IsFiniteSet(Slots)
  /\ Cardinality(Slots) = MAX_PROCESSES
BY ConstantsAssumption, FS_Interval, SMT DEF Slots

LEMMA LevelsAre == Levels = {0, 1, 2, 3}
BY SMT DEF Levels, NUM_QUEUE_LEVELS

LEMMA LevelOfType ==
  ASSUME NEW prio \in Int, PRIORITY_RT_MAX < prio, prio <= PRIORITY_MAX
  PROVE  LevelOf(prio) \in Levels
<1> DEFINE a == prio - PRIORITY_NORMAL_MIN
           n == PRIORITY_MAX - PRIORITY_NORMAL_MIN + 1
<1>1. a \in Nat /\ n \in Nat /\ a < n /\ n > 0
  BY ConstantsAssumption, SMT DEF PRIORITY_NORMAL_MIN
<1> HIDE DEF a, n
<1>2. (a * 4) \div n \in Int /\ (a * 4) \div n >= 0 /\ (a * 4) \div n < 4
  BY <1>1, SMT
<1> QED BY <1>2, SMT DEF LevelOf, Levels, NUM_QUEUE_LEVELS, a, n

-----------------------------------------------------------------------------
(***************************************************************************)
(* One queue.                                                              *)
(***************************************************************************)

\* No ring overflows: mlfq_enqueue has room for a process that is not queued.
LEMMA MlfqEnqueue ==
  ASSUME NEW q \in Seq(Slots), Distinct(q), NEW p \in Slots, ~Member(q, p)
  PROVE  mlfq_enqueue(q, p) = Append(q, p)
<1>1. Len(q) < MAX_PROCESSES
  BY SlotsFinite, DistinctBound
<1>2. Len(q) \in Nat
  BY LenProperties
<1> QED BY <1>1, <1>2, ConstantsAssumption, SMT DEF mlfq_enqueue

\* The scan of rt_enqueue stops somewhere.
LEMMA ScanStops ==
  ASSUME NEW q \in Seq(Slots), NEW p \in Slots, priority \in [Procs -> Int]
  PROVE  \E i \in 0 .. Len(q) : ScanStop(q, p, i)
<1> DEFINE n == Len(q)
           Stop(i) == i = 0 \/ priority[q[i]] <= priority[p]
           T == {d \in 0 .. n : Stop(n - d)}
<1>1. n \in Nat
  BY LenProperties
<1>2. T \subseteq Nat /\ T # {}
  <2>1. n \in T
    BY <1>1, SMT
  <2> QED BY <2>1, <1>1, SMT
<1>3. PICK d \in T : \A e \in T : d <= e
  BY <1>2, LeastNatural
<1>4. n - d \in 0 .. n /\ Stop(n - d)
  BY <1>1, <1>3, SMT
<1>5. ASSUME NEW j \in n - d + 1 .. n PROVE priority[q[j]] > priority[p]
  <2>1. n - j \in 0 .. n /\ n - j < d /\ n - (n - j) = j
    BY <1>1, <1>3, <1>5, SMT
  <2>2. ~Stop(j)
    BY <2>1, <1>1, <1>3, SMT
  <2>3. j \in 1 .. n /\ q[j] \in Slots
    BY <1>1, <1>4, <1>5, ElementOfSeq, SMT
  <2>4. priority[q[j]] \in Int /\ priority[p] \in Int
    BY <2>3 DEF Procs
  <2> QED BY <2>2, <2>3, <2>4, SMT
<1>6. ScanStop(q, p, n - d)
  BY <1>4, <1>5, SMT DEF ScanStop
<1> QED BY <1>4, <1>6

\* rt_enqueue adds p, keeps the queue free of duplicates, and keeps it sorted.
LEMMA RtEnqueue ==
  ASSUME NEW q \in Seq(Slots), Distinct(q), NEW p \in Slots, ~Member(q, p),
         priority \in [Procs -> Int]
  PROVE  /\ rt_enqueue(q, p) \in Seq(Slots)
         /\ Distinct(rt_enqueue(q, p))
         /\ \A x : Member(rt_enqueue(q, p), x) <=> Member(q, x) \/ x = p
         /\ Sorted(q) => Sorted(rt_enqueue(q, p))
<1>1. Len(q) < MAX_PROCESSES /\ Len(q) \in Nat
  BY SlotsFinite, DistinctBound, LenProperties
<1> DEFINE i == CHOOSE k \in 0 .. Len(q) : ScanStop(q, p, k)
           r == InsertAfter(q, i, p)
<1>2. i \in 0 .. Len(q) /\ ScanStop(q, p, i)
  <2>1. \E k \in 0 .. Len(q) : ScanStop(q, p, k)
    BY ScanStops
  <2> QED BY <2>1
<1>3. rt_enqueue(q, p) = r
  BY <1>1, ConstantsAssumption, SMT DEF rt_enqueue
<1> HIDE DEF i
<1>4. /\ r \in Seq(Slots)
      /\ Len(r) = Len(q) + 1
      /\ \A k \in 1 .. Len(q) + 1 :
           r[k] = IF k <= i THEN q[k] ELSE IF k = i + 1 THEN p ELSE q[k - 1]
      /\ \A x : Member(r, x) <=> Member(q, x) \/ x = p
      /\ Distinct(r)
  BY <1>2, InsertMember, SMT
<1> HIDE DEF r
<1>5. ASSUME Sorted(q) PROVE Sorted(r)
  <2> SUFFICES ASSUME NEW j \in 1 .. Len(q) + 1, NEW k \in 1 .. Len(q) + 1, j < k
               PROVE  priority[r[j]] <= priority[r[k]]
    BY <1>4 DEF Sorted
  <2>0. /\ i \in Nat /\ i <= Len(q)
        /\ \A m \in 1 .. Len(q) : q[m] \in Slots /\ priority[q[m]] \in Int
        /\ priority[p] \in Int
    <3>1. \A m \in 1 .. Len(q) : q[m] \in Slots
      BY ElementOfSeq
    <3> QED BY <1>1, <1>2, <3>1, SMT DEF Procs
  <2>1. \A m \in 1 .. i : priority[q[m]] <= priority[p]
    <3> SUFFICES ASSUME NEW m \in 1 .. i PROVE priority[q[m]] <= priority[p]
      OBVIOUS
    <3>1. i \in 1 .. Len(q) /\ m \in 1 .. Len(q) /\ priority[q[i]] <= priority[p]
      BY <1>1, <1>2, <2>0, SMT DEF ScanStop
    <3>2. m = i \/ priority[q[m]] <= priority[q[i]]
      BY <3>1, <1>5, SMT DEF Sorted
    <3> QED BY <3>1, <3>2, <2>0, SMT
  <2>2. \A m \in i + 1 .. Len(q) : priority[p] <= priority[q[m]]
    <3> SUFFICES ASSUME NEW m \in i + 1 .. Len(q)
                 PROVE  priority[p] <= priority[q[m]]
      OBVIOUS
    <3>1. m \in 1 .. Len(q) /\ priority[q[m]] > priority[p]
      BY <1>1, <1>2, <2>0, SMT DEF ScanStop
    <3> QED BY <3>1, <2>0, SMT
  <2>3. CASE k <= i
    <3>1. r[j] = q[j] /\ r[k] = q[k] /\ j \in 1 .. Len(q) /\ k \in 1 .. Len(q)
      BY <1>1, <1>4, <2>0, <2>3, SMT
    <3> QED BY <3>1, <1>5 DEF Sorted
  <2>4. CASE k = i + 1
    <3>1. r[j] = q[j] /\ r[k] = p /\ j \in 1 .. i
      BY <1>1, <1>4, <2>0, <2>4, SMT
    <3> QED BY <3>1, <2>1
  <2>5. CASE k > i + 1 /\ j = i + 1
    <3>1. r[j] = p /\ r[k] = q[k - 1] /\ k - 1 \in i + 1 .. Len(q)
      BY <1>1, <1>4, <2>0, <2>5, SMT
    <3> QED BY <3>1, <2>2
  <2>6. CASE k > i + 1 /\ j <= i
    <3>1. r[j] = q[j] /\ r[k] = q[k - 1] /\ j < k - 1
          /\ j \in 1 .. Len(q) /\ k - 1 \in 1 .. Len(q)
      BY <1>1, <1>4, <2>0, <2>6, SMT
    <3> QED BY <3>1, <1>5 DEF Sorted
  <2>7. CASE k > i + 1 /\ j > i + 1
    <3>1. r[j] = q[j - 1] /\ r[k] = q[k - 1] /\ j - 1 < k - 1
          /\ j - 1 \in 1 .. Len(q) /\ k - 1 \in 1 .. Len(q)
      BY <1>1, <1>4, <2>0, <2>7, SMT
    <3> QED BY <3>1, <1>5 DEF Sorted
  <2> QED BY <1>1, <2>0, <2>3, <2>4, <2>5, <2>6, <2>7, SMT
<1> QED BY <1>3, <1>4, <1>5

-----------------------------------------------------------------------------
(***************************************************************************)
(* The three stages.                                                       *)
(***************************************************************************)

\* Only processes of a queue whose policy and level send them there are
\* affected by a change of the level of a process that waits nowhere.
LEMMA LevelChange ==
  ASSUME NEW rt, NEW ml, NEW lvl, NEW lvl2, NEW p,
         QueuesOK(rt, ml, lvl), ~In(rt, ml, p),
         \A x \in Slots \ {p} : lvl2[x] = lvl[x]
  PROVE  QueuesOK(rt, ml, lvl2)
BY SMT DEF QueuesOK, In

\* PickedLevel is a non-empty level when sched_next finds one.
LEMMA PickedLevelIs ==
  ASSUME PicksMlfq, ready_queues \in [Levels -> Seq(Slots)]
  PROVE  PickedLevel \in Levels /\ ready_queues[PickedLevel] # <<>>
<1>1. \E l \in Levels : ReadyLevel(l)
  <2>1. PICK l \in {0, 1, 2, 3} : ready_queues[l] # <<>>
    BY LevelsAre DEF PicksMlfq
  <2>2. CASE ready_queues[0] # <<>>
    BY <2>2, LevelsAre, SMT DEF ReadyLevel
  <2>3. CASE ready_queues[0] = <<>> /\ ready_queues[1] # <<>>
    <3>1. \A k \in 0 .. 1 - 1 : k = 0
      BY SMT
    <3> QED BY <2>3, <3>1, LevelsAre DEF ReadyLevel
  <2>4. CASE ready_queues[0] = <<>> /\ ready_queues[1] = <<>>
             /\ ready_queues[2] # <<>>
    <3>1. \A k \in 0 .. 2 - 1 : k = 0 \/ k = 1
      BY SMT
    <3> QED BY <2>4, <3>1, LevelsAre DEF ReadyLevel
  <2>5. CASE ready_queues[0] = <<>> /\ ready_queues[1] = <<>>
             /\ ready_queues[2] = <<>> /\ ready_queues[3] # <<>>
    <3>1. \A k \in 0 .. 3 - 1 : k = 0 \/ k = 1 \/ k = 2
      BY SMT
    <3> QED BY <2>5, <3>1, LevelsAre DEF ReadyLevel
  <2> QED BY <2>1, <2>2, <2>3, <2>4, <2>5, SMT
<1>2. PickedLevel \in Levels /\ ReadyLevel(PickedLevel)
  BY <1>1 DEF PickedLevel
<1> QED BY <1>2 DEF ReadyLevel

\* sched_next takes exactly its result out of the queues; a process from the
\* MLFQ comes from its own level, any other real process is real-time.
LEMMA NextFacts ==
  ASSUME QueuesOK(rt_queue, ready_queues, queue_level)
  PROVE  /\ QueuesOK(RtRest, MlfqRest, queue_level)
         /\ sched_next \in Procs
         /\ sched_next = Idle \/ In(rt_queue, ready_queues, sched_next)
         /\ \A p \in Slots : In(RtRest, MlfqRest, p) <=>
              In(rt_queue, ready_queues, p) /\ p # sched_next
         /\ Sorted(rt_queue) => Sorted(RtRest)
         /\ PicksMlfq => /\ sched_next \in Slots
                         /\ queue_level[sched_next] = PickedLevel
                         /\ PickedLevel \in Levels
         /\ sched_next \in Slots /\ ~PicksMlfq =>
              policy[sched_next] # "SCHED_NORMAL"
<1> USE DEF QueuesOK
<1>1. CASE PicksRt
  <2>1. rt_queue # <<>> /\ ~PicksMlfq
    BY <1>1 DEF PicksRt, PicksMlfq
  <2>2. sched_next = Head(rt_queue) /\ RtRest = Tail(rt_queue)
        /\ MlfqRest = ready_queues
    BY <1>1, <2>1 DEF sched_next, RtRest, MlfqRest
  <2>3. /\ Head(rt_queue) \in Slots
        /\ Tail(rt_queue) \in Seq(Slots)
        /\ Member(rt_queue, Head(rt_queue))
        /\ Distinct(Tail(rt_queue))
        /\ \A x : Member(Tail(rt_queue), x) <=>
             Member(rt_queue, x) /\ x # Head(rt_queue)
    BY <2>1, TailMember
  <2>4. ASSUME Sorted(rt_queue) PROVE Sorted(Tail(rt_queue))
    <3>1. /\ Len(Tail(rt_queue)) = Len(rt_queue) - 1
          /\ \A i \in 1 .. Len(Tail(rt_queue)) : Tail(rt_queue)[i] = rt_queue[i + 1]
      BY <2>1, HeadTailProperties
    <3>2. Len(rt_queue) \in Nat
      BY LenProperties
    <3> QED BY <3>1, <3>2, <2>4, SMT DEF Sorted
  <2>5. policy[Head(rt_queue)] \in {"SCHED_FIFO", "SCHED_RR"}
    BY <2>3
  <2>6. \A l \in Levels : ~Member(ready_queues[l], Head(rt_queue))
    BY <2>3, <2>5
  <2> QED BY <2>1, <2>2, <2>3, <2>4, <2>5, <2>6 DEF In, Procs
<1>2. CASE PicksMlfq
  <2> DEFINE l == PickedLevel
             q == ready_queues[l]
  <2>1. rt_queue = <<>> /\ ~PicksRt
    BY <1>2 DEF PicksRt, PicksMlfq
  <2>2. sched_next = Head(q) /\ RtRest = rt_queue
        /\ MlfqRest = [ready_queues EXCEPT ![l] = Tail(q)]
    BY <1>2, <2>1 DEF sched_next, RtRest, MlfqRest
  <2>3. l \in Levels /\ q # <<>> /\ q \in Seq(Slots) /\ Distinct(q)
    BY <1>2, PickedLevelIs
  <2> HIDE DEF l
  <2>4. /\ Head(q) \in Slots
        /\ Tail(q) \in Seq(Slots)
        /\ Member(q, Head(q))
        /\ Distinct(Tail(q))
        /\ \A x : Member(Tail(q), x) <=> Member(q, x) /\ x # Head(q)
    BY <2>3, TailMember
  <2>5. policy[Head(q)] = "SCHED_NORMAL" /\ queue_level[Head(q)] = l
    BY <2>3, <2>4
  <2>6. ~Member(rt_queue, Head(q))
        /\ \A k \in Levels \ {l} : ~Member(ready_queues[k], Head(q))
    BY <2>4, <2>5
  <2> DEFINE m == MlfqRest
  <2>7. m \in [Levels -> Seq(Slots)] /\ m[l] = Tail(q)
        /\ \A k \in Levels \ {l} : m[k] = ready_queues[k]
    BY <2>2, <2>3, <2>4
  <2> HIDE DEF m, q
  <2>8. \A x, k : k \in Levels => (Member(m[k], x) <=>
          Member(ready_queues[k], x) /\ x # Head(q))
    BY <2>4, <2>6, <2>7, SMT DEF q
  <2>9. \A k \in Levels : Distinct(m[k])
    BY <2>4, <2>7
  <2>10. QueuesOK(rt_queue, m, queue_level)
    BY <2>7, <2>8, <2>9
  <2>11. \A p \in Slots : In(rt_queue, m, p) <=>
           In(rt_queue, ready_queues, p) /\ p # Head(q)
    BY <2>6, <2>8 DEF In
  <2>12. In(rt_queue, ready_queues, Head(q))
    BY <2>3, <2>4 DEF In, q
  <2> QED BY <1>2, <2>2, <2>3, <2>4, <2>5, <2>10, <2>11, <2>12 DEF Procs, l, m, q
<1>3. CASE ~PicksRt /\ ~PicksMlfq
  <2>1. sched_next = Idle /\ RtRest = rt_queue /\ MlfqRest = ready_queues
    BY <1>3 DEF sched_next, RtRest, MlfqRest
  <2>2. Idle \notin Slots
    BY ConstantsAssumption
  <2> QED BY <1>3, <2>1, <2>2 DEF Procs
<1> QED BY <1>1, <1>2, <1>3

\* sched_add puts a process that waits nowhere into one queue, its own, unless
\* its policy is SCHED_IDLE.
LEMMA AddFacts ==
  ASSUME NEW rt, NEW ml, NEW lvl \in [Procs -> Levels], NEW p \in Slots,
         QueuesOK(rt, ml, lvl), ~In(rt, ml, p),
         priority \in [Procs -> Int], policy \in [Procs -> Policies]
  PROVE  /\ QueuesOK(RtAdd(rt, p), MlfqAdd(ml, p, lvl[p]), lvl)
         /\ \A x \in Slots : In(RtAdd(rt, p), MlfqAdd(ml, p, lvl[p]), x) <=>
              In(rt, ml, x) \/ (x = p /\ policy[p] # "SCHED_IDLE")
         /\ Sorted(rt) => Sorted(RtAdd(rt, p))
<1> USE DEF QueuesOK
<1>0. ~Member(rt, p) /\ \A l \in Levels : ~Member(ml[l], p)
  BY DEF In
<1>p. p \in Procs /\ policy[p] \in Policies /\ lvl[p] \in Levels
  BY DEF Procs
<1>1. CASE policy[p] \in {"SCHED_FIFO", "SCHED_RR"}
  <2> DEFINE r == rt_enqueue(rt, p)
  <2>1. RtAdd(rt, p) = r /\ MlfqAdd(ml, p, lvl[p]) = ml
    BY <1>1 DEF RtAdd, MlfqAdd
  <2>2. /\ r \in Seq(Slots) /\ Distinct(r)
        /\ \A x : Member(r, x) <=> Member(rt, x) \/ x = p
        /\ Sorted(rt) => Sorted(r)
    BY <1>0, RtEnqueue
  <2> HIDE DEF r
  <2>3. QueuesOK(r, ml, lvl)
    BY <1>1, <2>2
  <2>4. \A x \in Slots : In(r, ml, x) <=> In(rt, ml, x) \/ x = p
    BY <2>2 DEF In
  <2> QED BY <1>1, <2>1, <2>2, <2>3, <2>4
<1>2. CASE policy[p] = "SCHED_NORMAL"
  <2> DEFINE l == lvl[p]
             m == [ml EXCEPT ![l] = Append(ml[l], p)]
  <2>1. RtAdd(rt, p) = rt
    BY <1>2 DEF RtAdd
  <2>2. MlfqAdd(ml, p, l) = m
    <3>1. mlfq_enqueue(ml[l], p) = Append(ml[l], p)
      BY <1>0, <1>p, MlfqEnqueue
    <3> QED BY <1>2, <3>1 DEF MlfqAdd
  <2>3. /\ Append(ml[l], p) \in Seq(Slots)
        /\ \A x : Member(Append(ml[l], p), x) <=> Member(ml[l], x) \/ x = p
        /\ Distinct(Append(ml[l], p))
    BY <1>0, <1>p, AppendMember, SMT
  <2>4. m \in [Levels -> Seq(Slots)] /\ m[l] = Append(ml[l], p)
        /\ \A k \in Levels \ {l} : m[k] = ml[k]
    BY <1>p, <2>3
  <2> HIDE DEF m
  <2>m. ASSUME NEW x, NEW k \in Levels
        PROVE  Member(m[k], x) <=> Member(ml[k], x) \/ (x = p /\ k = l)
    <3>1. CASE k = l
      BY <3>1, <2>3, <2>4, SMT
    <3>2. CASE k # l
      BY <3>2, <2>4
    <3> QED BY <3>1, <3>2
  <2>5. QueuesOK(rt, m, lvl)
    <3>1. \A k \in Levels : Distinct(m[k])
      BY <2>3, <2>4
    <3>2. \A x \in Slots, k \in Levels :
            Member(m[k], x) => policy[x] = "SCHED_NORMAL" /\ lvl[x] = k
      BY <1>2, <2>m
    <3> QED BY <2>4, <3>1, <3>2
  <2>6. \A x \in Slots : In(rt, m, x) <=> In(rt, ml, x) \/ x = p
    BY <1>p, <2>m DEF In
  <2> QED BY <1>2, <2>1, <2>2, <2>5, <2>6, SMT
<1>3. CASE policy[p] = "SCHED_IDLE"
  <2>1. RtAdd(rt, p) = rt /\ MlfqAdd(ml, p, lvl[p]) = ml
    BY <1>3 DEF RtAdd, MlfqAdd
  <2> QED BY <1>3, <2>1
<1> QED BY <1>p, <1>1, <1>2, <1>3 DEF Policies

\* The lower queues hold SCHED_NORMAL processes only: aging drops none.
LEMMA KeepsAll ==
  ASSUME NEW rt, NEW ml, NEW lvl, QueuesOK(rt, ml, lvl), NEW l \in Levels
  PROVE  KeepNormal(ml[l]) = ml[l]
<1> SUFFICES ASSUME NEW i \in 1 .. Len(ml[l])
             PROVE  policy[ml[l][i]] = "SCHED_NORMAL"
  BY DEF KeepNormal, IsNormal
<1>1. ml[l][i] \in Slots
  BY ElementOfSeq DEF QueuesOK
<1>2. Member(ml[l], ml[l][i])
  BY DEF Member
<1> QED BY <1>1, <1>2 DEF QueuesOK

\* Aging keeps every process of the queues in the queues, moves those of the
\* lower levels to level 0 and changes the level and the slice of no other.
LEMMA AgedFacts ==
  ASSUME NEW rt, NEW ml, NEW lvl \in [Procs -> Levels],
         NEW ts \in [Procs -> Nat], NEW due \in BOOLEAN,
         QueuesOK(rt, ml, lvl)
  PROVE  /\ QueuesOK(rt, AgedQueues(due, ml), AgedLevel(due, ml, lvl))
         /\ \A x \in Slots : In(rt, AgedQueues(due, ml), x) <=> In(rt, ml, x)
         /\ AgedLevel(due, ml, lvl) \in [Procs -> Levels]
         /\ AgedSlice(due, ml, ts) \in [Procs -> Nat]
         /\ \A x \in Procs : ~In(rt, ml, x) =>
              /\ AgedLevel(due, ml, lvl)[x] = lvl[x]
              /\ AgedSlice(due, ml, ts)[x] = ts[x]
<1>k. \A l \in Levels : KeepNormal(ml[l]) = ml[l]
  BY KeepsAll
<1> USE DEF QueuesOK
<1>0. /\ 0 \in Levels /\ 1 \in Levels /\ 2 \in Levels /\ 3 \in Levels
      /\ queue_time_slices[0] \in Nat
  BY LevelsAre, ConstantsAssumption
<1>t. /\ AgedLevel(due, ml, lvl) \in [Procs -> Levels]
      /\ AgedSlice(due, ml, ts) \in [Procs -> Nat]
  BY <1>0 DEF AgedLevel, AgedSlice
<1>1. CASE ~due
  <2>1. AgedQueues(due, ml) = ml
    BY <1>1 DEF AgedQueues
  <2>2. \A x \in Procs : AgedLevel(due, ml, lvl)[x] = lvl[x]
                        /\ AgedSlice(due, ml, ts)[x] = ts[x]
    BY <1>1 DEF AgedLevel, AgedSlice
  <2>3. \A x \in Slots : AgedLevel(due, ml, lvl)[x] = lvl[x]
    BY <2>2 DEF Procs
  <2> QED BY <1>t, <2>1, <2>2, <2>3
<1>2. CASE due
  <2>1. \A l \in Levels : KeepNormal(ml[l]) = ml[l]
    BY <1>k
  <2> DEFINE d == ml[1] \o ml[2]
             b == d \o ml[3]
             c == ml[0] \o b
  <2>2. Boosted(ml) = b
    BY <1>0, <2>1 DEF Boosted
  <2>3. \A x, k, l : k \in Levels /\ l \in Levels /\ k # l =>
          ~(Member(ml[k], x) /\ Member(ml[l], x))
    <3> SUFFICES ASSUME NEW x, NEW k \in Levels, NEW l \in Levels,
                        Member(ml[k], x), Member(ml[l], x)
                 PROVE  k = l
      OBVIOUS
    <3>1. x \in Slots
      BY ElementOfSeq, SMT DEF Member
    <3>2. lvl[x] = k /\ lvl[x] = l
      BY <3>1
    <3> QED BY <3>2
  <2>s. /\ ml[0] \in Seq(Slots) /\ Distinct(ml[0])
        /\ ml[1] \in Seq(Slots) /\ Distinct(ml[1])
        /\ ml[2] \in Seq(Slots) /\ Distinct(ml[2])
        /\ ml[3] \in Seq(Slots) /\ Distinct(ml[3])
    BY <1>0
  <2>4. /\ d \in Seq(Slots)
        /\ Distinct(d)
        /\ \A x : Member(d, x) <=> Member(ml[1], x) \/ Member(ml[2], x)
    <3>1. \A x : ~(Member(ml[1], x) /\ Member(ml[2], x))
      BY <1>0, <2>3, SMT
    <3> QED BY <2>s, <3>1, ConcatMember, SMT
  <2> HIDE DEF d
  <2>5. /\ b \in Seq(Slots)
        /\ Distinct(b)
        /\ \A x : Member(b, x) <=>
             Member(ml[1], x) \/ Member(ml[2], x) \/ Member(ml[3], x)
    <3>1. \A x : ~(Member(d, x) /\ Member(ml[3], x))
      <4>1. \A x : ~(Member(ml[1], x) /\ Member(ml[3], x))
        BY <1>0, <2>3, SMT
      <4>2. \A x : ~(Member(ml[2], x) /\ Member(ml[3], x))
        BY <1>0, <2>3, SMT
      <4> QED BY <2>4, <4>1, <4>2
    <3> QED BY <2>s, <2>4, <3>1, ConcatMember, SMT
  <2> HIDE DEF b
  <2>6. /\ c \in Seq(Slots)
        /\ Distinct(c)
        /\ \A x : Member(c, x) <=> Member(ml[0], x) \/ Member(b, x)
    <3>1. \A x : ~(Member(ml[0], x) /\ Member(b, x))
      <4>1. \A x : ~(Member(ml[0], x) /\ Member(ml[1], x))
        BY <1>0, <2>3, SMT
      <4>2. \A x : ~(Member(ml[0], x) /\ Member(ml[2], x))
        BY <1>0, <2>3, SMT
      <4>3. \A x : ~(Member(ml[0], x) /\ Member(ml[3], x))
        BY <1>0, <2>3, SMT
      <4> QED BY <2>5, <4>1, <4>2, <4>3
    <3> QED BY <2>s, <2>5, <3>1, ConcatMember
  <2> HIDE DEF c
  <2>7. FillTo(c) = c
    BY <2>6, SlotsFinite, DistinctBound DEF FillTo
  <2> DEFINE q == AgedQueues(due, ml)
             v == AgedLevel(due, ml, lvl)
  <2>8. q \in [Levels -> Seq(Slots)] /\ q[0] = c
        /\ \A l \in Levels \ {0} : q[l] = <<>>
    <3>1. <<>> \in Seq(Slots)
      BY SMT
    <3>2. q = [l \in Levels |-> IF l = 0 THEN c ELSE <<>>]
      BY <1>2, <2>2, <2>7 DEF AgedQueues, c
    <3> QED BY <1>0, <2>6, <3>1, <3>2, SMT
  <2>9. \A x : ~Member(<<>>, x) /\ Distinct(<<>>)
    BY SMT DEF Member, Distinct
  <2>10. \A x \in Slots : v[x] = IF Member(b, x) THEN 0 ELSE lvl[x]
    BY <1>2, <2>2 DEF AgedLevel, BoostedSet, Procs
  <2>11. \A x \in Procs : ~Member(b, x) =>
           v[x] = lvl[x] /\ AgedSlice(due, ml, ts)[x] = ts[x]
    BY <1>2, <2>2 DEF AgedLevel, AgedSlice, BoostedSet, Procs
  <2> HIDE DEF q, v
  <2>12. \A x : Member(b, x) => \E l \in Levels : Member(ml[l], x)
    BY <1>0, <2>5
  <2>13. QueuesOK(rt, q, v)
    <3>1. \A l \in Levels : Distinct(q[l])
      BY <2>6, <2>8, <2>9
    <3>2. ASSUME NEW x \in Slots, NEW l \in Levels, Member(q[l], x)
          PROVE  policy[x] = "SCHED_NORMAL" /\ v[x] = l
      <4>1. l = 0 /\ Member(c, x)
        BY <3>2, <2>8, <2>9, SMT
      <4>2. policy[x] = "SCHED_NORMAL"
        BY <1>0, <2>6, <2>12, <4>1
      <4>3. v[x] = 0
        BY <1>0, <2>6, <2>10, <4>1
      <4> QED BY <4>1, <4>2, <4>3
    <3> QED BY <2>8, <3>1, <3>2
  <2>14. \A x \in Slots : In(rt, q, x) <=> In(rt, ml, x)
    <3>1. \A x : (\E l \in Levels : Member(q[l], x)) <=> Member(c, x)
      <4>1. ASSUME NEW x, NEW l \in Levels, Member(q[l], x)
            PROVE  Member(c, x)
        <5>1. CASE l = 0
          BY <2>8, <4>1, <5>1
        <5>2. CASE l # 0
          BY <2>8, <2>9, <4>1, <5>2, SMT
        <5> QED BY <5>1, <5>2
      <4>2. \A x : Member(c, x) => 0 \in Levels /\ Member(q[0], x)
        BY <1>0, <2>8
      <4> QED BY <4>1, <4>2
    <3>2. \A x : (\E l \in Levels : Member(ml[l], x)) <=> Member(c, x)
      <4>1. ASSUME NEW x
            PROVE  (\E l \in {0, 1, 2, 3} : Member(ml[l], x)) <=>
                     \/ Member(ml[0], x) \/ Member(ml[1], x)
                     \/ Member(ml[2], x) \/ Member(ml[3], x)
        OBVIOUS
      <4> QED BY LevelsAre, <2>5, <2>6, <4>1
    <3> QED BY <3>1, <3>2 DEF In
  <2>15. \A x \in Procs : ~In(rt, ml, x) => ~Member(b, x)
    BY <2>12 DEF In
  <2> QED BY <1>t, <2>11, <2>13, <2>14, <2>15 DEF q, v
<1> QED BY <1>1, <1>2

\* sched_next changes the order of nobody.
LEMMA NextOrder ==
  ASSUME QueuesOK(rt_queue, ready_queues, queue_level), NEW a, NEW b
  PROVE  /\ Before(RtRest, a, b) => Before(rt_queue, a, b)
         /\ \A l \in Levels : Before(MlfqRest[l], a, b) => Before(ready_queues[l], a, b)
<1>1. rt_queue \in Seq(Slots) /\ ready_queues \in [Levels -> Seq(Slots)]
  BY DEF QueuesOK
<1>2. Before(RtRest, a, b) => Before(rt_queue, a, b)
  <2>1. CASE PicksRt
    BY <1>1, <2>1, TailBefore DEF RtRest, PicksRt
  <2>2. CASE ~PicksRt
    BY <2>2 DEF RtRest
  <2> QED BY <2>1, <2>2
<1>3. ASSUME NEW l \in Levels, Before(MlfqRest[l], a, b)
      PROVE  Before(ready_queues[l], a, b)
  <2>1. CASE PicksMlfq /\ l = PickedLevel
    <3>1. MlfqRest[l] = Tail(ready_queues[l])
      BY <1>1, <1>3, <2>1 DEF MlfqRest
    <3>2. ready_queues[l] # <<>> /\ ready_queues[l] \in Seq(Slots)
      BY <1>1, <2>1, PickedLevelIs
    <3> QED BY <1>3, <3>1, <3>2, TailBefore
  <2>2. CASE ~(PicksMlfq /\ l = PickedLevel)
    <3>1. MlfqRest[l] = ready_queues[l]
      BY <1>1, <1>3, <2>2 DEF MlfqRest
    <3> QED BY <1>3, <3>1
  <2> QED BY <2>1, <2>2
<1> QED BY <1>2, <1>3

\* sched_add changes the order of nobody else.
LEMMA AddOrder ==
  ASSUME NEW rt \in Seq(Slots), NEW ml \in [Levels -> Seq(Slots)],
         NEW p \in Slots, NEW level \in Levels, priority \in [Procs -> Int],
         NEW a, NEW b, a # p, b # p
  PROVE  /\ Before(RtAdd(rt, p), a, b) => Before(rt, a, b)
         /\ \A l \in Levels :
              Before(MlfqAdd(ml, p, level)[l], a, b) => Before(ml[l], a, b)
<1>1. ASSUME Before(RtAdd(rt, p), a, b) PROVE Before(rt, a, b)
  <2> DEFINE i == CHOOSE i \in 0 .. Len(rt) : ScanStop(rt, p, i)
  <2>1. i \in 0 .. Len(rt)
    <3>1. \E k \in 0 .. Len(rt) : ScanStop(rt, p, k)
      BY ScanStops
    <3> QED BY <3>1
  <2>2. RtAdd(rt, p) = rt \/ RtAdd(rt, p) = InsertAfter(rt, i, p)
    BY DEF RtAdd, rt_enqueue
  <2> HIDE DEF i
  <2> QED BY <1>1, <2>1, <2>2, InsertBefore, SMT
<1>2. ASSUME NEW l \in Levels, Before(MlfqAdd(ml, p, level)[l], a, b)
      PROVE  Before(ml[l], a, b)
  <2>1. \/ MlfqAdd(ml, p, level)[l] = ml[l]
        \/ MlfqAdd(ml, p, level)[l] = Append(ml[l], p)
    BY DEF MlfqAdd, mlfq_enqueue
  <2>2. ml[l] \in Seq(Slots)
    OBVIOUS
  <2>3. CASE MlfqAdd(ml, p, level)[l] = ml[l]
    BY <1>2, <2>3
  <2>4. CASE MlfqAdd(ml, p, level)[l] = Append(ml[l], p)
    <3>1. Before(Append(ml[l], p), a, b)
      BY <1>2, <2>4
    <3> QED BY <2>2, <3>1, AppendBefore
  <2> QED BY <2>1, <2>3, <2>4
<1> QED BY <1>1, <1>2

\* Aging changes the order of no two processes of one level.
LEMMA AgedOrder ==
  ASSUME NEW rt, NEW ml, NEW lvl, NEW due \in BOOLEAN, QueuesOK(rt, ml, lvl),
         NEW a \in Slots, NEW b \in Slots, lvl[a] = lvl[b],
         NEW m \in Levels, Before(AgedQueues(due, ml)[m], a, b)
  PROVE  \E k \in Levels : Before(ml[k], a, b)
<1>0. 0 \in Levels /\ 1 \in Levels /\ 2 \in Levels /\ 3 \in Levels
  BY LevelsAre
<1>1. CASE ~due
  BY <1>1 DEF AgedQueues
<1>2. CASE due
  <2> DEFINE d == ml[1] \o ml[2]
             e == d \o ml[3]
             c == ml[0] \o e
  <2>1. /\ ml[0] \in Seq(Slots) /\ ml[1] \in Seq(Slots)
        /\ ml[2] \in Seq(Slots) /\ ml[3] \in Seq(Slots)
    BY <1>0 DEF QueuesOK
  <2>2. Boosted(ml) = e
    BY <1>0, KeepsAll DEF Boosted
  <2>3. Before(FillTo(c), a, b)
    <3>1. AgedQueues(due, ml)[m] = IF m = 0 THEN FillTo(c) ELSE <<>>
      BY <1>2, <2>2 DEF AgedQueues
    <3>2. ~Before(<<>>, a, b)
      BY SMT DEF Before
    <3> HIDE DEF c
    <3> QED BY <3>1, <3>2
  <2>4. \A k, l \in Levels : Member(ml[k], a) /\ Member(ml[l], b) => k = l
    BY SMT DEF QueuesOK
  <2>5. d \in Seq(Slots) /\ (Member(d, a) => Member(ml[1], a) \/ Member(ml[2], a))
    BY <2>1, ConcatMember, SMT
  <2> HIDE DEF d
  <2>6. e \in Seq(Slots) /\ (Member(e, b) => Member(d, b) \/ Member(ml[3], b))
    BY <2>1, <2>5, ConcatMember, SMT
  <2>7. Member(d, b) => Member(ml[1], b) \/ Member(ml[2], b)
    BY <2>1, ConcatMember, SMT DEF d
  <2> HIDE DEF e
  <2>8. c \in Seq(Slots)
    BY <2>1, <2>6, ConcatMember
  <2>9. Before(c, a, b)
    <3> HIDE DEF c
    <3> QED BY <2>3, <2>8, FillBefore
  <2>10. Before(ml[0], a, b) \/ Before(e, a, b)
    <3>1. ~(Member(ml[0], a) /\ Member(e, b))
      BY <1>0, <2>4, <2>6, <2>7, SMT
    <3> QED BY <2>1, <2>6, <2>9, <3>1, ConcatBefore
  <2>11. Before(e, a, b) => Before(d, a, b) \/ Before(ml[3], a, b)
    <3>1. ~(Member(d, a) /\ Member(ml[3], b))
      BY <1>0, <2>4, <2>5, SMT
    <3> QED BY <2>1, <2>5, <3>1, ConcatBefore DEF e
  <2>12. Before(d, a, b) => Before(ml[1], a, b) \/ Before(ml[2], a, b)
    <3>1. ~(Member(ml[1], a) /\ Member(ml[2], b))
      BY <1>0, <2>4, SMT
    <3> QED BY <2>1, <3>1, ConcatBefore DEF d
  <2> QED BY <1>0, <2>10, <2>11, <2>12
<1> QED BY <1>1, <1>2

\* sched_add puts a process behind its equals.
LEMMA AddTurn ==
  ASSUME NEW rt \in Seq(Slots), NEW ml \in [Levels -> Seq(Slots)],
         NEW p \in Slots, NEW level \in Levels, priority \in [Procs -> Int],
         ~In(rt, ml, p), NEW b \in Slots
  PROVE  /\ priority[b] <= priority[p] => ~Before(RtAdd(rt, p), p, b)
         /\ \A l \in Levels : ~Before(MlfqAdd(ml, p, level)[l], p, b)
<1>0. ~Member(rt, p) /\ \A l \in Levels : ~Member(ml[l], p)
  BY DEF In
<1>1. ASSUME Before(RtAdd(rt, p), p, b) PROVE ~(priority[b] <= priority[p])
  <2> DEFINE i == CHOOSE i \in 0 .. Len(rt) : ScanStop(rt, p, i)
  <2>1. i \in 0 .. Len(rt) /\ ScanStop(rt, p, i)
    <3>1. \E k \in 0 .. Len(rt) : ScanStop(rt, p, k)
      BY ScanStops
    <3> QED BY <3>1
  <2>2. RtAdd(rt, p) = rt \/ RtAdd(rt, p) = InsertAfter(rt, i, p)
    BY DEF RtAdd, rt_enqueue
  <2> HIDE DEF i
  <2>3. ~Before(rt, p, b)
    BY <1>0 DEF Before, Member
  <2>4. Before(InsertAfter(rt, i, p), p, b)
    BY <1>1, <2>2, <2>3
  <2>5. PICK j \in i + 1 .. Len(rt) : rt[j] = b
    BY <1>0, <2>1, <2>4, InsertBehind, SMT
  <2>6. priority[b] > priority[p]
    BY <2>1, <2>5 DEF ScanStop
  <2>7. priority[b] \in Int /\ priority[p] \in Int
    BY DEF Procs
  <2> QED BY <2>6, <2>7, SMT
<1>2. ASSUME NEW l \in Levels PROVE ~Before(MlfqAdd(ml, p, level)[l], p, b)
  <2>1. \/ MlfqAdd(ml, p, level)[l] = ml[l]
        \/ MlfqAdd(ml, p, level)[l] = Append(ml[l], p)
    BY DEF MlfqAdd, mlfq_enqueue
  <2>2. ml[l] \in Seq(Slots) /\ ~Member(ml[l], p)
    BY <1>0
  <2>3. ~Before(ml[l], p, b)
    BY <2>2 DEF Before, Member
  <2>4. ~Before(Append(ml[l], p), p, b)
    BY <2>2, AppendLast
  <2> QED BY <2>1, <2>3, <2>4
<1> QED BY <1>1, <1>2

\* Aging puts nobody before a process that keeps its level.
LEMMA AgedTurn ==
  ASSUME NEW rt, NEW ml, NEW lvl, NEW due \in BOOLEAN, QueuesOK(rt, ml, lvl),
         NEW a \in Slots, NEW b \in Slots, NEW m \in Levels, lvl[b] = m,
         Before(AgedQueues(due, ml)[m], a, b)
  PROVE  Before(ml[m], a, b)
<1>0. 0 \in Levels /\ 1 \in Levels /\ 2 \in Levels /\ 3 \in Levels
  BY LevelsAre
<1>1. CASE ~due
  BY <1>1 DEF AgedQueues
<1>2. CASE due
  <2> DEFINE d == ml[1] \o ml[2]
             e == d \o ml[3]
             c == ml[0] \o e
  <2>1. /\ ml[0] \in Seq(Slots) /\ ml[1] \in Seq(Slots)
        /\ ml[2] \in Seq(Slots) /\ ml[3] \in Seq(Slots)
    BY <1>0 DEF QueuesOK
  <2>2. Boosted(ml) = e
    BY <1>0, KeepsAll DEF Boosted
  <2>3. m = 0 /\ Before(FillTo(c), a, b)
    <3>1. AgedQueues(due, ml)[m] = IF m = 0 THEN FillTo(c) ELSE <<>>
      BY <1>2, <2>2 DEF AgedQueues
    <3>2. ~Before(<<>>, a, b)
      BY SMT DEF Before
    <3> HIDE DEF c
    <3> QED BY <3>1, <3>2
  <2>4. ~Member(ml[1], b) /\ ~Member(ml[2], b) /\ ~Member(ml[3], b)
    BY <1>0, <2>3, SMT DEF QueuesOK
  <2>5. d \in Seq(Slots) /\ ~Member(d, b)
    BY <2>1, <2>4, ConcatMember, SMT
  <2> HIDE DEF d
  <2>6. e \in Seq(Slots) /\ ~Member(e, b)
    BY <2>1, <2>4, <2>5, ConcatMember, SMT
  <2> HIDE DEF e
  <2>7. c \in Seq(Slots)
    BY <2>1, <2>6, ConcatMember
  <2>8. Before(c, a, b)
    <3> HIDE DEF c
    <3> QED BY <2>3, <2>7, FillBefore
  <2>9. ~Before(e, a, b)
    BY <2>6 DEF Before, Member
  <2> QED BY <2>1, <2>3, <2>6, <2>8, <2>9, ConcatBefore
<1> QED BY <1>1, <1>2

-----------------------------------------------------------------------------
(***************************************************************************)
(* The inductive invariant.  Beside the properties of Scheduler it says    *)
(* that a process its creator still holds is RUNNABLE, hence not on the    *)
(* CPU, and that only the idle process runs as SCHED_IDLE.                  *)
(***************************************************************************)
HeldRunnable == \A p \in held : state[p] = RUNNABLE

RunnerPolicy ==
  /\ policy[Idle] = "SCHED_IDLE"
  /\ current \in Slots => policy[current] # "SCHED_IDLE"

IInv ==
  /\ TypeOK
  /\ QueuesDistinct
  /\ Routed
  /\ RtSorted
  /\ QueuedIsReady
  /\ NoProcessLost
  /\ OneRunning
  /\ HeldRunnable
  /\ RunnerPolicy
  /\ RunnerHasSlice
  /\ TrapStateIntact

LEMMA QueuedIsIn ==
  \A p : Queued(p) <=> In(rt_queue, ready_queues, p)
BY DEF Queued, InRt, InLevel, In

LEMMA IInvQueuesOK ==
  ASSUME TypeOK, QueuesDistinct, Routed
  PROVE  QueuesOK(rt_queue, ready_queues, queue_level)
BY DEF TypeOK, QueuesDistinct, Routed, QueuesOK, InRt, InLevel

LEMMA PriorityInt == ASSUME TypeOK PROVE priority \in [Procs -> Int]
BY ConstantsAssumption, SMT DEF TypeOK, PRIORITY_MIN

LEMMA NullFacts == Idle \notin Slots /\ NULL \notin Procs /\ NULL \notin Slots
BY ConstantsAssumption DEF Procs

\* The initial state satisfies it.
LEMMA InitIInv == Init => IInv
<1> SUFFICES ASSUME Init PROVE IInv
  OBVIOUS
<1> USE DEF Init
<1>0. \A p \in Slots : ~Queued(p)
  BY SMT DEF Queued, InRt, InLevel, Member
<1>1. TypeOK
  <2>1. <<>> \in Seq(Slots)
    BY SMT
  <2>2. 0 \in Levels /\ NUM_QUEUE_LEVELS - 1 \in Levels
    BY SMT DEF Levels, NUM_QUEUE_LEVELS
  <2>3. 0 \in PRIORITY_MIN .. PRIORITY_MAX /\ PRIORITY_MAX \in PRIORITY_MIN .. PRIORITY_MAX
    BY ConstantsAssumption, SMT DEF PRIORITY_MIN
  <2>4. 0 \in 0 .. AgingPeriod - 1
    BY ConstantsAssumption, SMT
  <2>5. InitialContext \in Contexts
    BY ConstantsAssumption DEF Contexts
  <2> QED BY <2>1, <2>2, <2>3, <2>4, <2>5 DEF TypeOK, Policies, UNUSED, RUNNABLE, RUNNING
<1>2. QueuesDistinct /\ RtSorted
  BY SMT DEF QueuesDistinct, Distinct, RtSorted, Sorted
<1>3. Routed /\ QueuedIsReady
  BY <1>0 DEF Routed, QueuedIsReady, Queued
<1>4. NoProcessLost
  BY NullFacts DEF NoProcessLost, Added, Procs, UNUSED, RUNNABLE
<1>5. OneRunning /\ HeldRunnable /\ RunnerPolicy /\ RunnerHasSlice
  BY NullFacts DEF OneRunning, HeldRunnable, RunnerPolicy, RunnerHasSlice,
                   Procs, UNUSED, RUNNABLE, RUNNING
<1>6. TrapStateIntact
  BY ConstantsAssumption DEF TrapStateIntact, Suspended
<1> QED BY <1>1, <1>2, <1>3, <1>4, <1>5, <1>6 DEF IInv

-----------------------------------------------------------------------------
(***************************************************************************)
(* context_switch.                                                         *)
(***************************************************************************)

\* The queues and levels between the first stage of a switch away from the
\* current process, sched_next, and the last, aging.
RtBetween ==
  IF Requeues(current) THEN RtAdd(RtRest, current) ELSE RtRest
LevelBetween(ts) == DemotedLevel(current, ts)
MlfqBetween(ts) ==
  IF Requeues(current)
  THEN MlfqAdd(MlfqRest, current, LevelBetween(ts)[current]) ELSE MlfqRest

\* What context_switch assigns, by stages.
LEMMA SwitchAssigns ==
  ASSUME NEW point, NEW ts, NEW tk, NEW on,
         context_switch(current, sched_next, point, ts, tk, on)
  PROVE  LET due == context[sched_next] = "tick" /\ tk = 0 IN
         /\ rt_queue' = RtBetween
         /\ ready_queues' = AgedQueues(due, MlfqBetween(ts))
         /\ queue_level' = AgedLevel(due, MlfqBetween(ts), LevelBetween(ts))
         /\ time_slice' = AgedSlice(due, MlfqBetween(ts), Refill(ts))
  BY DEF context_switch, RtBetween, MlfqBetween, LevelBetween

\* The first two stages: the new process has left the queues, and the old one
\* is in them if its policy says so.
LEMMA SwitchStages ==
  ASSUME IInv, NEW ts \in [Procs -> Nat]
  PROVE  /\ sched_next \in Procs
         /\ sched_next = Idle \/ Queued(sched_next)
         /\ sched_next # current \/ sched_next = Idle
         /\ PicksMlfq => /\ sched_next \in Slots
                         /\ queue_level[sched_next] = PickedLevel
                         /\ PickedLevel \in Levels
         /\ sched_next \in Slots /\ ~PicksMlfq =>
              policy[sched_next] # "SCHED_NORMAL"
         /\ LevelBetween(ts) \in [Procs -> Levels]
         /\ \A x \in Slots \ {current} : LevelBetween(ts)[x] = queue_level[x]
         /\ QueuesOK(RtBetween, MlfqBetween(ts), LevelBetween(ts))
         /\ Sorted(RtBetween)
         /\ \A x \in Slots : In(RtBetween, MlfqBetween(ts), x) <=>
              \/ Queued(x) /\ x # sched_next
              \/ x = current /\ Requeues(x)
<1> DEFINE old == current
           new == sched_next
           lvl == LevelBetween(ts)
           rt == RtBetween
           ml == MlfqBetween(ts)
<1>1. QueuesOK(rt_queue, ready_queues, queue_level)
  BY IInvQueuesOK DEF IInv
<1>2. /\ QueuesOK(RtRest, MlfqRest, queue_level)
      /\ new \in Procs
      /\ new = Idle \/ Queued(new)
      /\ \A p \in Slots : In(RtRest, MlfqRest, p) <=> Queued(p) /\ p # new
      /\ Sorted(RtRest)
      /\ PicksMlfq => /\ new \in Slots
                      /\ queue_level[new] = PickedLevel
                      /\ PickedLevel \in Levels
      /\ new \in Slots /\ ~PicksMlfq => policy[new] # "SCHED_NORMAL"
  <2>1. Sorted(rt_queue)
    BY DEF IInv, RtSorted
  <2> QED BY <1>1, <2>1, NextFacts, QueuedIsIn
<1>3. old \in Slots => ~Queued(old) /\ ~In(RtRest, MlfqRest, old)
  BY <1>2 DEF IInv, QueuedIsReady
<1>4. new # old \/ new = Idle
  <2>1. new = Idle \/ (new \in Slots /\ Queued(new))
    BY <1>2 DEF Procs
  <2> QED BY <1>3, <2>1
<1>5. /\ lvl \in [Procs -> Levels]
      /\ \A x \in Slots \ {old} : lvl[x] = queue_level[x]
      /\ old \notin Slots => lvl = queue_level
  <2>1. queue_level \in [Procs -> Levels]
    BY DEF IInv, TypeOK
  <2>2. CASE Demotes(old, ts)
    <3>1. old \in Slots /\ old \in Procs /\ queue_level[old] < 3
      BY <2>2, SMT DEF Demotes, Requeues, Procs, NUM_QUEUE_LEVELS
    <3>2. queue_level[old] + 1 \in Levels
      BY <2>1, <3>1, SMT DEF Levels, NUM_QUEUE_LEVELS
    <3>3. lvl = [queue_level EXCEPT ![old] = queue_level[old] + 1]
      BY <2>2 DEF DemotedLevel, LevelBetween
    <3> QED BY <2>1, <3>1, <3>2, <3>3 DEF Procs
  <2>3. CASE ~Demotes(old, ts)
    BY <2>1, <2>3 DEF DemotedLevel, LevelBetween
  <2> QED BY <2>2, <2>3
<1> HIDE DEF lvl
<1>6. QueuesOK(RtRest, MlfqRest, lvl)
  <2>1. CASE old \in Slots
    BY <2>1, <1>2, <1>3, <1>5, LevelChange
  <2>2. CASE old \notin Slots
    BY <2>2, <1>2, <1>5
  <2> QED BY <2>1, <2>2
<1>7. /\ QueuesOK(rt, ml, lvl)
      /\ Sorted(rt)
      /\ \A x \in Slots : In(rt, ml, x) <=>
           In(RtRest, MlfqRest, x) \/ (x = old /\ Requeues(x))
  <2>1. CASE Requeues(old)
    <3>1. old \in Slots /\ policy[old] # "SCHED_IDLE"
      BY <2>1 DEF Requeues
    <3>2. priority \in [Procs -> Int] /\ policy \in [Procs -> Policies]
      BY PriorityInt DEF IInv, TypeOK
    <3>3. /\ QueuesOK(RtAdd(RtRest, old), MlfqAdd(MlfqRest, old, lvl[old]), lvl)
          /\ \A x \in Slots :
               In(RtAdd(RtRest, old), MlfqAdd(MlfqRest, old, lvl[old]), x) <=>
                 In(RtRest, MlfqRest, x) \/ x = old
          /\ Sorted(RtAdd(RtRest, old))
      BY <1>2, <1>3, <1>5, <1>6, <3>1, <3>2, AddFacts, SMT
    <3> QED BY <2>1, <3>3 DEF RtBetween, MlfqBetween, lvl
  <2>2. CASE ~Requeues(old)
    BY <2>2, <1>2, <1>6 DEF RtBetween, MlfqBetween
  <2> QED BY <2>1, <2>2
<1>8. \A x \in Slots : In(rt, ml, x) <=>
        \/ Queued(x) /\ x # new
        \/ x = old /\ Requeues(x)
  BY <1>2, <1>7
<1> HIDE DEF rt, ml
<1> QED BY <1>2, <1>4, <1>5, <1>7, <1>8 DEF lvl, rt, ml

\* What a switch to sched_next does to the queues, the levels and the slices:
\* the new process leaves the queues, the old one enters them if its policy
\* says so, and aging, if it is due, loses nobody.
LEMMA SwitchFacts ==
  ASSUME IInv, NEW point, NEW ts \in [Procs -> Nat], NEW tk, NEW on,
         context_switch(current, sched_next, point, ts, tk, on)
  PROVE  /\ QueuesOK(rt_queue', ready_queues', queue_level')
         /\ Sorted(rt_queue')
         /\ queue_level' \in [Procs -> Levels]
         /\ time_slice' \in [Procs -> Nat]
         /\ sched_next \in Procs
         /\ sched_next # current \/ sched_next = Idle
         /\ sched_next \in Slots => Queued(sched_next)
         /\ sched_next \in Slots => queue_level'[sched_next] = queue_level[sched_next]
         /\ \A x \in Slots : In(rt_queue', ready_queues', x) <=>
              \/ Queued(x) /\ x # sched_next
              \/ x = current /\ Requeues(x)
         /\ sched_next \in Slots /\ policy[sched_next] = "SCHED_NORMAL" =>
              time_slice'[sched_next] =
                queue_time_slices[queue_level'[sched_next]]
<1> DEFINE old == current
           new == sched_next
           lvl == LevelBetween(ts)
           rt == RtBetween
           ml == MlfqBetween(ts)
           due == context[new] = "tick" /\ tk = 0
<1>0. /\ rt_queue' = rt
      /\ ready_queues' = AgedQueues(due, ml)
      /\ queue_level' = AgedLevel(due, ml, lvl)
      /\ time_slice' = AgedSlice(due, ml, Refill(ts))
  BY SwitchAssigns
<1> HIDE DEF due, lvl, rt, ml
<1>1. /\ new \in Procs
      /\ new = Idle \/ Queued(new)
      /\ new # old \/ new = Idle
      /\ PicksMlfq => /\ new \in Slots
                      /\ queue_level[new] = PickedLevel
                      /\ PickedLevel \in Levels
      /\ new \in Slots /\ ~PicksMlfq => policy[new] # "SCHED_NORMAL"
  BY SwitchStages
<1>2. /\ lvl \in [Procs -> Levels]
      /\ \A x \in Slots \ {old} : lvl[x] = queue_level[x]
      /\ QueuesOK(rt, ml, lvl)
      /\ Sorted(rt)
      /\ \A x \in Slots : In(rt, ml, x) <=>
           \/ Queued(x) /\ x # new
           \/ x = old /\ Requeues(x)
  BY SwitchStages DEF lvl, rt, ml
<1>3. Refill(ts) \in [Procs -> Nat]
  <2>1. CASE PicksMlfq
    <3>1. queue_time_slices[PickedLevel] \in Nat
      BY <2>1, <1>1, ConstantsAssumption
    <3> QED BY <2>1, <3>1, <1>1 DEF Refill
  <2>2. CASE ~PicksMlfq
    BY <2>2, SMT DEF Refill
  <2> QED BY <2>1, <2>2
<1>4. /\ QueuesOK(rt, AgedQueues(due, ml), AgedLevel(due, ml, lvl))
      /\ \A x \in Slots : In(rt, AgedQueues(due, ml), x) <=> In(rt, ml, x)
      /\ AgedLevel(due, ml, lvl) \in [Procs -> Levels]
      /\ AgedSlice(due, ml, Refill(ts)) \in [Procs -> Nat]
      /\ \A x \in Procs : ~In(rt, ml, x) =>
           /\ AgedLevel(due, ml, lvl)[x] = lvl[x]
           /\ AgedSlice(due, ml, Refill(ts))[x] = Refill(ts)[x]
  <2>1. due \in BOOLEAN
    BY DEF due
  <2>2. lvl \in [Procs -> Levels] /\ QueuesOK(rt, ml, lvl)
    BY <1>2
  <2> QED BY <2>1, <2>2, <1>3, AgedFacts, SMTT(30)
<1>5. \A x \in Slots : In(rt_queue', ready_queues', x) <=>
         \/ Queued(x) /\ x # new
         \/ x = old /\ Requeues(x)
  BY <1>0, <1>1, <1>2, <1>4
<1>6. ASSUME new \in Slots
      PROVE  ~In(rt, ml, new) /\ queue_level'[new] = queue_level[new]
  <2>1. new # old /\ ~In(rt, ml, new)
    BY <1>1, <1>2, <1>6, NullFacts
  <2>2. queue_level'[new] = lvl[new] /\ lvl[new] = queue_level[new]
    BY <1>0, <1>1, <1>2, <1>4, <1>6, <2>1
  <2> QED BY <2>1, <2>2
<1>7. ASSUME new \in Slots, policy[new] = "SCHED_NORMAL"
      PROVE  time_slice'[new] = queue_time_slices[queue_level'[new]]
  <2>1. PicksMlfq
    BY <1>1, <1>7
  <2>2. time_slice'[new] = Refill(ts)[new]
    BY <1>0, <1>1, <1>4, <1>6, <1>7
  <2>3. queue_level'[new] = PickedLevel
    BY <1>1, <1>6, <1>7, <2>1
  <2>4. Refill(ts)[new] = queue_time_slices[PickedLevel]
    BY <1>1, <2>1 DEF Refill
  <2> QED BY <2>2, <2>3, <2>4
<1>8. new \in Slots => Queued(new)
  BY <1>1, NullFacts
<1> QED BY <1>0, <1>1, <1>2, <1>4, <1>5, <1>6, <1>7, <1>8

\* A switch away from the current process preserves the invariant, when it is
\* made by sched_yield with the registers as they are, or by sched_tick in a
\* trap taken with interrupts enabled.
LEMMA SwitchIInv ==
  ASSUME IInv, NEW point, NEW ts \in [Procs -> Nat], NEW tk, NEW on,
         context_switch(current, sched_next, point, ts, tk, on),
         sched_next # current,
         global_ticks' \in 0 .. AgingPeriod - 1,
         \/ point = "yield" /\ on = sie /\ trapped' = trapped
         \/ /\ point = "tick" /\ on = FALSE /\ sie
            /\ trapped' = current /\ current \in Procs
            /\ policy[current] \in {"SCHED_NORMAL", "SCHED_RR"}
  PROVE  IInv'
<1> DEFINE old == current
           new == sched_next
<1>0. /\ state' = [p \in Procs |->
                    IF p = new THEN RUNNING
                    ELSE IF p = old /\ (Requeues(p) \/ p = Idle) THEN RUNNABLE
                    ELSE state[p]]
      /\ context' = [p \in Procs |-> IF p = old THEN point ELSE context[p]]
      /\ current' = new
      /\ sie' = (on \/ context[new] = "tick")
      /\ priority' = priority /\ policy' = policy /\ held' = held
  BY DEF context_switch, InterruptsAfter
<1>1. /\ QueuesOK(rt_queue', ready_queues', queue_level')
      /\ Sorted(rt_queue')
      /\ queue_level' \in [Procs -> Levels]
      /\ time_slice' \in [Procs -> Nat]
      /\ new \in Procs
      /\ new \in Slots => Queued(new)
      /\ \A x \in Slots : In(rt_queue', ready_queues', x) <=>
           \/ Queued(x) /\ x # new
           \/ x = old /\ Requeues(x)
      /\ new \in Slots /\ policy[new] = "SCHED_NORMAL" =>
           time_slice'[new] = queue_time_slices[queue_level'[new]]
  BY SwitchFacts
<1>2. \A x \in Slots : Queued(x)' <=>
        \/ Queued(x) /\ x # new
        \/ x = old /\ Requeues(x)
  <2>1. \A x : Queued(x)' <=> In(rt_queue', ready_queues', x)
    BY DEF Queued, InRt, InLevel, In
  <2> QED BY <1>1, <2>1
<1> HIDE DEF new, old
<1>a. new # old
  BY DEF new, old
<1>b. TypeOK
  BY DEF IInv
<1>c. old # NULL => state[old] = RUNNING
  BY DEF IInv, OneRunning, old
<1>d. old \in Procs \cup {NULL}
  BY <1>b DEF TypeOK, old
<1>e. old \in Slots => policy[old] # "SCHED_IDLE"
  BY DEF IInv, RunnerPolicy, old
<1>f. Slots \subseteq Procs /\ Idle \in Procs /\ Procs = Slots \cup {Idle}
  BY DEF Procs
<1>g. RUNNABLE # RUNNING /\ RUNNABLE # UNUSED /\ RUNNING # UNUSED
  BY DEF RUNNABLE, RUNNING, UNUSED
<1>h. \A x \in Slots : Queued(x) => state[x] = RUNNABLE /\ x # old /\ x \notin held
  BY DEF IInv, QueuedIsReady, old
<1>i. \A x \in held : x \in Slots /\ state[x] = RUNNABLE
  BY <1>b DEF IInv, HeldRunnable, TypeOK
<1>j. \A x \in Slots : x = old /\ x # NULL /\ ~Requeues(x) =>
        policy[x] = "SCHED_FIFO" /\ point = "yield" /\ state[x] = RUNNING
  <2> TAKE x \in Slots
  <2> HAVE x = old /\ x # NULL /\ ~Requeues(x)
  <2>1. state[x] = RUNNING /\ policy[x] # "SCHED_IDLE"
    BY <1>c, <1>e
  <2>2. policy[x] \in Policies
    BY <1>b, <1>f DEF TypeOK
  <2>3. policy[x] = "SCHED_FIFO"
    BY <2>1, <2>2 DEF Requeues, Policies
  <2> QED BY <2>1, <2>3 DEF old
<1>k. old # NULL => old \in Procs
  BY <1>d
<1>3. TypeOK'
  <2>1. rt_queue' \in Seq(Slots) /\ ready_queues' \in [Levels -> Seq(Slots)]
    BY <1>1 DEF QueuesOK
  <2>2. state' \in [Procs -> {UNUSED, RUNNABLE, RUNNING}]
    BY <1>0, <1>b DEF TypeOK
  <2>3. context' \in [Procs -> Contexts]
    <3>1. point \in Contexts
      BY DEF Contexts
    <3> QED BY <3>1, <1>0, <1>b DEF TypeOK
  <2>4. sie' \in BOOLEAN
    BY <1>0, <1>b DEF TypeOK
  <2>5. trapped' \in Procs \cup {NULL} /\ current' \in Procs \cup {NULL}
    BY <1>0, <1>1, <1>b DEF TypeOK
  <2> QED BY <1>0, <1>1, <1>b, <2>1, <2>2, <2>3, <2>4, <2>5 DEF TypeOK
<1>4. QueuesDistinct' /\ Routed'
  BY <1>0, <1>1 DEF QueuesOK, QueuesDistinct, Routed, InRt, InLevel
<1>5. RtSorted'
  BY <1>0, <1>1 DEF RtSorted, Sorted
<1>6. QueuedIsReady'
  <2> SUFFICES ASSUME NEW x \in Slots, Queued(x)'
               PROVE  state'[x] = RUNNABLE /\ x # current' /\ x \notin held'
    BY DEF QueuedIsReady
  <2>1. CASE Queued(x) /\ x # new
    BY <2>1, <1>0, <1>f, <1>h
  <2>2. CASE x = old /\ Requeues(x)
    <3>1. state[x] = RUNNING
      BY <2>2 DEF Requeues
    <3> QED BY <2>2, <3>1, <1>0, <1>a, <1>f, <1>g, <1>i
  <2> QED BY <1>2, <2>1, <2>2
<1>7. NoProcessLost'
  <2> SUFFICES ASSUME NEW x \in Slots, state'[x] # UNUSED, x \notin held, x # new
               PROVE  \/ Queued(x)'
                      \/ policy[x] = "SCHED_IDLE" /\ state'[x] = RUNNABLE
                      \/ /\ policy[x] = "SCHED_FIFO" /\ state'[x] = RUNNING
                         /\ context'[x] = "yield"
    BY <1>0 DEF NoProcessLost, Added
  <2>0. x # Idle /\ x # NULL
    BY NullFacts
  <2>1. CASE x = old
    <3>1. CASE Requeues(x)
      BY <2>1, <3>1, <1>2
    <3>2. CASE ~Requeues(x)
      BY <2>0, <2>1, <3>2, <1>0, <1>f, <1>j
    <3> QED BY <3>1, <3>2
  <2>2. CASE x # old
    <3>1. state'[x] = state[x] /\ context'[x] = context[x]
      BY <2>2, <1>0, <1>f
    <3>2. \/ Queued(x)
          \/ policy[x] = "SCHED_IDLE" /\ state[x] = RUNNABLE
          \/ policy[x] = "SCHED_FIFO" /\ state[x] = RUNNING /\ context[x] = "yield"
      BY <2>2, <3>1 DEF IInv, NoProcessLost, Added, old
    <3> QED BY <3>1, <3>2, <1>2
  <2> QED BY <2>1, <2>2
<1>8. OneRunning'
  <2>1. state'[new] = RUNNING
    BY <1>0, <1>1
  <2>2. ASSUME NEW p \in Procs, state'[p] = RUNNING, p # new
        PROVE  p \in Slots /\ policy[p] = "SCHED_FIFO"
    <3>1. CASE p = old
      <4>1. ~Requeues(p) /\ p # Idle
        BY <2>2, <3>1, <1>0, <1>g
      <4> QED BY <3>1, <4>1, <1>f, <1>j, NullFacts
    <3>2. CASE p # old
      <4>1. state[p] = RUNNING
        BY <2>2, <3>2, <1>0
      <4> QED BY <4>1, <3>2 DEF IInv, OneRunning, old
    <3> QED BY <3>1, <3>2
  <2> QED BY <1>0, <2>1, <2>2 DEF OneRunning
<1>9. HeldRunnable'
  <2> SUFFICES ASSUME NEW p \in held PROVE state'[p] = RUNNABLE
    BY <1>0 DEF HeldRunnable
  <2>1. p \in Slots /\ state[p] = RUNNABLE
    BY <1>i
  <2>2. p # new
    BY <2>1, <1>1, <1>h
  <2> QED BY <2>1, <2>2, <1>0, <1>f
<1>10. RunnerPolicy' /\ RunnerHasSlice'
  <2> SUFFICES ASSUME new \in Slots
               PROVE  /\ policy[new] # "SCHED_IDLE"
                      /\ policy[new] = "SCHED_NORMAL" =>
                           time_slice'[new] \in 1 .. queue_time_slices[queue_level'[new]]
    BY <1>0 DEF IInv, RunnerPolicy, RunnerHasSlice
  <2>1. policy[new] # "SCHED_IDLE"
    BY <1>1 DEF IInv, Routed, Queued
  <2>2. queue_time_slices[queue_level'[new]] \in Nat \ {0}
    BY <1>1, ConstantsAssumption
  <2> QED BY <2>1, <2>2, <1>1, SMT
<1>11. TrapStateIntact'
  <2> SUFFICES ASSUME NEW p \in Procs, p # new, context'[p] = "tick"
               PROVE  ~sie' /\ trapped' = p
    BY <1>0 DEF TrapStateIntact, Suspended
  <2>1. \A x \in Procs : x # old /\ context[x] = "tick" => ~sie /\ trapped = x
    BY DEF IInv, TrapStateIntact, Suspended, old
  <2>2. CASE p = old
    <3>1. point = "tick"
      BY <2>2, <1>0
    <3>2. on = FALSE /\ sie /\ trapped' = old
      BY <3>1 DEF old
    <3> QED BY <2>1, <2>2, <3>2, <1>0, <1>1, <1>a
  <2>3. CASE p # old
    <3>1. context[p] = "tick"
      BY <2>3, <1>0
    <3>2. ~sie /\ trapped = p
      BY <2>1, <2>3, <3>1
    <3>3. on = sie /\ trapped' = trapped
      BY <3>2
    <3> QED BY <2>1, <3>2, <3>3, <1>0, <1>1, <1>a
  <2> QED BY <2>2, <2>3
<1> QED BY <1>3, <1>4, <1>5, <1>6, <1>7, <1>8, <1>9, <1>10, <1>11 DEF IInv

-----------------------------------------------------------------------------
(***************************************************************************)
(* The other operations.                                                   *)
(***************************************************************************)

\* A step that changes only fields of a slot that its creator holds, or that
\* is free, before or after the step.
LEMMA HeldStep ==
  ASSUME IInv, TypeOK', NEW p \in Slots, ~Queued(p), p # current,
         UNCHANGED <<context, queues, cpu>>,
         \A x \in Procs \ {p} :
           /\ state'[x] = state[x]
           /\ priority'[x] = priority[x]
           /\ policy'[x] = policy[x]
           /\ queue_level'[x] = queue_level[x]
           /\ time_slice'[x] = time_slice[x]
           /\ x \in held' <=> x \in held,
         IF p \in held' THEN state'[p] = RUNNABLE ELSE state'[p] = UNUSED
  PROVE  IInv'
<1>0. /\ rt_queue' = rt_queue /\ ready_queues' = ready_queues
      /\ current' = current /\ sie' = sie /\ trapped' = trapped
      /\ context' = context
  BY DEF queues, cpu
<1>1. \A x : Queued(x)' <=> Queued(x)
  BY <1>0 DEF Queued, InRt, InLevel
<1>2. Slots \subseteq Procs /\ held \subseteq Slots /\ held' \subseteq Slots
  BY DEF Procs, IInv, TypeOK
<1>3. RUNNABLE # RUNNING /\ RUNNABLE # UNUSED /\ RUNNING # UNUSED
  BY DEF RUNNABLE, RUNNING, UNUSED
<1>4. QueuesDistinct'
  BY <1>0 DEF IInv, QueuesDistinct
<1>5. Routed'
  <2>1. ~InRt(p) /\ \A l \in Levels : ~InLevel(p, l)
    BY DEF Queued
  <2> QED BY <2>1, <1>0, <1>2 DEF IInv, Routed, InRt, InLevel
<1>6. RtSorted'
  <2>1. \A i \in 1 .. Len(rt_queue) : rt_queue[i] \in Procs \ {p}
    <3>1. rt_queue \in Seq(Slots)
      BY DEF IInv, TypeOK
    <3>2. \A i \in 1 .. Len(rt_queue) : rt_queue[i] # p
      BY DEF Queued, InRt, Member
    <3>3. ASSUME NEW i \in 1 .. Len(rt_queue) PROVE rt_queue[i] \in Slots
      BY <3>1, SMT
    <3> QED BY <3>2, <3>3, <1>2
  <2>2. \A i \in 1 .. Len(rt_queue) :
          priority'[rt_queue[i]] = priority[rt_queue[i]]
    BY <2>1
  <2>3. Sorted(rt_queue)
    BY DEF IInv, RtSorted
  <2> QED BY <2>2, <2>3, <1>0, SMT DEF RtSorted, Sorted
<1>7. QueuedIsReady'
  <2> SUFFICES ASSUME NEW x \in Slots, Queued(x)
               PROVE  state'[x] = RUNNABLE /\ x # current' /\ x \notin held'
    BY <1>1 DEF QueuedIsReady
  <2>1. x \in Procs \ {p}
    BY <1>2
  <2> QED BY <2>1, <1>0 DEF IInv, QueuedIsReady
<1>8. NoProcessLost'
  <2> SUFFICES ASSUME NEW x \in Slots, state'[x] # UNUSED, x \notin held'
               PROVE  \/ Queued(x)
                      \/ current = x
                      \/ policy'[x] = "SCHED_IDLE" /\ state'[x] = RUNNABLE
                      \/ /\ policy'[x] = "SCHED_FIFO" /\ state'[x] = RUNNING
                         /\ context[x] = "yield"
    BY <1>0, <1>1 DEF NoProcessLost, Added
  <2>1. x \in Procs \ {p}
    BY <1>2
  <2> QED BY <2>1 DEF IInv, NoProcessLost, Added
<1>9. OneRunning'
  <2>1. ASSUME current # NULL PROVE state'[current] = RUNNING
    <3>1. current \in Procs \ {p}
      BY <2>1 DEF IInv, TypeOK
    <3> QED BY <2>1, <3>1 DEF IInv, OneRunning
  <2>2. ASSUME NEW x \in Procs, state'[x] = RUNNING
        PROVE  x = current \/ (x \in Slots /\ policy'[x] = "SCHED_FIFO")
    <3>1. x \in Procs \ {p}
      BY <2>2, <1>3
    <3> QED BY <3>1, <2>2 DEF IInv, OneRunning
  <2> QED BY <1>0, <2>1, <2>2 DEF OneRunning
<1>10. HeldRunnable'
  BY <1>2 DEF IInv, HeldRunnable
<1>11. RunnerPolicy' /\ RunnerHasSlice'
  <2>1. Idle \in Procs \ {p}
    BY NullFacts DEF Procs
  <2> QED BY <1>0, <1>2, <2>1 DEF IInv, RunnerPolicy, RunnerHasSlice
<1>12. TrapStateIntact'
  BY <1>0 DEF IInv, TrapStateIntact, Suspended
<1> QED BY <1>4, <1>5, <1>6, <1>7, <1>8, <1>9, <1>10, <1>11, <1>12 DEF IInv

LEMMA AllocIInv == IInv /\ process_alloc => IInv'
<1> SUFFICES ASSUME IInv, process_alloc PROVE IInv'
  OBVIOUS
<1>1. PICK p \in Slots :
       /\ state[p] = UNUSED
       /\ state' = [state EXCEPT ![p] = RUNNABLE]
       /\ priority' = [priority EXCEPT ![p] = PRIORITY_DEFAULT]
       /\ policy' = [policy EXCEPT ![p] = "SCHED_NORMAL"]
       /\ queue_level' = [queue_level EXCEPT ![p] = 0]
       /\ time_slice' = [time_slice EXCEPT ![p] = 0]
       /\ held' = held \cup {p}
  BY DEF process_alloc
<1>2. UNCHANGED <<context, queues, cpu>>
  BY DEF process_alloc
<1>3. p \in Procs /\ TypeOK
  BY DEF Procs, IInv
<1>4. ~Queued(p)
  BY <1>1 DEF IInv, QueuedIsReady, UNUSED, RUNNABLE
<1>5. p # current
  BY <1>1, NullFacts DEF IInv, OneRunning, UNUSED, RUNNING
<1>6. TypeOK'
  <2>1. PRIORITY_DEFAULT \in PRIORITY_MIN .. PRIORITY_MAX /\ 0 \in Levels
    BY ConstantsAssumption, SMT DEF PRIORITY_DEFAULT, PRIORITY_NORMAL_MIN, PRIORITY_MIN,
                               Levels, NUM_QUEUE_LEVELS
  <2>2. "SCHED_NORMAL" \in Policies
    BY DEF Policies
  <2> QED BY <1>1, <1>2, <1>3, <2>1, <2>2 DEF TypeOK, queues, cpu
<1>7. \A x \in Procs \ {p} :
        /\ state'[x] = state[x]
        /\ priority'[x] = priority[x]
        /\ policy'[x] = policy[x]
        /\ queue_level'[x] = queue_level[x]
        /\ time_slice'[x] = time_slice[x]
        /\ x \in held' <=> x \in held
  BY <1>1, <1>3 DEF TypeOK
<1>8. p \in held' /\ state'[p] = RUNNABLE
  BY <1>1, <1>3 DEF TypeOK
<1> QED BY <1>2, <1>4, <1>5, <1>6, <1>7, <1>8, HeldStep

\* What the operations on a held process start from.
LEMMA HeldFacts ==
  ASSUME IInv, NEW p \in held
  PROVE  /\ p \in Slots /\ p \in Procs /\ state[p] = RUNNABLE
         /\ ~Queued(p) /\ p # current
<1>1. p \in Slots /\ p \in Procs /\ state[p] = RUNNABLE
  BY DEF IInv, TypeOK, HeldRunnable, Procs
<1>2. ~Queued(p)
  BY <1>1 DEF IInv, QueuedIsReady
<1>3. p # current
  BY <1>1, NullFacts DEF IInv, OneRunning, RUNNABLE, RUNNING
<1> QED BY <1>1, <1>2, <1>3

LEMMA FreeIInv == ASSUME IInv, NEW p \in held, process_free(p) PROVE IInv'
<1>1. /\ state' = [state EXCEPT ![p] = UNUSED]
      /\ priority' = [priority EXCEPT ![p] = 0]
      /\ queue_level' = [queue_level EXCEPT ![p] = 0]
      /\ time_slice' = [time_slice EXCEPT ![p] = 0]
      /\ held' = held \ {p}
      /\ policy' = policy
      /\ UNCHANGED <<context, queues, cpu>>
  BY DEF process_free
<1>2. TypeOK /\ p \in Slots /\ p \in Procs /\ ~Queued(p) /\ p # current
  BY HeldFacts DEF IInv
<1>3. TypeOK'
  <2>1. 0 \in PRIORITY_MIN .. PRIORITY_MAX /\ 0 \in Levels
    BY ConstantsAssumption, SMT DEF PRIORITY_MIN, Levels, NUM_QUEUE_LEVELS
  <2> QED BY <1>1, <1>2, <2>1 DEF TypeOK, queues, cpu
<1>4. \A x \in Procs \ {p} :
        /\ state'[x] = state[x]
        /\ priority'[x] = priority[x]
        /\ policy'[x] = policy[x]
        /\ queue_level'[x] = queue_level[x]
        /\ time_slice'[x] = time_slice[x]
        /\ x \in held' <=> x \in held
  BY <1>1, <1>2 DEF TypeOK
<1>5. p \notin held' /\ state'[p] = UNUSED
  BY <1>1, <1>2 DEF TypeOK
<1> QED BY <1>1, <1>2, <1>3, <1>4, <1>5, HeldStep

LEMMA ConfigureIInv == ASSUME IInv, NEW p \in held, Configure(p) PROVE IInv'
<1>0. TypeOK /\ p \in Slots /\ p \in Procs /\ ~Queued(p) /\ p # current
      /\ state[p] = RUNNABLE
  BY HeldFacts DEF IInv
<1>1. ASSUME NEW arg \in PriorityArgs, sched_set_priority(p, arg) PROVE IInv'
  <2> DEFINE prio == Clamp(arg)
  <2>1. prio \in PRIORITY_MIN .. PRIORITY_MAX
    BY ConstantsAssumption, SMT DEF Clamp, PRIORITY_MIN
  <2>2. ~(prio <= PRIORITY_RT_MAX) => LevelOf(prio) \in Levels
    BY <2>1, LevelOfType, ConstantsAssumption, SMT DEF PRIORITY_MIN, PRIORITY_NORMAL_MIN
  <2>3. "SCHED_RR" \in Policies
    BY DEF Policies
  <2>4. /\ priority' = [priority EXCEPT ![p] = prio]
        /\ policy' = [policy EXCEPT ![p] =
                        IF prio <= PRIORITY_RT_MAX THEN "SCHED_RR" ELSE @]
        /\ queue_level' = [queue_level EXCEPT ![p] =
                        IF prio <= PRIORITY_RT_MAX THEN @ ELSE LevelOf(prio)]
        /\ UNCHANGED <<state, time_slice, context, queues, cpu, held>>
    BY <1>1 DEF sched_set_priority
  <2> HIDE DEF prio
  <2>5. TypeOK'
    BY <1>0, <2>1, <2>2, <2>3, <2>4 DEF TypeOK, queues, cpu
  <2>6. \A x \in Procs \ {p} :
          /\ state'[x] = state[x]
          /\ priority'[x] = priority[x]
          /\ policy'[x] = policy[x]
          /\ queue_level'[x] = queue_level[x]
          /\ time_slice'[x] = time_slice[x]
          /\ x \in held' <=> x \in held
    BY <1>0, <2>4 DEF TypeOK
  <2> QED BY <1>0, <2>4, <2>5, <2>6, HeldStep
<1>2. ASSUME NEW arg \in PolicyArgs, sched_set_policy(p, arg) PROVE IInv'
  <2>1. arg \in Policies
    BY ConstantsAssumption
  <2>2. /\ policy' = [policy EXCEPT ![p] = arg]
        /\ UNCHANGED <<state, priority, queue_level, time_slice, context,
                       queues, cpu, held>>
    BY <1>2 DEF sched_set_policy
  <2>3. TypeOK'
    BY <1>0, <2>1, <2>2 DEF TypeOK, queues, cpu
  <2>4. \A x \in Procs \ {p} :
          /\ state'[x] = state[x]
          /\ priority'[x] = priority[x]
          /\ policy'[x] = policy[x]
          /\ queue_level'[x] = queue_level[x]
          /\ time_slice'[x] = time_slice[x]
          /\ x \in held' <=> x \in held
    BY <1>0, <2>2 DEF TypeOK
  <2> QED BY <1>0, <2>2, <2>3, <2>4, HeldStep
<1> QED BY <1>1, <1>2 DEF Configure

\* sched_add: the process enters a queue, unless it is a SCHED_IDLE process.
LEMMA AddQueues ==
  ASSUME IInv, NEW p \in held, sched_add(p)
  PROVE  /\ QueuesOK(rt_queue', ready_queues', queue_level)
         /\ Sorted(rt_queue')
         /\ \A x \in Slots : Queued(x)' <=>
              Queued(x) \/ (x = p /\ policy[p] # "SCHED_IDLE")
<1>1. /\ rt_queue' = RtAdd(rt_queue, p)
      /\ ready_queues' = MlfqAdd(ready_queues, p, queue_level[p])
  BY DEF sched_add
<1>2. TypeOK /\ p \in Slots /\ ~Queued(p)
  BY HeldFacts DEF IInv
<1>3. /\ QueuesOK(rt_queue', ready_queues', queue_level)
      /\ \A x \in Slots : In(rt_queue', ready_queues', x) <=>
           Queued(x) \/ (x = p /\ policy[p] # "SCHED_IDLE")
      /\ Sorted(rt_queue')
  <2>1. QueuesOK(rt_queue, ready_queues, queue_level)
    BY IInvQueuesOK DEF IInv
  <2>2. queue_level \in [Procs -> Levels] /\ policy \in [Procs -> Policies]
    BY <1>2 DEF TypeOK
  <2>3. priority \in [Procs -> Int]
    BY <1>2, PriorityInt
  <2>4. ~In(rt_queue, ready_queues, p)
    BY <1>2, QueuedIsIn
  <2>5. Sorted(rt_queue)
    BY DEF IInv, RtSorted
  <2> QED BY <1>1, <1>2, <2>1, <2>2, <2>3, <2>4, <2>5, AddFacts, QueuedIsIn
<1>4. \A x \in Slots : Queued(x)' <=>
        Queued(x) \/ (x = p /\ policy[p] # "SCHED_IDLE")
  <2>1. \A x : Queued(x)' <=> In(rt_queue', ready_queues', x)
    BY DEF Queued, InRt, InLevel, In
  <2> QED BY <1>3, <2>1
<1> QED BY <1>3, <1>4

LEMMA AddIInv == ASSUME IInv, NEW p \in held, sched_add(p) PROVE IInv'
<1>1. /\ state' = [state EXCEPT ![p] = RUNNABLE]
      /\ rt_queue' = RtAdd(rt_queue, p)
      /\ ready_queues' = MlfqAdd(ready_queues, p, queue_level[p])
      /\ held' = held \ {p}
      /\ UNCHANGED <<priority, policy, queue_level, time_slice, context>>
      /\ current' = current /\ global_ticks' = global_ticks
      /\ sie' = sie /\ trapped' = trapped
  BY DEF sched_add, cpu
<1>2. TypeOK /\ p \in Slots /\ p \in Procs /\ ~Queued(p) /\ p # current
      /\ state[p] = RUNNABLE
  BY HeldFacts DEF IInv
<1>3. state' = state
  BY <1>1, <1>2 DEF TypeOK
<1>4. QueuesOK(rt_queue', ready_queues', queue_level) /\ Sorted(rt_queue')
  BY AddQueues
<1>5. \A x \in Slots : Queued(x)' <=>
        Queued(x) \/ (x = p /\ policy[p] # "SCHED_IDLE")
  BY AddQueues
<1>6. TypeOK'
  BY <1>1, <1>2, <1>3, <1>4 DEF TypeOK, QueuesOK
<1>7. QueuesDistinct' /\ Routed'
  BY <1>1, <1>4 DEF QueuesOK, QueuesDistinct, Routed, InRt, InLevel
<1>8. RtSorted'
  BY <1>1, <1>4 DEF RtSorted, Sorted
<1>9. QueuedIsReady'
  BY <1>1, <1>2, <1>3, <1>5 DEF IInv, QueuedIsReady
<1>10. NoProcessLost'
  <2> SUFFICES ASSUME NEW x \in Slots, state[x] # UNUSED, x \notin held \ {p}
               PROVE  \/ Queued(x)'
                      \/ current = x
                      \/ policy[x] = "SCHED_IDLE" /\ state[x] = RUNNABLE
                      \/ /\ policy[x] = "SCHED_FIFO" /\ state[x] = RUNNING
                         /\ context[x] = "yield"
    BY <1>1, <1>3 DEF NoProcessLost, Added
  <2>1. CASE x = p
    BY <2>1, <1>2, <1>5
  <2>2. CASE x # p
    BY <2>2, <1>5 DEF IInv, NoProcessLost, Added
  <2> QED BY <2>1, <2>2
<1>11. OneRunning' /\ HeldRunnable' /\ RunnerPolicy' /\ RunnerHasSlice'
  BY <1>1, <1>3 DEF IInv, OneRunning, HeldRunnable, RunnerPolicy, RunnerHasSlice
<1>12. TrapStateIntact'
  BY <1>1 DEF IInv, TrapStateIntact, Suspended
<1> QED BY <1>6, <1>7, <1>8, <1>9, <1>10, <1>11, <1>12 DEF IInv

LEMMA SchedulerIInv == IInv /\ scheduler => IInv'
<1> SUFFICES ASSUME IInv, scheduler PROVE IInv'
  OBVIOUS
<1>1. /\ current = NULL
      /\ context_switch(current, sched_next, "yield", time_slice, global_ticks, sie)
      /\ global_ticks' = global_ticks /\ trapped' = trapped
  BY DEF scheduler
<1>2. time_slice \in [Procs -> Nat] /\ global_ticks' \in 0 .. AgingPeriod - 1
  BY <1>1 DEF IInv, TypeOK
<1>3. sched_next # current
  BY <1>1, <1>2, SwitchFacts, NullFacts
<1> QED BY <1>1, <1>2, <1>3, SwitchIInv

LEMMA YieldIInv == IInv /\ sched_yield => IInv'
<1> SUFFICES ASSUME IInv, sched_yield PROVE IInv'
  OBVIOUS
<1>1. /\ sched_next # current
      /\ context_switch(current, sched_next, "yield", time_slice, global_ticks, sie)
      /\ global_ticks' = global_ticks /\ trapped' = trapped
  BY DEF sched_yield
<1>2. time_slice \in [Procs -> Nat] /\ global_ticks' \in 0 .. AgingPeriod - 1
  BY <1>1 DEF IInv, TypeOK
<1> QED BY <1>1, <1>2, SwitchIInv

LEMMA NextTickType ==
  ASSUME TypeOK PROVE NextTick \in 0 .. AgingPeriod - 1
<1>1. global_ticks + 1 \in Nat /\ AgingPeriod \in Nat \ {0}
  BY ConstantsAssumption, SMT DEF TypeOK
<1> QED BY <1>1, SMT DEF NextTick

LEMMA TickSliceType ==
  ASSUME TypeOK, current # NULL
  PROVE  /\ current \in Procs
         /\ TickSlice \in [Procs -> Nat]
         /\ \A x \in Procs \ {current} : TickSlice[x] = time_slice[x]
         /\ TickSlice[current] =
              IF time_slice[current] > 0 THEN time_slice[current] - 1 ELSE 0
BY SMT DEF TypeOK, TickSlice

LEMMA TickNoneIInv == IInv /\ TickWithoutProcess => IInv'
<1> SUFFICES ASSUME IInv, TickWithoutProcess PROVE IInv'
  OBVIOUS
<1>1. /\ sie /\ global_ticks' = NextTick /\ trapped' = current
      /\ UNCHANGED <<fields, queues, current, sie, held>>
  BY DEF TickWithoutProcess, TrapEntry
<1> USE DEF fields, queues
<1>2. TypeOK'
  BY <1>1, NextTickType DEF IInv, TypeOK
<1>3. \A x : Queued(x)' <=> Queued(x)
  BY <1>1 DEF Queued, InRt, InLevel
<1>4. QueuesDistinct' /\ Routed' /\ RtSorted'
  BY <1>1 DEF IInv, QueuesDistinct, Routed, RtSorted, Sorted, InRt, InLevel
<1>5. QueuedIsReady' /\ NoProcessLost'
  BY <1>1, <1>3 DEF IInv, QueuedIsReady, NoProcessLost, Added
<1>6. OneRunning' /\ HeldRunnable' /\ RunnerPolicy' /\ RunnerHasSlice'
  BY <1>1 DEF IInv, OneRunning, HeldRunnable, RunnerPolicy, RunnerHasSlice
<1>7. TrapStateIntact'
  BY <1>1 DEF IInv, TrapStateIntact, Suspended
<1> QED BY <1>2, <1>4, <1>5, <1>6, <1>7 DEF IInv

LEMMA TickContinuesIInv == IInv /\ TickContinues => IInv'
<1> SUFFICES ASSUME IInv, TickContinues PROVE IInv'
  OBVIOUS
<1> DEFINE due == NextTick = 0
<1>1. /\ sie /\ global_ticks' = NextTick /\ trapped' = current
      /\ current # NULL /\ ~Preempts
      /\ ready_queues' = AgedQueues(due, ready_queues)
      /\ queue_level' = AgedLevel(due, ready_queues, queue_level)
      /\ time_slice' = AgedSlice(due, ready_queues, TickSlice)
      /\ UNCHANGED <<state, priority, policy, context, rt_queue, current, sie, held>>
  BY DEF TickContinues, TrapEntry
<1>2. /\ current \in Procs
      /\ TickSlice \in [Procs -> Nat]
      /\ TickSlice[current] =
           IF time_slice[current] > 0 THEN time_slice[current] - 1 ELSE 0
  BY <1>1, TickSliceType DEF IInv
<1>3. due \in BOOLEAN
  OBVIOUS
<1> HIDE DEF due
<1>4. /\ QueuesOK(rt_queue', ready_queues', queue_level')
      /\ \A x \in Slots : In(rt_queue', ready_queues', x) <=> Queued(x)
      /\ queue_level' \in [Procs -> Levels]
      /\ time_slice' \in [Procs -> Nat]
      /\ \A x \in Procs : ~Queued(x) =>
           queue_level'[x] = queue_level[x] /\ time_slice'[x] = TickSlice[x]
  <2>1. QueuesOK(rt_queue, ready_queues, queue_level)
    BY IInvQueuesOK DEF IInv
  <2>2. queue_level \in [Procs -> Levels]
    BY DEF IInv, TypeOK
  <2> DEFINE q == AgedQueues(due, ready_queues)
             v == AgedLevel(due, ready_queues, queue_level)
             s == AgedSlice(due, ready_queues, TickSlice)
  <2>3. /\ QueuesOK(rt_queue, q, v)
        /\ \A x \in Slots : In(rt_queue, q, x) <=> In(rt_queue, ready_queues, x)
        /\ v \in [Procs -> Levels]
        /\ s \in [Procs -> Nat]
        /\ \A x \in Procs : ~In(rt_queue, ready_queues, x) =>
             v[x] = queue_level[x] /\ s[x] = TickSlice[x]
    BY <1>2, <1>3, <2>1, <2>2, AgedFacts, SMTT(30)
  <2>4. /\ rt_queue' = rt_queue /\ ready_queues' = q
        /\ queue_level' = v /\ time_slice' = s
    BY <1>1
  <2> HIDE DEF q, v, s
  <2>5. QueuesOK(rt_queue', ready_queues', queue_level')
    BY <2>3, <2>4
  <2>6. \A x : In(rt_queue, ready_queues, x) <=> Queued(x)
    BY QueuedIsIn
  <2> QED BY <2>3, <2>4, <2>5, <2>6
<1>5. \A x \in Slots : Queued(x)' <=> Queued(x)
  <2>1. \A x : Queued(x)' <=> In(rt_queue', ready_queues', x)
    BY DEF Queued, InRt, InLevel, In
  <2> QED BY <1>4, <2>1
<1>6. TypeOK'
  BY <1>1, <1>4, NextTickType DEF IInv, TypeOK, QueuesOK
<1>7. QueuesDistinct' /\ Routed'
  BY <1>1, <1>4 DEF QueuesOK, QueuesDistinct, Routed, InRt, InLevel
<1>8. RtSorted'
  BY <1>1 DEF IInv, RtSorted, Sorted
<1>9. QueuedIsReady' /\ NoProcessLost'
  BY <1>1, <1>5 DEF IInv, QueuedIsReady, NoProcessLost, Added
<1>10. OneRunning' /\ HeldRunnable' /\ RunnerPolicy'
  BY <1>1 DEF IInv, OneRunning, HeldRunnable, RunnerPolicy
<1>11. RunnerHasSlice'
  <2> SUFFICES ASSUME current \in Slots, policy[current] = "SCHED_NORMAL"
               PROVE  time_slice'[current] \in
                        1 .. queue_time_slices[queue_level'[current]]
    BY <1>1 DEF RunnerHasSlice
  <2>1. ~Queued(current)
    BY DEF IInv, QueuedIsReady
  <2>2. /\ queue_level'[current] = queue_level[current]
        /\ time_slice'[current] = TickSlice[current]
    BY <1>2, <1>4, <2>1
  <2>3. time_slice[current] \in 1 .. queue_time_slices[queue_level[current]]
    BY DEF IInv, RunnerHasSlice
  <2>4. TickSlice[current] # 0
    BY <1>1 DEF Preempts
  <2>5. queue_time_slices[queue_level[current]] \in Nat
    BY <1>2, ConstantsAssumption DEF IInv, TypeOK
  <2> QED BY <1>2, <2>2, <2>3, <2>4, <2>5, SMT
<1>12. TrapStateIntact'
  BY <1>1 DEF IInv, TrapStateIntact, Suspended
<1> QED BY <1>6, <1>7, <1>8, <1>9, <1>10, <1>11, <1>12 DEF IInv

LEMMA TickPreemptsIInv == IInv /\ TickPreempts => IInv'
<1> SUFFICES ASSUME IInv, TickPreempts PROVE IInv'
  OBVIOUS
<1>1. /\ sie /\ global_ticks' = NextTick /\ trapped' = current
      /\ current # NULL /\ Preempts
      /\ context_switch(current, sched_next, "tick", TickSlice, NextTick, FALSE)
  BY DEF TickPreempts, TrapEntry
<1>2. current \in Procs /\ TickSlice \in [Procs -> Nat]
  BY <1>1, TickSliceType DEF IInv
<1>3. global_ticks' \in 0 .. AgingPeriod - 1
  BY <1>1, NextTickType DEF IInv
<1>4. policy[current] \in {"SCHED_NORMAL", "SCHED_RR"}
  BY <1>1 DEF Preempts
<1>5. sched_next # current
  <2>1. sched_next # current \/ sched_next = Idle
    BY <1>1, <1>2, SwitchFacts
  <2> QED BY <1>4, <2>1 DEF IInv, RunnerPolicy
<1> QED BY <1>1, <1>2, <1>3, <1>4, <1>5, SwitchIInv

-----------------------------------------------------------------------------
(***************************************************************************)
(* The action of NoOvertaking, for every operation.                        *)
(***************************************************************************)

\* It is enough that two processes that waited before the step, in one queue,
\* and wait after it were in that order before.
LEMMA OldOrder ==
  ASSUME QueuesOK(rt_queue, ready_queues, queue_level),
         \A a, b \in Slots : Queued(a) /\ Queued(b) =>
           /\ Before(rt_queue', a, b) => Before(rt_queue, a, b)
           /\ queue_level[a] = queue_level[b] =>
                \A m \in Levels : Before(ready_queues'[m], a, b) =>
                  \E k \in Levels : Before(ready_queues[k], a, b)
  PROVE  OrderKept
<1> SUFFICES ASSUME NEW a \in Slots, NEW b \in Slots
             PROVE  /\ Before(rt_queue, a, b) => ~Before(rt_queue', b, a)
                    /\ \A l, m \in Levels :
                         Before(ready_queues[l], a, b) => ~Before(ready_queues'[m], b, a)
  BY DEF OrderKept
<1>1. /\ rt_queue \in Seq(Slots) /\ Distinct(rt_queue)
      /\ \A l \in Levels : ready_queues[l] \in Seq(Slots) /\ Distinct(ready_queues[l])
      /\ \A x \in Slots, l \in Levels : Member(ready_queues[l], x) => queue_level[x] = l
  BY DEF QueuesOK
<1>2. ASSUME Before(rt_queue, a, b), Before(rt_queue', b, a)
      PROVE  FALSE
  <2>1. Member(rt_queue, a) /\ Member(rt_queue, b) /\ ~Before(rt_queue, b, a)
    BY <1>1, <1>2, BeforeOneWay
  <2>2. Queued(a) /\ Queued(b)
    BY <2>1 DEF Queued, InRt
  <2> QED BY <1>2, <2>1, <2>2
<1>3. ASSUME NEW l \in Levels, NEW m \in Levels,
             Before(ready_queues[l], a, b), Before(ready_queues'[m], b, a)
      PROVE  FALSE
  <2>1. /\ Member(ready_queues[l], a) /\ Member(ready_queues[l], b)
        /\ ~Before(ready_queues[l], b, a)
    BY <1>1, <1>3, BeforeOneWay
  <2>2. Queued(a) /\ Queued(b) /\ queue_level[a] = l /\ queue_level[b] = l
    BY <1>1, <2>1 DEF Queued, InLevel
  <2>3. PICK k \in Levels : Before(ready_queues[k], b, a)
    BY <1>3, <2>2
  <2>4. Member(ready_queues[k], b)
    BY <1>1, <2>3, BeforeOneWay
  <2>5. k = l
    BY <1>1, <2>2, <2>4
  <2> QED BY <2>1, <2>3, <2>5
<1> QED BY <1>2, <1>3

LEMMA SameQueuesOrder ==
  ASSUME IInv, rt_queue' = rt_queue, ready_queues' = ready_queues
  PROVE  OrderKept
<1>1. QueuesOK(rt_queue, ready_queues, queue_level)
  BY IInvQueuesOK DEF IInv
<1> QED BY <1>1, OldOrder

LEMMA AddKeepsOrder ==
  ASSUME IInv, NEW p \in held, sched_add(p)
  PROVE  OrderKept
<1>1. QueuesOK(rt_queue, ready_queues, queue_level)
  BY IInvQueuesOK DEF IInv
<1>2. /\ p \in Slots /\ ~Queued(p) /\ queue_level[p] \in Levels
      /\ priority \in [Procs -> Int]
      /\ rt_queue \in Seq(Slots) /\ ready_queues \in [Levels -> Seq(Slots)]
  BY HeldFacts, PriorityInt DEF IInv, TypeOK
<1>3. /\ rt_queue' = RtAdd(rt_queue, p)
      /\ ready_queues' = MlfqAdd(ready_queues, p, queue_level[p])
  BY DEF sched_add
<1>4. ASSUME NEW a \in Slots, NEW b \in Slots, Queued(a), Queued(b)
      PROVE  /\ Before(rt_queue', a, b) => Before(rt_queue, a, b)
             /\ \A m \in Levels :
                  Before(ready_queues'[m], a, b) => Before(ready_queues[m], a, b)
  <2>1. a # p /\ b # p
    BY <1>2, <1>4
  <2> QED BY <1>2, <1>3, <2>1, AddOrder
<1> QED BY <1>1, <1>4, OldOrder

LEMMA SwitchKeepsOrder ==
  ASSUME IInv, NEW point, NEW ts \in [Procs -> Nat], NEW tk, NEW on,
         context_switch(current, sched_next, point, ts, tk, on)
  PROVE  OrderKept
<1> DEFINE due == context[sched_next] = "tick" /\ tk = 0
           lvl == LevelBetween(ts)
           ml == MlfqBetween(ts)
<1>1. /\ rt_queue' = RtBetween
      /\ ready_queues' = AgedQueues(due, ml)
  BY SwitchAssigns
<1>2. due \in BOOLEAN
  OBVIOUS
<1> HIDE DEF due, lvl, ml
<1>3. QueuesOK(rt_queue, ready_queues, queue_level)
  BY IInvQueuesOK DEF IInv
<1>4. /\ QueuesOK(RtBetween, ml, lvl)
      /\ \A x \in Slots \ {current} : lvl[x] = queue_level[x]
      /\ lvl \in [Procs -> Levels]
  BY SwitchStages DEF lvl, ml
<1>5. /\ RtRest \in Seq(Slots) /\ MlfqRest \in [Levels -> Seq(Slots)]
      /\ priority \in [Procs -> Int]
  BY <1>3, NextFacts, PriorityInt DEF IInv, QueuesOK
<1>6. ASSUME NEW a \in Slots, NEW b \in Slots, Queued(a), Queued(b)
      PROVE  /\ Before(RtBetween, a, b) => Before(rt_queue, a, b)
             /\ \A m \in Levels : Before(ml[m], a, b) => Before(ready_queues[m], a, b)
             /\ lvl[a] = queue_level[a] /\ lvl[b] = queue_level[b]
  <2>1. a # current /\ b # current
    BY <1>6 DEF IInv, QueuedIsReady
  <2>2. /\ Before(RtRest, a, b) => Before(rt_queue, a, b)
        /\ \A m \in Levels : Before(MlfqRest[m], a, b) => Before(ready_queues[m], a, b)
    BY <1>3, NextOrder
  <2>3. /\ Before(RtBetween, a, b) => Before(RtRest, a, b)
        /\ \A m \in Levels : Before(ml[m], a, b) => Before(MlfqRest[m], a, b)
    <3>1. CASE Requeues(current)
      <4>1. current \in Slots /\ lvl[current] \in Levels
        BY <1>4, <3>1 DEF Requeues, Procs
      <4>2. RtBetween = RtAdd(RtRest, current)
        BY <3>1 DEF RtBetween
      <4>3. ml = MlfqAdd(MlfqRest, current, lvl[current])
        BY <3>1 DEF ml, lvl, MlfqBetween
      <4> QED BY <1>5, <2>1, <4>1, <4>2, <4>3, AddOrder
    <3>2. CASE ~Requeues(current)
      BY <3>2 DEF RtBetween, ml, MlfqBetween
    <3> QED BY <3>1, <3>2
  <2> QED BY <1>4, <2>1, <2>2, <2>3
<1>7. ASSUME NEW a \in Slots, NEW b \in Slots, Queued(a), Queued(b),
             queue_level[a] = queue_level[b],
             NEW m \in Levels, Before(ready_queues'[m], a, b)
      PROVE  \E k \in Levels : Before(ready_queues[k], a, b)
  <2>1. lvl[a] = lvl[b]
    BY <1>6, <1>7
  <2>2. Before(AgedQueues(due, ml)[m], a, b)
    BY <1>1, <1>7, SMT
  <2>3. QueuesOK(RtBetween, ml, lvl)
    BY <1>4
  <2>4. PICK k \in Levels : Before(ml[k], a, b)
    BY <1>2, <1>7, <2>1, <2>2, <2>3, AgedOrder, SMTT(30)
  <2> QED BY <1>6, <1>7, <2>4
<1> QED BY <1>1, <1>3, <1>6, <1>7, OldOrder

LEMMA TickKeepsOrder ==
  ASSUME IInv, TickContinues
  PROVE  OrderKept
<1> DEFINE due == NextTick = 0
<1>1. rt_queue' = rt_queue /\ ready_queues' = AgedQueues(due, ready_queues)
  BY DEF TickContinues
<1>2. due \in BOOLEAN
  OBVIOUS
<1> HIDE DEF due
<1>3. QueuesOK(rt_queue, ready_queues, queue_level)
  BY IInvQueuesOK DEF IInv
<1>4. ASSUME NEW a \in Slots, NEW b \in Slots, queue_level[a] = queue_level[b],
             NEW m \in Levels, Before(ready_queues'[m], a, b)
      PROVE  \E k \in Levels : Before(ready_queues[k], a, b)
  <2>1. Before(AgedQueues(due, ready_queues)[m], a, b)
    BY <1>1, <1>4
  <2> QED BY <1>2, <1>3, <1>4, <2>1, AgedOrder, SMTT(30)
<1> QED BY <1>1, <1>3, <1>4, OldOrder

-----------------------------------------------------------------------------
(***************************************************************************)
(* The action of TakesTurns, for every operation.                          *)
(***************************************************************************)

\* A process that does not wait is before nobody.
LEMMA AbsentBefore ==
  ASSUME NEW a, ~Queued(a), NEW b
  PROVE  ~Before(rt_queue, a, b) /\ \A l \in Levels : ~Before(ready_queues[l], a, b)
  BY DEF Queued, InRt, InLevel, Before, Member

LEMMA SameQueuesTurn ==
  ASSUME rt_queue' = rt_queue, ready_queues' = ready_queues
  PROVE  TurnStep
  BY AbsentBefore DEF TurnStep

LEMMA AddTakesTurn ==
  ASSUME IInv, NEW p \in held, sched_add(p)
  PROVE  TurnStep
<1>1. /\ p \in Slots /\ ~Queued(p) /\ queue_level[p] \in Levels
      /\ priority \in [Procs -> Int]
      /\ rt_queue \in Seq(Slots) /\ ready_queues \in [Levels -> Seq(Slots)]
  BY HeldFacts, PriorityInt DEF IInv, TypeOK
<1>2. /\ rt_queue' = RtAdd(rt_queue, p)
      /\ ready_queues' = MlfqAdd(ready_queues, p, queue_level[p])
  BY DEF sched_add
<1>3. ASSUME NEW a \in Slots, ~Queued(a), NEW b \in Slots, b # p
      PROVE  /\ priority[b] <= priority[a] => ~Before(rt_queue', a, b)
             /\ \A l \in Levels : ~Before(ready_queues'[l], a, b)
  <2>1. CASE a = p
    BY <1>1, <1>2, <2>1, AddTurn, QueuedIsIn
  <2>2. CASE a # p
    BY <1>1, <1>2, <1>3, <2>2, AddOrder, AbsentBefore
  <2> QED BY <2>1, <2>2
<1>4. \A b \in Slots : InRt(b) \/ (\E l \in Levels : InLevel(b, l)) => b # p
  BY <1>1 DEF Queued
<1> QED BY <1>3, <1>4 DEF TurnStep

LEMMA SwitchTakesTurn ==
  ASSUME IInv, NEW point, NEW ts \in [Procs -> Nat], NEW tk, NEW on,
         context_switch(current, sched_next, point, ts, tk, on)
  PROVE  TurnStep
<1> DEFINE due == context[sched_next] = "tick" /\ tk = 0
           lvl == LevelBetween(ts)
           ml == MlfqBetween(ts)
<1>1. /\ rt_queue' = RtBetween
      /\ ready_queues' = AgedQueues(due, ml)
  BY SwitchAssigns
<1>2. due \in BOOLEAN
  OBVIOUS
<1> HIDE DEF due, lvl, ml
<1>3. QueuesOK(rt_queue, ready_queues, queue_level)
  BY IInvQueuesOK DEF IInv
<1>4. /\ QueuesOK(RtBetween, ml, lvl)
      /\ \A x \in Slots \ {current} : lvl[x] = queue_level[x]
      /\ lvl \in [Procs -> Levels]
  BY SwitchStages DEF lvl, ml
<1>5. /\ RtRest \in Seq(Slots) /\ MlfqRest \in [Levels -> Seq(Slots)]
      /\ priority \in [Procs -> Int]
      /\ \A x \in Slots : In(RtRest, MlfqRest, x) => Queued(x)
  BY <1>3, NextFacts, PriorityInt, QueuedIsIn DEF IInv, QueuesOK
<1>6. ASSUME NEW a \in Slots, ~Queued(a), NEW b \in Slots, b # current
      PROVE  /\ priority[b] <= priority[a] => ~Before(RtBetween, a, b)
             /\ \A m \in Levels : ~Before(ml[m], a, b)
  <2>1. ~In(RtRest, MlfqRest, a)
    BY <1>5, <1>6
  <2>2. ~Before(RtRest, a, b) /\ \A m \in Levels : ~Before(MlfqRest[m], a, b)
    BY <2>1 DEF In, Before, Member
  <2>3. CASE Requeues(current)
    <3>1. current \in Slots /\ lvl[current] \in Levels
      BY <1>4, <2>3 DEF Requeues, Procs
    <3>2. RtBetween = RtAdd(RtRest, current)
      BY <2>3 DEF RtBetween
    <3>3. ml = MlfqAdd(MlfqRest, current, lvl[current])
      BY <2>3 DEF ml, lvl, MlfqBetween
    <3>4. CASE a = current
      BY <1>5, <2>1, <3>1, <3>2, <3>3, <3>4, AddTurn
    <3>5. CASE a # current
      BY <1>5, <1>6, <2>2, <3>1, <3>2, <3>3, <3>5, AddOrder
    <3> QED BY <3>4, <3>5
  <2>4. CASE ~Requeues(current)
    BY <2>2, <2>4 DEF RtBetween, ml, MlfqBetween
  <2> QED BY <2>3, <2>4
<1>7. ASSUME NEW b \in Slots, Queued(b) PROVE b # current /\ lvl[b] = queue_level[b]
  BY <1>4, <1>7 DEF IInv, QueuedIsReady
<1>8. ASSUME NEW a \in Slots, ~Queued(a), NEW b \in Slots, InRt(b),
             priority[b] <= priority[a]
      PROVE  ~Before(rt_queue', a, b)
  BY <1>1, <1>6, <1>7, <1>8 DEF Queued
<1>9. ASSUME NEW a \in Slots, ~Queued(a), NEW b \in Slots, NEW l \in Levels,
             InLevel(b, l), Before(ready_queues'[l], a, b)
      PROVE  FALSE
  <2>1. Queued(b) /\ queue_level[b] = l
    BY <1>9 DEF Queued, IInv, Routed
  <2>2. b # current /\ lvl[b] = l
    BY <2>1, <1>7
  <2>3. Before(AgedQueues(due, ml)[l], a, b)
    BY <1>1, <1>9
  <2>4. Before(ml[l], a, b)
    BY <1>2, <1>4, <2>2, <2>3, AgedTurn, SMTT(30)
  <2> QED BY <1>6, <1>9, <2>2, <2>4
<1> QED BY <1>8, <1>9 DEF TurnStep

LEMMA TickTakesTurn ==
  ASSUME IInv, TickContinues
  PROVE  TurnStep
<1> DEFINE due == NextTick = 0
<1>1. rt_queue' = rt_queue /\ ready_queues' = AgedQueues(due, ready_queues)
  BY DEF TickContinues
<1>2. due \in BOOLEAN
  OBVIOUS
<1> HIDE DEF due
<1>3. QueuesOK(rt_queue, ready_queues, queue_level)
  BY IInvQueuesOK DEF IInv
<1>4. ASSUME NEW a \in Slots, ~Queued(a), NEW b \in Slots, NEW l \in Levels,
             InLevel(b, l), Before(ready_queues'[l], a, b)
      PROVE  FALSE
  <2>1. queue_level[b] = l
    BY <1>4 DEF IInv, Routed
  <2>2. Before(AgedQueues(due, ready_queues)[l], a, b)
    BY <1>1, <1>4
  <2>3. Before(ready_queues[l], a, b)
    BY <1>2, <1>3, <2>1, <2>2, AgedTurn, SMTT(30)
  <2> QED BY <1>4, <2>3, AbsentBefore
<1> QED BY <1>1, <1>4, AbsentBefore DEF TurnStep

-----------------------------------------------------------------------------
(***************************************************************************)
(* The action of LevelSteps, for every operation.                          *)
(***************************************************************************)

\* The operations on a process that the scheduler does not have.
LEMMA HeldLevelStep ==
  ASSUME IInv, process_alloc \/ \E p \in held : process_free(p) \/ Configure(p)
  PROVE  LevelStep
<1>0. queue_level \in [Procs -> Levels] /\ Slots \subseteq Procs
  BY DEF IInv, TypeOK, Procs
<1>1. PICK p \in Slots :
        ~Added(p) /\ \A x \in Slots \ {p} : queue_level'[x] = queue_level[x]
  <2>1. CASE process_alloc
    <3>1. PICK p \in Slots : /\ state[p] = UNUSED
                             /\ queue_level' = [queue_level EXCEPT ![p] = 0]
      BY <2>1 DEF process_alloc
    <3> QED BY <1>0, <3>1 DEF Added
  <2>2. ASSUME NEW p \in held, process_free(p) \/ Configure(p)
        PROVE  p \in Slots /\ ~Added(p)
               /\ \A x \in Slots \ {p} : queue_level'[x] = queue_level[x]
    <3>1. p \in Slots /\ ~Added(p)
      BY HeldFacts DEF Added
    <3>2. CASE process_free(p)
      BY <1>0, <3>1, <3>2 DEF process_free
    <3>3. ASSUME NEW arg, sched_set_priority(p, arg)
          PROVE  \A x \in Slots \ {p} : queue_level'[x] = queue_level[x]
      BY <1>0, <3>3 DEF sched_set_priority
    <3>4. ASSUME NEW arg, sched_set_policy(p, arg)
          PROVE  \A x \in Slots \ {p} : queue_level'[x] = queue_level[x]
      BY <3>4 DEF sched_set_policy
    <3> QED BY <2>2, <3>1, <3>2, <3>3, <3>4 DEF Configure
  <2> QED BY <2>1, <2>2
<1> QED BY <1>1 DEF LevelStep

\* A switch.  Its demotion, of a process whose slice has run out, is one of a
\* process that used its last tick.
LEMMA SwitchLevelStep ==
  ASSUME IInv, NEW point, NEW ts \in [Procs -> Nat], NEW on,
         context_switch(current, sched_next, point, ts, global_ticks', on),
         Demotes(current, ts) => time_slice[current] = 1 /\ point = "tick"
  PROVE  LevelStep
<1> DEFINE due == context[sched_next] = "tick" /\ global_ticks' = 0
           lvl == LevelBetween(ts)
           ml == MlfqBetween(ts)
<1>1. /\ queue_level' = AgedLevel(due, ml, lvl)
      /\ current' = sched_next
      /\ context' = [x \in Procs |-> IF x = current THEN point ELSE context[x]]
  <2>1. queue_level' = AgedLevel(due, ml, lvl)
    BY SwitchAssigns
  <2> QED BY <2>1 DEF context_switch
<1>2. due => global_ticks' = 0
  OBVIOUS
<1> HIDE DEF due, ml
<1>3. \A x \in Slots :
        queue_level'[x] = IF due /\ x \in BoostedSet(ml) THEN 0 ELSE lvl[x]
  BY <1>1 DEF AgedLevel, Procs
<1>4. \A x \in Slots : x = sched_next => queue_level'[x] = queue_level[x]
  BY SwitchFacts
<1> SUFFICES ASSUME NEW p \in Slots, queue_level'[p] # queue_level[p]
             PROVE  \/ queue_level'[p] = queue_level[p] + 1 /\ p = current
                         /\ time_slice[p] = 1 /\ context'[p] = "tick"
                    \/ queue_level'[p] = 0 /\ global_ticks' = 0 /\ p # current'
  BY DEF LevelStep
<1>5. CASE due /\ p \in BoostedSet(ml)
  <2>1. queue_level'[p] = 0
    BY <1>3, <1>5
  <2>2. p # current'
    BY <1>1, <1>4
  <2> QED BY <1>2, <1>5, <2>1, <2>2
<1>6. CASE ~(due /\ p \in BoostedSet(ml))
  <2>1. lvl[p] # queue_level[p] /\ queue_level'[p] = lvl[p]
    BY <1>3, <1>6
  <2>2. queue_level \in [Procs -> Levels] /\ p \in Procs
    BY DEF IInv, TypeOK, Procs
  <2>3. Demotes(current, ts) /\ p = current /\ lvl[p] = queue_level[p] + 1
    BY <2>1, <2>2 DEF LevelBetween, DemotedLevel
  <2>4. context'[p] = point
    BY <1>1, <2>2, <2>3
  <2> QED BY <2>1, <2>3, <2>4
<1> QED BY <1>5, <1>6

\* A thread that yields is not demoted: it has ticks left.
LEMMA YieldLevelStep ==
  ASSUME IInv, NEW on, global_ticks' = global_ticks,
         context_switch(current, sched_next, "yield", time_slice, global_ticks, on)
  PROVE  LevelStep
<1>1. time_slice \in [Procs -> Nat]
  BY DEF IInv, TypeOK
<1>2. ~Demotes(current, time_slice)
  <2> SUFFICES ASSUME Demotes(current, time_slice) PROVE FALSE
    OBVIOUS
  <2>1. /\ current \in Slots /\ policy[current] = "SCHED_NORMAL"
        /\ time_slice[current] = 0
    BY DEF Demotes, Requeues
  <2> QED BY <2>1, SMT DEF IInv, RunnerHasSlice
<1>3. context_switch(current, sched_next, "yield", time_slice, global_ticks', on)
  OBVIOUS
<1> QED BY <1>1, <1>2, <1>3, SwitchLevelStep

LEMMA PreemptLevelStep ==
  ASSUME IInv, TickPreempts
  PROVE  LevelStep
<1>1. /\ current # NULL
      /\ context_switch(current, sched_next, "tick", TickSlice, global_ticks', FALSE)
  BY DEF TickPreempts, TrapEntry
<1>2. /\ TickSlice \in [Procs -> Nat]
      /\ TickSlice[current] =
           IF time_slice[current] > 0 THEN time_slice[current] - 1 ELSE 0
  BY <1>1, TickSliceType DEF IInv
<1>3. Demotes(current, TickSlice) => time_slice[current] = 1
  <2> SUFFICES ASSUME Demotes(current, TickSlice) PROVE time_slice[current] = 1
    OBVIOUS
  <2>1. /\ current \in Slots /\ policy[current] = "SCHED_NORMAL"
        /\ TickSlice[current] = 0
    BY DEF Demotes, Requeues
  <2>2. time_slice[current] \in Nat /\ time_slice[current] >= 1
    <3>1. /\ current \in Procs /\ queue_level[current] \in Levels
          /\ queue_time_slices[queue_level[current]] \in Nat
      BY <2>1, ConstantsAssumption DEF IInv, TypeOK, Procs
    <3>2. time_slice[current] \in 1 .. queue_time_slices[queue_level[current]]
      BY <2>1 DEF IInv, RunnerHasSlice
    <3> QED BY <3>1, <3>2, SMT
  <2> QED BY <1>2, <2>1, <2>2, SMT
<1> QED BY <1>1, <1>2, <1>3, SwitchLevelStep

\* Aging reaches processes that wait, not the one on the CPU.
LEMMA TickLevelStep ==
  ASSUME IInv, TickContinues
  PROVE  LevelStep
<1> DEFINE due == NextTick = 0
<1>1. /\ queue_level' = AgedLevel(due, ready_queues, queue_level)
      /\ global_ticks' = NextTick /\ current' = current
  BY DEF TickContinues, TrapEntry
<1>2. due \in BOOLEAN /\ (due => global_ticks' = 0)
  BY <1>1
<1> HIDE DEF due
<1>3. /\ QueuesOK(rt_queue, ready_queues, queue_level)
      /\ queue_level \in [Procs -> Levels] /\ time_slice \in [Procs -> Nat]
  BY IInvQueuesOK DEF IInv, TypeOK
<1>4. \A x \in Procs : ~Queued(x) => queue_level'[x] = queue_level[x]
  <2>1. \A x \in Procs : ~In(rt_queue, ready_queues, x) =>
          AgedLevel(due, ready_queues, queue_level)[x] = queue_level[x]
    BY <1>2, <1>3, AgedFacts, SMTT(30)
  <2> QED BY <1>1, <2>1, QueuedIsIn
<1>5. \A x \in Slots : Queued(x) => x # current
  BY DEF IInv, QueuedIsReady
<1>6. \A x \in Slots : \/ queue_level'[x] = queue_level[x]
                       \/ due /\ queue_level'[x] = 0
  BY <1>1 DEF AgedLevel, Procs
<1> QED BY <1>1, <1>2, <1>4, <1>5, <1>6 DEF LevelStep, Procs

-----------------------------------------------------------------------------
(***************************************************************************)
(* The steps of Scheduler as steps of Dispatch.                            *)
(***************************************************************************)
dispatchVars == <<current, ReadySet, RealTimeSet, GoneSet>>

\* Nothing happens in Dispatch when the same processes are in the queues, and
\* a process of which the scheduler knows nothing stays one.
LEMMA DispatchUnchanged ==
  ASSUME current' = current,
         \A x \in Slots : Queued(x)' <=> Queued(x),
         \A x \in Slots : Added(x)' <=> Added(x),
         \A x \in Slots : Added(x) => policy'[x] = policy[x]
  PROVE  UNCHANGED dispatchVars
<1>1. ReadySet' = ReadySet
  BY DEF ReadySet
<1>2. RealTimeSet' = RealTimeSet
  BY DEF RealTimeSet
<1>3. GoneSet' = GoneSet
  BY DEF GoneSet
<1> QED BY <1>1, <1>2, <1>3 DEF dispatchVars

LEMMA HeldDispatch ==
  ASSUME IInv, process_alloc \/ \E p \in held : process_free(p) \/ Configure(p)
  PROVE  UNCHANGED dispatchVars
<1>0. /\ state \in [Procs -> {UNUSED, RUNNABLE, RUNNING}]
      /\ policy \in [Procs -> Policies]
      /\ held \subseteq Slots /\ Slots \subseteq Procs
  BY DEF IInv, TypeOK, Procs
<1>1. current' = current /\ rt_queue' = rt_queue /\ ready_queues' = ready_queues
  BY DEF process_alloc, process_free, Configure, sched_set_priority,
    sched_set_policy, queues, cpu
<1>2. \A x \in Slots : Queued(x)' <=> Queued(x)
  BY <1>1 DEF Queued, InRt, InLevel
<1>3. \A x \in Slots : /\ Added(x)' <=> Added(x)
                       /\ Added(x) => policy'[x] = policy[x]
  <2>1. CASE process_alloc
    <3>1. PICK p \in Slots : /\ state[p] = UNUSED
                             /\ state' = [state EXCEPT ![p] = RUNNABLE]
                             /\ policy' = [policy EXCEPT ![p] = "SCHED_NORMAL"]
                             /\ held' = held \cup {p}
      BY <2>1 DEF process_alloc
    <3> QED BY <1>0, <3>1 DEF Added
  <2>2. ASSUME NEW p \in held, process_free(p)
        PROVE  \A x \in Slots : /\ Added(x)' <=> Added(x)
                                /\ Added(x) => policy'[x] = policy[x]
    BY <1>0, <2>2 DEF process_free, Added
  <2>3. ASSUME NEW p \in held, Configure(p)
        PROVE  \A x \in Slots : /\ Added(x)' <=> Added(x)
                                /\ Added(x) => policy'[x] = policy[x]
    <3>1. /\ state' = state /\ held' = held
          /\ \E s : policy' = [policy EXCEPT ![p] = s]
      BY <2>3 DEF Configure, sched_set_priority, sched_set_policy
    <3> QED BY <1>0, <3>1 DEF Added
  <2> QED BY <2>1, <2>2, <2>3
<1> QED BY <1>1, <1>2, <1>3, DispatchUnchanged

LEMMA AddDispatch ==
  ASSUME IInv, NEW p \in held, sched_add(p)
  PROVE  Dispatcher!Add(p)
<1>1. /\ state' = [state EXCEPT ![p] = RUNNABLE]
      /\ held' = held \ {p} /\ policy' = policy /\ current' = current
  BY DEF sched_add, cpu
<1>2. p \in Slots /\ p \in Procs /\ ~Queued(p) /\ p # current /\ state[p] = RUNNABLE
  BY HeldFacts
<1>3. \A x \in Slots : Queued(x)' <=>
        Queued(x) \/ (x = p /\ policy[p] # "SCHED_IDLE")
  BY AddQueues
<1>4. \A x \in Slots : Added(x)' <=> Added(x) \/ x = p
  BY <1>1, <1>2 DEF IInv, TypeOK, Added, RUNNABLE, UNUSED
<1>5. ~Added(p)
  BY DEF Added
<1>6. p \notin ReadySet \cup GoneSet \cup {current}
  BY <1>2, <1>5 DEF ReadySet, GoneSet
<1>7. CASE policy[p] = "SCHED_IDLE"
  <2>1. ReadySet' = ReadySet
    BY <1>3, <1>7 DEF ReadySet
  <2>2. RealTimeSet' = RealTimeSet
    BY <1>1, <1>4, <1>7 DEF RealTimeSet
  <2>3. GoneSet' = GoneSet \cup {p}
    BY <1>1, <1>2, <1>3, <1>4, <1>7 DEF GoneSet
  <2> QED BY <1>1, <1>6, <2>1, <2>2, <2>3 DEF Dispatcher!Add, Dispatcher!Known
<1>8. CASE policy[p] # "SCHED_IDLE"
  <2>1. ReadySet' = ReadySet \cup {p}
    BY <1>2, <1>3, <1>8 DEF ReadySet
  <2>2. RealTimeSet' \in {RealTimeSet, RealTimeSet \cup {p}}
    <3>1. CASE policy[p] \in {"SCHED_FIFO", "SCHED_RR"}
      <4>1. RealTimeSet' = RealTimeSet \cup {p}
        BY <1>1, <1>2, <1>4, <3>1 DEF RealTimeSet
      <4> QED BY <4>1
    <3>2. CASE policy[p] \notin {"SCHED_FIFO", "SCHED_RR"}
      <4>1. RealTimeSet' = RealTimeSet
        BY <1>1, <1>4, <3>2 DEF RealTimeSet
      <4> QED BY <4>1
    <3> QED BY <3>1, <3>2
  <2>3. GoneSet' = GoneSet
    BY <1>1, <1>3, <1>4, <1>5, <1>8 DEF GoneSet
  <2> QED BY <1>1, <1>6, <2>1, <2>2, <2>3 DEF Dispatcher!Add, Dispatcher!Known
<1> QED BY <1>7, <1>8

\* sched_next takes a real-time process if one is ready, and the idle process
\* only if none is.
LEMMA NextCandidate ==
  ASSUME IInv
  PROVE  sched_next \in Dispatcher!Candidates
<1>1. QueuesOK(rt_queue, ready_queues, queue_level)
  BY IInvQueuesOK DEF IInv
<1>2. /\ sched_next \in Procs
      /\ sched_next = Idle \/ Queued(sched_next)
      /\ PicksMlfq => sched_next \in Slots
  BY <1>1, NextFacts, QueuedIsIn
<1>3. PicksRt => sched_next \in Slots /\ InRt(sched_next)
  <2> SUFFICES ASSUME PicksRt PROVE sched_next \in Slots /\ InRt(sched_next)
    OBVIOUS
  <2>1. rt_queue \in Seq(Slots) /\ rt_queue # <<>> /\ sched_next = Head(rt_queue)
    BY <1>1 DEF PicksRt, sched_next, QueuesOK
  <2>2. Len(rt_queue) \in Nat /\ Len(rt_queue) > 0 /\ rt_queue[1] = Head(rt_queue)
    BY <2>1, EmptySeq, LenProperties, SMT
  <2> QED BY <2>1, <2>2, ElementOfSeq, SMT DEF InRt, Member
<1>4. ASSUME NEW x \in Slots, Queued(x)
      PROVE  /\ sched_next \in ReadySet
             /\ InRt(x) => PicksRt
  <2>1. InRt(x) => PicksRt
    BY SMT DEF InRt, Member, PicksRt
  <2>2. PicksRt \/ PicksMlfq
    BY <1>4, SMT DEF Queued, InRt, InLevel, Member, PicksRt, PicksMlfq
  <2>3. sched_next \in Slots
    BY <1>2, <1>3, <2>2
  <2> QED BY <1>2, <2>1, <2>3, NullFacts DEF ReadySet
<1>5. ASSUME NEW x \in Slots, Queued(x), InRt(x)
      PROVE  x \in RealTimeSet
  BY <1>5 DEF IInv, Routed, QueuedIsReady, RealTimeSet, Added, RUNNABLE, UNUSED
<1>6. ASSUME NEW x \in ReadySet \cap RealTimeSet
      PROVE  sched_next \in ReadySet \cap RealTimeSet
  <2>1. x \in Slots /\ Queued(x) /\ policy[x] \in {"SCHED_FIFO", "SCHED_RR"}
    BY DEF ReadySet, RealTimeSet
  <2>2. InRt(x)
    BY <2>1 DEF IInv, Routed, Queued
  <2>3. sched_next \in Slots /\ InRt(sched_next)
    BY <1>3, <1>4, <2>1, <2>2
  <2> QED BY <1>4, <1>5, <2>1, <2>3 DEF Queued
<1>7. ReadySet = {} => sched_next = Idle
  BY <1>2 DEF ReadySet, Procs
<1>8. ReadySet # {} => sched_next \in ReadySet
  BY <1>4 DEF ReadySet
<1>9. ReadySet \cap RealTimeSet # {} => sched_next \in ReadySet \cap RealTimeSet
  BY <1>6
<1> QED BY <1>7, <1>8, <1>9 DEF Dispatcher!Candidates

\* context_switch is Switch: the queues change by the two processes of the
\* switch, and only a SCHED_FIFO process is not put back.
LEMMA SwitchDispatch ==
  ASSUME IInv, NEW point, NEW ts \in [Procs -> Nat], NEW tk, NEW on,
         context_switch(current, sched_next, point, ts, tk, on)
  PROVE  Dispatcher!Switch
<1> DEFINE new == sched_next
<1>0. /\ state' = [p \in Procs |->
                    IF p = new THEN RUNNING
                    ELSE IF p = current /\ (Requeues(p) \/ p = Idle) THEN RUNNABLE
                    ELSE state[p]]
      /\ current' = new
      /\ policy' = policy /\ held' = held
  BY DEF context_switch
<1>1. /\ new # current \/ new = Idle
      /\ new \in Slots => Queued(new)
      /\ \A x \in Slots : Queued(x)' <=>
           \/ Queued(x) /\ x # new
           \/ x = current /\ Requeues(x)
  <2>1. \A x : Queued(x)' <=> In(rt_queue', ready_queues', x)
    BY DEF Queued, InRt, InLevel, In
  <2> QED BY <2>1, SwitchFacts
<1>2. new \in Dispatcher!Candidates
  BY NextCandidate
<1> HIDE DEF new
<1>3. \A x \in Slots : Queued(x) => state[x] = RUNNABLE /\ x # current /\ x \notin held
  BY DEF IInv, QueuedIsReady
<1>4. current \in Slots => /\ Added(current)
                           /\ state[current] = RUNNING
                           /\ Requeues(current) \/ policy[current] = "SCHED_FIFO"
  <2> SUFFICES ASSUME current \in Slots
               PROVE  /\ Added(current)
                      /\ state[current] = RUNNING
                      /\ Requeues(current) \/ policy[current] = "SCHED_FIFO"
    OBVIOUS
  <2>1. state[current] = RUNNING /\ policy[current] # "SCHED_IDLE"
    BY NullFacts DEF IInv, OneRunning, RunnerPolicy
  <2>2. policy[current] \in Policies
    BY DEF IInv, TypeOK, Procs
  <2>3. current \notin held
    BY <2>1 DEF IInv, HeldRunnable, RUNNABLE, RUNNING
  <2> QED BY <2>1, <2>2, <2>3 DEF Added, Requeues, Policies, RUNNING, UNUSED
<1>5. \A x \in Slots : Added(x)' <=> Added(x)
  <2> TAKE x \in Slots
  <2>1. x \in Procs
    BY DEF Procs
  <2>2. state'[x] # UNUSED <=> state[x] # UNUSED
    <3>1. RUNNABLE # UNUSED /\ RUNNING # UNUSED
      BY DEF RUNNABLE, RUNNING, UNUSED
    <3>2. CASE x = new
      BY <1>0, <1>1, <1>3, <2>1, <3>1, <3>2
    <3>3. CASE x # new /\ x = current
      BY <1>0, <1>4, <2>1, <3>1, <3>3
    <3>4. CASE x # new /\ x # current
      BY <1>0, <2>1, <3>4
    <3> QED BY <3>2, <3>3, <3>4
  <2> QED BY <1>0, <2>2 DEF Added
<1>6. RealTimeSet' = RealTimeSet
  BY <1>0, <1>5 DEF RealTimeSet
<1> DEFINE left == ReadySet \ {new}
           old == {current} \ {Idle, NULL}
<1>7. current \in Slots => old = {current}
  BY NullFacts
<1>8. current \notin Slots => old = {}
  BY DEF IInv, TypeOK, Procs
<1>9. CASE current \in Slots /\ ~Requeues(current)
  <2>1. old \subseteq RealTimeSet
    BY <1>4, <1>7, <1>9 DEF RealTimeSet
  <2>2. ReadySet' = left
    BY <1>1, <1>9 DEF ReadySet
  <2>3. GoneSet' = GoneSet \cup old
    BY <1>0, <1>1, <1>3, <1>4, <1>5, <1>7, <1>9, NullFacts DEF GoneSet
  <2> QED BY <1>0, <1>2, <1>6, <2>1, <2>2, <2>3 DEF Dispatcher!Switch
<1>10. CASE ~(current \in Slots /\ ~Requeues(current))
  <2>1. ReadySet' = left \cup old
    BY <1>1, <1>7, <1>8, <1>10 DEF ReadySet, Requeues
  <2>2. GoneSet' = GoneSet
    BY <1>0, <1>1, <1>3, <1>5, <1>10, NullFacts DEF GoneSet, Requeues
  <2> QED BY <1>0, <1>2, <1>6, <2>1, <2>2 DEF Dispatcher!Switch
<1> QED BY <1>9, <1>10

\* Aging moves processes from queue to queue.
LEMMA TickDispatch ==
  ASSUME IInv, TickContinues
  PROVE  UNCHANGED dispatchVars
<1> DEFINE due == NextTick = 0
<1>1. /\ ready_queues' = AgedQueues(due, ready_queues)
      /\ UNCHANGED <<state, policy, rt_queue, current, held>>
  BY DEF TickContinues
<1>2. due \in BOOLEAN
  OBVIOUS
<1> HIDE DEF due
<1>3. /\ QueuesOK(rt_queue, ready_queues, queue_level)
      /\ queue_level \in [Procs -> Levels] /\ time_slice \in [Procs -> Nat]
  BY IInvQueuesOK DEF IInv, TypeOK
<1>4. \A x \in Slots : In(rt_queue, AgedQueues(due, ready_queues), x) <=>
                       In(rt_queue, ready_queues, x)
  BY <1>2, <1>3, AgedFacts
<1>5. \A x \in Slots : Queued(x)' <=> Queued(x)
  <2>1. \A x : Queued(x)' <=> In(rt_queue', ready_queues', x)
    BY DEF Queued, InRt, InLevel, In
  <2> QED BY <1>1, <1>4, <2>1, QueuedIsIn
<1>6. \A x \in Slots : Added(x)' <=> Added(x)
  BY <1>1 DEF Added
<1> QED BY <1>1, <1>5, <1>6, DispatchUnchanged

-----------------------------------------------------------------------------
(***************************************************************************)
(* The theorems.                                                           *)
(***************************************************************************)
LEMMA NextIInv == IInv /\ [Next]_vars => IInv'
<1> SUFFICES ASSUME IInv, [Next]_vars PROVE IInv'
  OBVIOUS
<1>1. CASE process_alloc
  BY <1>1, AllocIInv
<1>2. ASSUME NEW p \in held, process_free(p) \/ Configure(p) \/ sched_add(p)
      PROVE  IInv'
  BY <1>2, FreeIInv, ConfigureIInv, AddIInv
<1>3. CASE scheduler
  BY <1>3, SchedulerIInv
<1>4. CASE sched_yield
  BY <1>4, YieldIInv
<1>5. CASE sched_tick
  BY <1>5, TickNoneIInv, TickContinuesIInv, TickPreemptsIInv DEF sched_tick
<1>6. CASE UNCHANGED vars
  <2>1. UNCHANGED <<fields, queues, cpu, held>>
    BY <1>6 DEF vars, fields, queues, cpu
  <2> USE <2>1 DEF fields, queues, cpu
  <2>2. TypeOK' /\ QueuesDistinct' /\ RtSorted'
    BY DEF IInv, TypeOK, QueuesDistinct, RtSorted, Sorted
  <2>3. Routed' /\ QueuedIsReady' /\ NoProcessLost'
    BY DEF IInv, Routed, QueuedIsReady, NoProcessLost, Added, Queued, InRt, InLevel
  <2>4. OneRunning' /\ HeldRunnable' /\ RunnerPolicy' /\ RunnerHasSlice'
    BY DEF IInv, OneRunning, HeldRunnable, RunnerPolicy, RunnerHasSlice
  <2>5. TrapStateIntact'
    BY DEF IInv, TrapStateIntact, Suspended
  <2> QED BY <2>2, <2>3, <2>4, <2>5 DEF IInv
<1> QED BY <1>1, <1>2, <1>3, <1>4, <1>5, <1>6 DEF Next

\* The invariant holds throughout every behaviour of the scheduler, for any
\* number of processes, any time slices and any aging period.
THEOREM Invariance == Spec => []IInv
BY InitIInv, NextIInv, PTL DEF Spec

\* process_t's fields, the queues and the CPU state keep their types: in
\* particular queue_level stays within the four levels, so that the clamp in
\* sched_add never acts, and time_slice never goes below zero in sched_tick.
THEOREM TypeCorrect == Spec => []TypeOK
<1>1. IInv => TypeOK
  BY DEF IInv
<1> QED BY <1>1, Invariance, PTL

\* No process is ever in a queue twice, although no enqueue looks for the
\* process first.
THEOREM QueuesSound == Spec => []QueuesDistinct
<1>1. IInv => QueuesDistinct
  BY DEF IInv
<1> QED BY <1>1, Invariance, PTL

\* A queued process is always in the queue its policy and level call for, and
\* so in one queue only, across demotion and aging.
THEOREM QueuesRouted == Spec => []Routed
<1>1. IInv => Routed
  BY DEF IInv
<1> QED BY <1>1, Invariance, PTL

\* Only RUNNABLE processes that neither run nor belong to their creator wait
\* in the queues sched_next dispatches from.
THEOREM QueuedReady == Spec => []QueuedIsReady
<1>1. IInv => QueuedIsReady
  BY DEF IInv
<1> QED BY <1>1, Invariance, PTL

\* The silent drop of mlfq_enqueue and rt_enqueue never happens and aging
\* loses nobody: every process added to the scheduler stays with it, but for
\* the SCHED_IDLE and the SCHED_FIFO cases NoProcessLost names.
THEOREM NothingLost == Spec => []NoProcessLost
<1>1. IInv => NoProcessLost
  BY DEF IInv
<1> QED BY <1>1, Invariance, PTL

\* At most one process is RUNNING, the one on the CPU, but for SCHED_FIFO
\* processes that yielded.
THEOREM RunningUnique == Spec => []OneRunning
<1>1. IInv => OneRunning
  BY DEF IInv
<1> QED BY <1>1, Invariance, PTL

\* rt_enqueue keeps the real-time queue sorted by priority, so that
\* rt_dequeue always takes the most urgent process.
THEOREM RtQueueSorted == Spec => []RtSorted
<1>1. IInv => RtSorted
  BY DEF IInv
<1> QED BY <1>1, Invariance, PTL

\* A SCHED_NORMAL process on the CPU always has between one tick and the
\* whole slice of its level left, across demotion, aging and preemption.
THEOREM SliceBounded == Spec => []RunnerHasSlice
<1>1. IInv => RunnerHasSlice
  BY DEF IInv
<1> QED BY <1>1, Invariance, PTL

\* sepc and sscratch still belong to the process that was preempted in
\* sched_tick when it is resumed, although trap_entry saves them nowhere.
THEOREM TrapStateSafe == Spec => []TrapStateIntact
<1>1. IInv => TrapStateIntact
  BY DEF IInv
<1> QED BY <1>1, Invariance, PTL

\* No operation of the scheduler lets one process overtake another in a
\* queue: not the dequeue of the next process, not the insertion of an old or
\* a new one, and not the emptying of three queues into one by aging.
THEOREM OrderPreserved == Spec => NoOvertaking
<1>1. IInv /\ [Next]_vars => OrderKept
  <2> SUFFICES ASSUME IInv, [Next]_vars PROVE OrderKept
    OBVIOUS
  <2>1. time_slice \in [Procs -> Nat]
    BY DEF IInv, TypeOK
  <2>2. CASE UNCHANGED queues
    BY <2>2, SameQueuesOrder DEF queues
  <2>3. ASSUME NEW p \in held, sched_add(p) PROVE OrderKept
    BY <2>3, AddKeepsOrder
  <2>4. CASE scheduler
    <3>1. context_switch(current, sched_next, "yield", time_slice, global_ticks, sie)
      BY <2>4 DEF scheduler
    <3> QED BY <2>1, <3>1, SwitchKeepsOrder
  <2>5. CASE sched_yield
    <3>1. context_switch(current, sched_next, "yield", time_slice, global_ticks, sie)
      BY <2>5 DEF sched_yield
    <3> QED BY <2>1, <3>1, SwitchKeepsOrder
  <2>6. CASE TickContinues
    BY <2>6, TickKeepsOrder
  <2>7. CASE TickPreempts
    <3>1. /\ current # NULL
          /\ context_switch(current, sched_next, "tick", TickSlice, NextTick, FALSE)
      BY <2>7 DEF TickPreempts
    <3>2. TickSlice \in [Procs -> Nat]
      BY <3>1, TickSliceType DEF IInv
    <3> QED BY <3>1, <3>2, SwitchKeepsOrder
  <2>8. \/ UNCHANGED queues
        \/ \E p \in held : sched_add(p)
        \/ scheduler \/ sched_yield \/ TickContinues \/ TickPreempts
    BY DEF Next, process_alloc, process_free, Configure,
      sched_set_priority, sched_set_policy, sched_tick, TickWithoutProcess,
      vars, queues
  <2> QED BY <2>2, <2>3, <2>4, <2>5, <2>6, <2>7, <2>8
<1> QED BY <1>1, Invariance, PTL DEF Spec, NoOvertaking

\* Round robin as far as the queues go: sched_add and context_switch put a
\* process behind all that wait in its queue, in the real-time queue behind all
\* of its priority, and aging does not let it pass them.
THEOREM TurnsTaken == Spec => TakesTurns
<1>1. IInv /\ [Next]_vars => TurnStep
  <2> SUFFICES ASSUME IInv, [Next]_vars PROVE TurnStep
    OBVIOUS
  <2>1. time_slice \in [Procs -> Nat]
    BY DEF IInv, TypeOK
  <2>2. CASE UNCHANGED queues
    BY <2>2, SameQueuesTurn DEF queues
  <2>3. ASSUME NEW p \in held, sched_add(p) PROVE TurnStep
    BY <2>3, AddTakesTurn
  <2>4. CASE scheduler
    <3>1. context_switch(current, sched_next, "yield", time_slice, global_ticks, sie)
      BY <2>4 DEF scheduler
    <3> QED BY <2>1, <3>1, SwitchTakesTurn
  <2>5. CASE sched_yield
    <3>1. context_switch(current, sched_next, "yield", time_slice, global_ticks, sie)
      BY <2>5 DEF sched_yield
    <3> QED BY <2>1, <3>1, SwitchTakesTurn
  <2>6. CASE TickContinues
    BY <2>6, TickTakesTurn
  <2>7. CASE TickPreempts
    <3>1. /\ current # NULL
          /\ context_switch(current, sched_next, "tick", TickSlice, NextTick, FALSE)
      BY <2>7 DEF TickPreempts
    <3>2. TickSlice \in [Procs -> Nat]
      BY <3>1, TickSliceType DEF IInv
    <3> QED BY <3>1, <3>2, SwitchTakesTurn
  <2>8. \/ UNCHANGED queues
        \/ \E p \in held : sched_add(p)
        \/ scheduler \/ sched_yield \/ TickContinues \/ TickPreempts
    BY DEF Next, process_alloc, process_free, Configure,
      sched_set_priority, sched_set_policy, sched_tick, TickWithoutProcess,
      vars, queues
  <2> QED BY <2>2, <2>3, <2>4, <2>5, <2>6, <2>7, <2>8
<1> QED BY <1>1, Invariance, PTL DEF Spec, TakesTurns

\* The queue level of a process the scheduler has goes up by one when the
\* process uses the last tick of its slice, and to 0 at a multiple of the
\* aging period while the process waits; sched_yield never changes it.
THEOREM LevelsMove == Spec => LevelSteps
<1>1. IInv /\ [Next]_vars => LevelStep
  <2> SUFFICES ASSUME IInv, [Next]_vars PROVE LevelStep
    OBVIOUS
  <2>1. CASE process_alloc \/ \E p \in held : process_free(p) \/ Configure(p)
    BY <2>1, HeldLevelStep
  <2>2. CASE UNCHANGED queue_level
    BY <2>2 DEF LevelStep
  <2>3. CASE scheduler
    <3>1. /\ global_ticks' = global_ticks
          /\ context_switch(current, sched_next, "yield", time_slice, global_ticks, sie)
      BY <2>3 DEF scheduler
    <3> QED BY <3>1, YieldLevelStep
  <2>4. CASE sched_yield
    <3>1. /\ global_ticks' = global_ticks
          /\ context_switch(current, sched_next, "yield", time_slice, global_ticks, sie)
      BY <2>4 DEF sched_yield
    <3> QED BY <3>1, YieldLevelStep
  <2>5. CASE TickContinues
    BY <2>5, TickLevelStep
  <2>6. CASE TickPreempts
    BY <2>6, PreemptLevelStep
  <2>7. \/ process_alloc \/ \E p \in held : process_free(p) \/ Configure(p)
        \/ UNCHANGED queue_level
        \/ scheduler \/ sched_yield \/ TickContinues \/ TickPreempts
    BY DEF Next, sched_add, sched_tick, TickWithoutProcess, vars, fields
  <2> QED BY <2>1, <2>2, <2>3, <2>4, <2>5, <2>6, <2>7
<1> QED BY <1>1, Invariance, PTL DEF Spec, LevelSteps

\* The scheduler implements Dispatch: whatever slices, demotions and aging do,
\* every step adds one process, passes the CPU to one that was ready, or
\* changes nothing that Dispatch speaks of.
THEOREM DispatchImplemented == Spec => ImplementsDispatch
<1>1. Init => Dispatcher!Init
  <2> SUFFICES ASSUME Init PROVE Dispatcher!Init
    OBVIOUS
  <2>1. current = NULL /\ \A x \in Slots : ~Queued(x) /\ ~Added(x)
    BY NullFacts, SMT DEF Init, Queued, InRt, InLevel, Member, Added, Procs
  <2>2. ReadySet = {} /\ RealTimeSet = {} /\ GoneSet = {}
    BY <2>1 DEF ReadySet, RealTimeSet, GoneSet
  <2> QED BY <2>1, <2>2 DEF Dispatcher!Init
<1>2. IInv /\ [Next]_vars => [Dispatcher!Next]_dispatchVars
  <2> SUFFICES ASSUME IInv, [Next]_vars PROVE [Dispatcher!Next]_dispatchVars
    OBVIOUS
  <2>0. time_slice \in [Procs -> Nat] /\ held \subseteq Slots
    BY DEF IInv, TypeOK
  <2>1. CASE process_alloc \/ \E p \in held : process_free(p) \/ Configure(p)
    BY <2>1, HeldDispatch
  <2>2. ASSUME NEW p \in held, sched_add(p) PROVE Dispatcher!Next
    BY <2>0, <2>2, AddDispatch DEF Dispatcher!Next
  <2>3. CASE scheduler
    <3>1. context_switch(current, sched_next, "yield", time_slice, global_ticks, sie)
      BY <2>3 DEF scheduler
    <3>2. Dispatcher!Switch
      BY <2>0, <3>1, SwitchDispatch
    <3> QED BY <3>2 DEF Dispatcher!Next
  <2>4. CASE sched_yield
    <3>1. context_switch(current, sched_next, "yield", time_slice, global_ticks, sie)
      BY <2>4 DEF sched_yield
    <3>2. Dispatcher!Switch
      BY <2>0, <3>1, SwitchDispatch
    <3> QED BY <3>2 DEF Dispatcher!Next
  <2>5. CASE TickContinues
    BY <2>5, TickDispatch
  <2>6. CASE TickPreempts
    <3>1. /\ current # NULL
          /\ context_switch(current, sched_next, "tick", TickSlice, NextTick, FALSE)
      BY <2>6 DEF TickPreempts
    <3>2. TickSlice \in [Procs -> Nat]
      BY <3>1, TickSliceType DEF IInv
    <3>3. Dispatcher!Switch
      BY <3>1, <3>2, SwitchDispatch
    <3> QED BY <3>3 DEF Dispatcher!Next
  <2>7. CASE UNCHANGED <<fields, queues, current, held>>
    <3>1. \A x : Queued(x)' <=> Queued(x)
      BY <2>7 DEF queues, Queued, InRt, InLevel
    <3>2. \A x : Added(x)' <=> Added(x)
      BY <2>7 DEF fields, Added
    <3> QED BY <2>7, <3>1, <3>2, DispatchUnchanged DEF fields
  <2>8. \/ process_alloc \/ \E p \in held : process_free(p) \/ Configure(p)
        \/ \E p \in held : sched_add(p)
        \/ scheduler \/ sched_yield \/ TickContinues \/ TickPreempts
        \/ UNCHANGED <<fields, queues, current, held>>
    BY DEF Next, sched_tick, TickWithoutProcess, vars, fields, queues
  <2> QED BY <2>1, <2>2, <2>3, <2>4, <2>5, <2>6, <2>7, <2>8
<1>3. IInv /\ [Next]_vars => [Dispatcher!Next]_(Dispatcher!vars)
  BY <1>2 DEF dispatchVars, Dispatcher!vars
<1> QED BY <1>1, <1>3, Invariance, PTL DEF Spec, ImplementsDispatch, Dispatcher!Spec

=============================================================================
