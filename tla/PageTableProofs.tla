-------------------------- MODULE PageTableProofs --------------------------
(***************************************************************************)
(* The tables of PageTable, for every number of pages and entries and for  *)
(* any callers.  In this order: division and the index of a page at each   *)
(* level; trees of tables of depth three as constants, with one lemma per  *)
(* change that a step makes to them (a new root, a new table at a level, a *)
(* leaf, a tree freed); the translation of a page in such a tree and what  *)
(* each change does to it; the invariant PageInv with one lemma per        *)
(* action; and mappages from its first page to its return (CallSound).     *)
(*                                                                         *)
(* The lemmas about trees and translations take the tables as parameters,  *)
(* so that they can be used before and after a step.                       *)
(***************************************************************************)
EXTENDS PageTable, TLAPS

\* Most steps are first-order; a leaf that needs arithmetic, functions or records
\* names SMT.
USE Zenon

LEMMA DivMod == ASSUME NEW n \in Nat, NEW d \in Nat \ {0}
  PROVE n \div d \in Nat /\ (n % d) \in 0 .. d - 1 /\ n = d * (n \div d) + (n % d)
  BY SMT

LEMMA DivUnique == ASSUME NEW q \in Nat, NEW d \in Nat \ {0}, NEW r \in 0 .. d - 1
  PROVE (d * q + r) \div d = q /\ (d * q + r) % d = r
  BY SMT

LEMMA DivBelow == ASSUME NEW n \in Nat, NEW d \in Nat \ {0}
  PROVE n \div d \in Nat /\ d * (n \div d) <= n
<1> DEFINE q == n \div d
           r == n % d
<1>1. q \in Nat /\ r \in 0 .. d - 1 /\ n = d * q + r  BY DivMod
<1> HIDE DEF q, r
<1>2. d * q <= n  BY <1>1, SMT
<1> QED BY <1>1, <1>2 DEF q

LEMMA ScaledDiv == ASSUME NEW v \in Nat, NEW d \in Nat \ {0}, NEW k \in Nat \ {0}
  PROVE (v * k) \div (k * d) = v \div d
<1> DEFINE q == v \div d
           r == v % d
<1>1. q \in Nat /\ r \in 0 .. d - 1 /\ v = d * q + r  BY DivMod
<1> HIDE DEF q, r
<1>2. k * d \in Nat \ {0} /\ k * r \in Nat /\ k * r < k * d  BY <1>1, SMT
<1>3. v * k = (k * d) * q + k * r  BY <1>1, SMT
<1>4. (v * k) \div (k * d) = q  BY <1>1, <1>2, <1>3, DivUnique, SMT
<1> QED BY <1>4 DEF q

LEMMA IndexType == ASSUME NEW va \in Nat, NEW level \in 0 .. 2
  PROVE PX(level, va) \in Indices
<1>1. Span(level) \in Nat \ {0}  BY PageTableAssumption, SMT DEF Span
<1>2. va \div Span(level) \in Nat  BY <1>1, DivMod
<1> QED BY <1>2, PageTableAssumption, DivMod DEF PX, Indices

LEMMA IndexOfPage == ASSUME NEW v \in Nat
  PROVE /\ PX(0, v * PGSIZE) = v % ENTRIES
        /\ PX(1, v * PGSIZE) = (v \div ENTRIES) % ENTRIES
        /\ PX(2, v * PGSIZE) = ((v \div ENTRIES) \div ENTRIES) % ENTRIES
<1>1. (v * PGSIZE) \div (PGSIZE * 1) = v \div 1  BY PageTableAssumption, ScaledDiv, SMT
<1>2. (v * PGSIZE) \div (PGSIZE * ENTRIES) = v \div ENTRIES  BY PageTableAssumption, ScaledDiv
<1>3. (v * PGSIZE) \div (PGSIZE * (ENTRIES * ENTRIES)) = v \div (ENTRIES * ENTRIES)
  BY PageTableAssumption, ScaledDiv, SMT
<1>4. v \div (ENTRIES * ENTRIES) = (v \div ENTRIES) \div ENTRIES
  <2> DEFINE q == v \div ENTRIES
             r == v % ENTRIES
             s == q \div ENTRIES
             u == q % ENTRIES
  <2>1. q \in Nat /\ r \in 0 .. ENTRIES - 1 /\ v = ENTRIES * q + r
    BY PageTableAssumption, DivMod
  <2> HIDE DEF q, r
  <2>2. s \in Nat /\ u \in 0 .. ENTRIES - 1 /\ q = ENTRIES * s + u
    BY <2>1, PageTableAssumption, DivMod
  <2> HIDE DEF s, u
  <2>3. v = (ENTRIES * ENTRIES) * s + (ENTRIES * u + r)  BY <2>1, <2>2, PageTableAssumption, SMT
  <2>4. ENTRIES * u <= ENTRIES * (ENTRIES - 1)  BY <2>2, PageTableAssumption, SMT
  <2>5. ENTRIES * u + r \in 0 .. (ENTRIES * ENTRIES) - 1  BY <2>1, <2>2, <2>4, PageTableAssumption, SMT
  <2>6. ENTRIES * ENTRIES \in Nat \ {0}  BY PageTableAssumption, SMT
  <2>7. v \div (ENTRIES * ENTRIES) = s  BY <2>2, <2>3, <2>5, <2>6, DivUnique
  <2> QED BY <2>7 DEF s, q
<1>5. v \div 1 = v  BY SMT
<1> QED BY <1>1, <1>2, <1>3, <1>4, <1>5, SMT DEF PX, Span

LEMMA PagesBelow == ASSUME NEW v \in VPages
  PROVE v \in Nat /\ ((v \div ENTRIES) \div ENTRIES) % ENTRIES = (v \div ENTRIES) \div ENTRIES
<1> DEFINE n == ENTRIES * ENTRIES * ENTRIES
<1>1. n \in Nat \ {0}  BY PageTableAssumption, SMT
<1>a. n = ENTRIES * (ENTRIES * ENTRIES) BY PageTableAssumption, SMT
<1> HIDE DEF n
<1>2. MAXVA <= n * PGSIZE /\ MAXVA \in Nat
  <2>1. n * PGSIZE \in Nat BY <1>1, PageTableAssumption, SMT
  <2> QED BY <2>1, SMT DEF MAXVA, n
<1> DEFINE m == MAXVA \div PGSIZE
<1>3. m \in Nat /\ PGSIZE * m <= MAXVA  BY <1>2, PageTableAssumption, DivBelow
<1>4. v \in Nat /\ v + 1 <= m  BY <1>3, SMT DEF VPages
<1> HIDE DEF m
<1>5. v < n
  <2>1. PGSIZE * m <= PGSIZE * n  BY <1>1, <1>2, <1>3, PageTableAssumption, SMT
  <2>2. m <= n  BY <2>1, <1>1, <1>3, PageTableAssumption, SMT
  <2> QED BY <2>2, <1>1, <1>3, <1>4, SMT
<1> DEFINE q == v \div ENTRIES
           s == q \div ENTRIES
<1>6. q \in Nat /\ ENTRIES * q <= v  BY <1>4, PageTableAssumption, DivBelow
<1> HIDE DEF q
<1>7. s \in Nat /\ ENTRIES * s <= q  BY <1>6, PageTableAssumption, DivBelow
<1> HIDE DEF s
<1>8. s < ENTRIES
  <2>1. SUFFICES ASSUME s >= ENTRIES PROVE FALSE BY <1>7, PageTableAssumption, SMT
  <2>2. q >= ENTRIES * ENTRIES BY <2>1, <1>6, <1>7, PageTableAssumption, SMT
  <2>3. ENTRIES * q >= ENTRIES * (ENTRIES * ENTRIES) BY <2>2, <1>6, PageTableAssumption, SMT
  <2> QED BY <2>3, <1>5, <1>6, <1>a, <1>4, PageTableAssumption, SMT
<1>9. s % ENTRIES = s BY <1>8, <1>7, PageTableAssumption, SMT
<1> QED BY <1>9, <1>4 DEF s, q

LEMMA MaxPages ==
  /\ MAXVA \in Nat /\ MAXVA \div PGSIZE \in Nat
  /\ MAXVA = PGSIZE * (MAXVA \div PGSIZE)
<1>1. MAXVA \in Nat
  <2>1. ENTRIES * ENTRIES * ENTRIES * PGSIZE \in Nat  BY PageTableAssumption, SMT
  <2> QED BY <2>1, SMT DEF MAXVA
<1>2. MAXVA \div PGSIZE \in Nat /\ MAXVA = PGSIZE * (MAXVA \div PGSIZE) + (MAXVA % PGSIZE)
  BY <1>1, PageTableAssumption, DivMod
<1>3. MAXVA % PGSIZE = 0  BY PageTableAssumption
<1> DEFINE m == MAXVA \div PGSIZE
<1>4. m \in Nat /\ MAXVA = PGSIZE * m + 0  BY <1>2, <1>3
<1> HIDE DEF m
<1>5. PGSIZE * m \in Nat  BY <1>4, PageTableAssumption, SMT
<1>6. MAXVA = PGSIZE * m  BY <1>4, <1>5, SMT
<1> QED BY <1>1, <1>4, <1>6 DEF m

LEMMA IndexInjective == ASSUME NEW v \in VPages, NEW w \in VPages,
    \A l \in 0 .. 2 : PX(l, v * PGSIZE) = PX(l, w * PGSIZE)
  PROVE v = w
<1>1. v \in Nat /\ w \in Nat  BY PagesBelow
<1>2. v % ENTRIES = w % ENTRIES  BY <1>1, IndexOfPage, SMT
<1>3. (v \div ENTRIES) % ENTRIES = (w \div ENTRIES) % ENTRIES  BY <1>1, IndexOfPage, SMT
<1>4. (v \div ENTRIES) \div ENTRIES = (w \div ENTRIES) \div ENTRIES  BY <1>1, IndexOfPage, PagesBelow, SMT
<1>5. v \div ENTRIES \in Nat /\ w \div ENTRIES \in Nat  BY <1>1, PageTableAssumption, DivMod
<1>6. v \div ENTRIES = w \div ENTRIES
  <2>1. v \div ENTRIES = ENTRIES * ((v \div ENTRIES) \div ENTRIES) + ((v \div ENTRIES) % ENTRIES)
    BY <1>5, PageTableAssumption, DivMod
  <2>2. w \div ENTRIES = ENTRIES * ((w \div ENTRIES) \div ENTRIES) + ((w \div ENTRIES) % ENTRIES)
    BY <1>5, PageTableAssumption, DivMod
  <2> QED BY <2>1, <2>2, <1>3, <1>4
<1> QED
  <2>1. v = ENTRIES * (v \div ENTRIES) + (v % ENTRIES)
    BY <1>1, PageTableAssumption, DivMod
  <2>2. w = ENTRIES * (w \div ENTRIES) + (w % ENTRIES)
    BY <1>1, PageTableAssumption, DivMod
  <2> QED BY <2>1, <2>2, <1>2, <1>6
-----------------------------------------------------------------------------
\* The tables T as a tree below the roots R: M is its middle level, B its last.
TreeOf(T, R, M, B) ==
  /\ R \cap M = {} /\ R \cap B = {} /\ M \cap B = {}
  /\ \A t \in R, i \in Indices : T[t][i].valid => ~T[t][i].leaf /\ T[t][i].to \in M
  /\ \A t \in M, i \in Indices : T[t][i].valid => ~T[t][i].leaf /\ T[t][i].to \in B
  /\ \A t \in B, i \in Indices : T[t][i].valid => T[t][i].leaf
  /\ \A u \in M : \E t \in R, i \in Indices : T[t][i].valid /\ T[t][i].to = u
  /\ \A u \in B : \E t \in M, i \in Indices : T[t][i].valid /\ T[t][i].to = u
  /\ \A t, u \in R \cup M, i, j \in Indices :
       T[t][i].valid /\ T[u][j].valid /\ T[t][i].to = T[u][j].to => t = u /\ i = j

\* The sets of PageTable, for any tables and roots.
SubOf(T, t) == {T[t][i].to : i \in {j \in Indices : T[t][j].valid /\ ~T[t][j].leaf}}
MiddleOf(T, R) == UNION {SubOf(T, r) : r \in R}
BottomOf(T, R) == UNION {SubOf(T, t) : t \in MiddleOf(T, R)}
PointersOf(T, O) == {x \in O \X Indices : T[x[1]][x[2]].valid /\ ~T[x[1]][x[2]].leaf}
SoundOf(T, O, R) ==
  /\ O = R \cup MiddleOf(T, R) \cup BottomOf(T, R)
  /\ R \cap MiddleOf(T, R) = {} /\ R \cap BottomOf(T, R) = {}
  /\ MiddleOf(T, R) \cap BottomOf(T, R) = {}
  /\ \A x, y \in PointersOf(T, O) : T[x[1]][x[2]].to = T[y[1]][y[2]].to => x = y
  /\ \A t \in O, i \in Indices :
       T[t][i].valid => (T[t][i].leaf <=> t \in BottomOf(T, R))

\* Membership in the levels, without the sets.
LEMMA InLevels ==
  ASSUME NEW T, NEW R
  PROVE  /\ \A t : \A u : u \in SubOf(T, t) <=>
              \E i \in Indices : T[t][i].valid /\ ~T[t][i].leaf /\ T[t][i].to = u
         /\ \A u : u \in MiddleOf(T, R) <=> \E t \in R : u \in SubOf(T, t)
         /\ \A u : u \in BottomOf(T, R) <=> \E t \in MiddleOf(T, R) : u \in SubOf(T, t)
<1>1. \A t : \A u : u \in SubOf(T, t) <=>
        \E i \in Indices : T[t][i].valid /\ ~T[t][i].leaf /\ T[t][i].to = u
  BY DEF SubOf
<1>2. \A u : u \in MiddleOf(T, R) <=> \E t \in R : u \in SubOf(T, t)
  BY DEF MiddleOf
<1>3. \A u : u \in BottomOf(T, R) <=> \E t \in MiddleOf(T, R) : u \in SubOf(T, t)
  BY DEF BottomOf
<1> QED BY <1>1, <1>2, <1>3

\* A tree is sound, and its levels are the ones PageTable computes.
LEMMA SoundFromTree ==
  ASSUME NEW T, NEW R, NEW M, NEW B, NEW O, TreeOf(T, R, M, B), O = R \cup M \cup B
  PROVE  MiddleOf(T, R) = M /\ BottomOf(T, R) = B /\ SoundOf(T, O, R)
<1>1. MiddleOf(T, R) = M
  <2>1. \A u : u \in MiddleOf(T, R) => u \in M  BY InLevels, SMT DEF TreeOf
  <2>2. \A u : u \in M => u \in MiddleOf(T, R)  BY InLevels, SMT DEF TreeOf
  <2> QED BY <2>1, <2>2
<1>2. BottomOf(T, R) = B
  <2>1. \A u : u \in BottomOf(T, R) => u \in B  BY <1>1, InLevels, SMT DEF TreeOf
  <2>2. \A u : u \in B => u \in BottomOf(T, R)  BY <1>1, InLevels, SMT DEF TreeOf
  <2> QED BY <2>1, <2>2
<1>3. ASSUME NEW x \in PointersOf(T, O), NEW y \in PointersOf(T, O),
             T[x[1]][x[2]].to = T[y[1]][y[2]].to
      PROVE  x = y
  <2>1. /\ x \in O \X Indices /\ T[x[1]][x[2]].valid /\ ~T[x[1]][x[2]].leaf
        /\ y \in O \X Indices /\ T[y[1]][y[2]].valid /\ ~T[y[1]][y[2]].leaf
    BY DEF PointersOf
  <2>2. x[1] \in R \cup M /\ y[1] \in R \cup M  BY <2>1, SMT DEF TreeOf
  <2>3. x[1] = y[1] /\ x[2] = y[2]  BY <1>3, <2>1, <2>2, SMT DEF TreeOf
  <2> QED BY <2>1, <2>3, SMT
<1>4. \A t \in O, i \in Indices : T[t][i].valid => (T[t][i].leaf <=> t \in B)
  BY DEF TreeOf
<1>5. R \cap M = {} /\ R \cap B = {} /\ M \cap B = {}  BY DEF TreeOf
<1> QED BY <1>1, <1>2, <1>3, <1>4, <1>5 DEF SoundOf

LEMMA TreeFromSound ==
  ASSUME NEW T, NEW O, NEW R, SoundOf(T, O, R)
  PROVE  TreeOf(T, R, MiddleOf(T, R), BottomOf(T, R))
<1> DEFINE M == MiddleOf(T, R)
           B == BottomOf(T, R)
<1>1. R \cap M = {} /\ R \cap B = {} /\ M \cap B = {} /\ O = R \cup M \cup B
  BY DEF SoundOf
<1>2. \A t \in O, i \in Indices : T[t][i].valid => (T[t][i].leaf <=> t \in B)
  BY DEF SoundOf
<1>3. /\ \A u : u \in M <=> \E t \in R : u \in SubOf(T, t)
      /\ \A u : u \in B <=> \E t \in M : u \in SubOf(T, t)
      /\ \A t : \A u : u \in SubOf(T, t) <=>
            \E i \in Indices : T[t][i].valid /\ ~T[t][i].leaf /\ T[t][i].to = u
  BY InLevels, SMT
<1>4. ASSUME NEW t \in R \cup M, NEW u \in R \cup M, NEW i \in Indices, NEW j \in Indices,
             T[t][i].valid, T[u][j].valid, T[t][i].to = T[u][j].to
      PROVE  t = u /\ i = j
  <2> DEFINE x == <<t, i>>
             y == <<u, j>>
  <2>1. t \in O /\ u \in O /\ ~T[t][i].leaf /\ ~T[u][j].leaf  BY <1>1, <1>2, <1>4
  <2>2. x \in PointersOf(T, O) /\ y \in PointersOf(T, O)  BY <1>4, <2>1 DEF PointersOf
  <2>3. x = y  BY <1>4, <2>2 DEF SoundOf
  <2> QED BY <2>3
<1> HIDE DEF M, B
<1>5. \A t \in R, i \in Indices : T[t][i].valid => ~T[t][i].leaf /\ T[t][i].to \in M
  BY <1>1, <1>2, <1>3, SMT
<1>6. \A t \in M, i \in Indices : T[t][i].valid => ~T[t][i].leaf /\ T[t][i].to \in B
  BY <1>1, <1>2, <1>3, SMT
<1>7. \A t \in B, i \in Indices : T[t][i].valid => T[t][i].leaf  BY <1>1, <1>2
<1>8. \A u \in M : \E t \in R, i \in Indices : T[t][i].valid /\ T[t][i].to = u  BY <1>3, SMT
<1>9. \A u \in B : \E t \in M, i \in Indices : T[t][i].valid /\ T[t][i].to = u  BY <1>3, SMT
<1>10. TreeOf(T, R, M, B)
  BY <1>1, <1>4, <1>5, <1>6, <1>7, <1>8, <1>9, SMT DEF TreeOf
<1> QED BY <1>10 DEF M, B

-----------------------------------------------------------------------------
\* What the operations do to a tree.
LEMMA TreeNewRoot ==
  ASSUME NEW T, NEW T1, NEW R, NEW M, NEW B, TreeOf(T, R, M, B),
         NEW p, p \notin R \cup M \cup B,
         \A t \in R \cup M \cup B, i \in Indices : T1[t][i] = T[t][i],
         \A i \in Indices : ~T1[p][i].valid
  PROVE  TreeOf(T1, R \cup {p}, M, B)
<1> DEFINE R1 == R \cup {p}
<1>1. R1 \cap M = {} /\ R1 \cap B = {} /\ M \cap B = {}
  BY SMTT(30) DEF TreeOf
<1>2. \A t \in R1, i \in Indices : T1[t][i].valid => ~T1[t][i].leaf /\ T1[t][i].to \in M
  BY SMTT(30) DEF TreeOf
<1>3. /\ \A t \in M, i \in Indices : T1[t][i].valid => ~T1[t][i].leaf /\ T1[t][i].to \in B
      /\ \A t \in B, i \in Indices : T1[t][i].valid => T1[t][i].leaf
  BY SMTT(30) DEF TreeOf
<1>4. ASSUME NEW u \in M
      PROVE  \E t \in R1, i \in Indices : T1[t][i].valid /\ T1[t][i].to = u
  <2>1. PICK t \in R, i \in Indices : T[t][i].valid /\ T[t][i].to = u
    BY DEF TreeOf
  <2> QED BY <2>1
<1>5. ASSUME NEW u \in B
      PROVE  \E t \in M, i \in Indices : T1[t][i].valid /\ T1[t][i].to = u
  <2>1. PICK t \in M, i \in Indices : T[t][i].valid /\ T[t][i].to = u
    BY DEF TreeOf
  <2>2. T1[t][i] = T[t][i]
    BY <2>1
  <2> QED BY <2>1, <2>2
<1>6. ASSUME NEW t \in R1 \cup M, NEW u \in R1 \cup M,
             NEW i \in Indices, NEW j \in Indices,
             T1[t][i].valid, T1[u][j].valid, T1[t][i].to = T1[u][j].to
      PROVE  t = u /\ i = j
  <2>1. t \in R \cup M /\ u \in R \cup M
    BY <1>6
  <2>2. T1[t][i] = T[t][i] /\ T1[u][j] = T[u][j]
    BY <2>1
  <2> QED BY <1>6, <2>1, <2>2, SMT DEF TreeOf
<1> HIDE DEF R1
<1>7. TreeOf(T1, R1, M, B)
  BY <1>1, <1>2, <1>3, <1>4, <1>5, <1>6, SMT DEF TreeOf
<1> QED BY <1>7 DEF R1

\* T1 is T with the entry k of the table w changed to point to p, a new table.
Grown(T, T1, R, M, B, w, k, p) ==
  /\ TreeOf(T, R, M, B)
  /\ w \in R \cup M /\ k \in Indices /\ ~T[w][k].valid
  /\ p \notin R \cup M \cup B
  /\ T1[w][k].valid /\ ~T1[w][k].leaf /\ T1[w][k].to = p
  /\ \A t \in R \cup M \cup B, i \in Indices :
       t # w \/ i # k => T1[t][i] = T[t][i]
  /\ \A i \in Indices : ~T1[p][i].valid

LEMMA TreeNewMiddle ==
  ASSUME NEW T, NEW T1, NEW R, NEW M, NEW B, NEW r \in R, NEW k, NEW p,
         Grown(T, T1, R, M, B, r, k, p)
  PROVE  TreeOf(T1, R, M \cup {p}, B)
<1>0. /\ TreeOf(T, R, M, B)
      /\ k \in Indices /\ ~T[r][k].valid
      /\ p \notin R \cup M \cup B
      /\ T1[r][k].valid /\ ~T1[r][k].leaf /\ T1[r][k].to = p
      /\ \A t \in R \cup M \cup B, i \in Indices :
           t # r \/ i # k => T1[t][i] = T[t][i]
      /\ \A i \in Indices : ~T1[p][i].valid
  BY DEF Grown
<1> USE <1>0
<1> DEFINE M1 == M \cup {p}
<1>a. \A t \in R \cup M \cup B, i \in Indices : T[t][i].valid => T1[t][i] = T[t][i]
  OBVIOUS
<1>1. R \cap M1 = {} /\ R \cap B = {} /\ M1 \cap B = {}
  BY SMTT(30) DEF TreeOf
<1>2. \A t \in R, i \in Indices : T1[t][i].valid => ~T1[t][i].leaf /\ T1[t][i].to \in M1
  BY SMTT(30) DEF TreeOf
<1>3. \A t \in M1, i \in Indices : T1[t][i].valid => ~T1[t][i].leaf /\ T1[t][i].to \in B
  BY SMTT(30) DEF TreeOf
<1>4. \A t \in B, i \in Indices : T1[t][i].valid => T1[t][i].leaf
  BY SMTT(30) DEF TreeOf
<1>5. \A u \in M1 : \E t \in R, i \in Indices : T1[t][i].valid /\ T1[t][i].to = u
  BY SMTT(30) DEF TreeOf
<1>6. \A u \in B : \E t \in M1, i \in Indices : T1[t][i].valid /\ T1[t][i].to = u
  BY SMTT(30) DEF TreeOf
<1>7. ASSUME NEW t \in R \cup M1, NEW u \in R \cup M1,
             NEW i \in Indices, NEW j \in Indices,
             T1[t][i].valid, T1[u][j].valid, T1[t][i].to = T1[u][j].to
      PROVE  t = u /\ i = j
  <2>1. \A x \in R \cup M1, n \in Indices : T1[x][n].valid =>
          \/ x = r /\ n = k /\ T1[x][n].to = p
          \/ x \in R \cup M /\ T1[x][n] = T[x][n] /\ T[x][n].to # p
    BY SMTT(30) DEF TreeOf
  <2>2. CASE t = r /\ i = k  BY <1>7, <2>1, <2>2, SMT
  <2>3. CASE u = r /\ j = k  BY <1>7, <2>1, <2>3, SMT
  <2>4. CASE ~(t = r /\ i = k) /\ ~(u = r /\ j = k)
    <3>1. /\ t \in R \cup M /\ u \in R \cup M
          /\ T[t][i].valid /\ T[u][j].valid /\ T[t][i].to = T[u][j].to
      BY <1>7, <2>1, <2>4, SMT
    <3> QED BY <3>1, SMT DEF TreeOf
  <2> QED BY <2>2, <2>3, <2>4
<1> HIDE <1>0 DEF M1
<1>8. TreeOf(T1, R, M1, B)
  BY <1>1, <1>2, <1>3, <1>4, <1>5, <1>6, <1>7, SMT DEF TreeOf
<1> QED BY <1>8 DEF M1

LEMMA TreeNewBottom ==
  ASSUME NEW T, NEW T1, NEW R, NEW M, NEW B, NEW m \in M, NEW k, NEW p,
         Grown(T, T1, R, M, B, m, k, p)
  PROVE  TreeOf(T1, R, M, B \cup {p})
<1>0. /\ TreeOf(T, R, M, B)
      /\ k \in Indices /\ ~T[m][k].valid
      /\ p \notin R \cup M \cup B
      /\ T1[m][k].valid /\ ~T1[m][k].leaf /\ T1[m][k].to = p
      /\ \A t \in R \cup M \cup B, i \in Indices :
           t # m \/ i # k => T1[t][i] = T[t][i]
      /\ \A i \in Indices : ~T1[p][i].valid
  BY DEF Grown
<1> USE <1>0
<1> DEFINE B1 == B \cup {p}
<1>a. \A t \in R \cup M \cup B, i \in Indices : T[t][i].valid => T1[t][i] = T[t][i]
  OBVIOUS
<1>1. R \cap M = {} /\ R \cap B1 = {} /\ M \cap B1 = {}
  BY SMTT(30) DEF TreeOf
<1>2. \A t \in R, i \in Indices : T1[t][i].valid => ~T1[t][i].leaf /\ T1[t][i].to \in M
  BY SMTT(30) DEF TreeOf
<1>3. \A t \in M, i \in Indices : T1[t][i].valid => ~T1[t][i].leaf /\ T1[t][i].to \in B1
  BY SMTT(30) DEF TreeOf
<1>4. \A t \in B1, i \in Indices : T1[t][i].valid => T1[t][i].leaf
  <2>1. \A t \in B : t # m
    BY SMT DEF TreeOf
  <2>2. \A t \in B, i \in Indices : T1[t][i] = T[t][i]
    BY <2>1
  <2>3. \A t \in B, i \in Indices : T1[t][i].valid => T1[t][i].leaf
    BY <2>2, SMT DEF TreeOf
  <2> QED BY <2>3
<1>5. ASSUME NEW u \in M
      PROVE  \E t \in R, i \in Indices : T1[t][i].valid /\ T1[t][i].to = u
  <2>1. PICK t \in R, i \in Indices : T[t][i].valid /\ T[t][i].to = u
    BY DEF TreeOf
  <2>2. T1[t][i] = T[t][i]
    BY <1>a, <2>1
  <2> QED BY <2>1, <2>2
<1>6. ASSUME NEW u \in B1
      PROVE  \E t \in M, i \in Indices : T1[t][i].valid /\ T1[t][i].to = u
  <2>1. CASE u = p
    BY <2>1
  <2>2. CASE u \in B
    <3>1. PICK t \in M, i \in Indices : T[t][i].valid /\ T[t][i].to = u
      BY <2>2 DEF TreeOf
    <3>2. T1[t][i] = T[t][i]
      BY <1>a, <3>1
    <3> QED BY <3>1, <3>2
  <2> QED BY <2>1, <2>2
<1>7. ASSUME NEW t \in R \cup M, NEW u \in R \cup M,
             NEW i \in Indices, NEW j \in Indices,
             T1[t][i].valid, T1[u][j].valid, T1[t][i].to = T1[u][j].to
      PROVE  t = u /\ i = j
  <2>1. \A x \in R \cup M, n \in Indices : T1[x][n].valid =>
          \/ x = m /\ n = k /\ T1[x][n].to = p
          \/ x \in R \cup M /\ T1[x][n] = T[x][n] /\ T[x][n].to # p
    BY SMTT(30) DEF TreeOf
  <2>2. CASE t = m /\ i = k  BY <1>7, <2>1, <2>2, SMT
  <2>3. CASE u = m /\ j = k  BY <1>7, <2>1, <2>3, SMT
  <2>4. CASE ~(t = m /\ i = k) /\ ~(u = m /\ j = k)
    <3>1. /\ t \in R \cup M /\ u \in R \cup M
          /\ T[t][i].valid /\ T[u][j].valid /\ T[t][i].to = T[u][j].to
      BY <1>7, <2>1, <2>4, SMT
    <3> QED BY <3>1, SMT DEF TreeOf
  <2> QED BY <2>2, <2>3, <2>4
<1> HIDE <1>0 DEF B1
<1>8. TreeOf(T1, R, M, B1)
  BY <1>1, <1>2, <1>3, <1>4, <1>5, <1>6, <1>7, SMT DEF TreeOf
<1> QED BY <1>8 DEF B1

LEMMA TreeSetLeaf ==
  ASSUME NEW T, NEW T1, NEW R, NEW M, NEW B, TreeOf(T, R, M, B),
         NEW b \in B, NEW k \in Indices,
         \A t \in R \cup M \cup B, i \in Indices :
           t # b \/ i # k => T1[t][i] = T[t][i],
         T1[b][k].valid => T1[b][k].leaf
  PROVE  TreeOf(T1, R, M, B)
<1>1. R \cap M = {} /\ R \cap B = {} /\ M \cap B = {}
  BY DEF TreeOf
<1>2. \A t \in R, i \in Indices : T1[t][i].valid => ~T1[t][i].leaf /\ T1[t][i].to \in M
  BY SMTT(30) DEF TreeOf
<1>3. \A t \in M, i \in Indices : T1[t][i].valid => ~T1[t][i].leaf /\ T1[t][i].to \in B
  BY SMTT(30) DEF TreeOf
<1>4. \A t \in B, i \in Indices : T1[t][i].valid => T1[t][i].leaf
  BY SMTT(30) DEF TreeOf
<1>5. \A u \in M : \E t \in R, i \in Indices : T1[t][i].valid /\ T1[t][i].to = u
  BY SMTT(30) DEF TreeOf
<1>6. \A u \in B : \E t \in M, i \in Indices : T1[t][i].valid /\ T1[t][i].to = u
  BY SMTT(30) DEF TreeOf
<1>7. ASSUME NEW t \in R \cup M, NEW u \in R \cup M,
             NEW i \in Indices, NEW j \in Indices,
             T1[t][i].valid, T1[u][j].valid, T1[t][i].to = T1[u][j].to
      PROVE  t = u /\ i = j
  <2>1. T1[t][i] = T[t][i] /\ T1[u][j] = T[u][j]  BY <1>1
  <2> QED BY <1>7, <2>1, SMT DEF TreeOf
<1> QED BY <1>1, <1>2, <1>3, <1>4, <1>5, <1>6, <1>7, SMT DEF TreeOf

LEMMA EntryOnce ==
  ASSUME NEW T, NEW R, NEW M, NEW B, TreeOf(T, R, M, B),
         NEW t \in R \cup M, NEW u \in R \cup M, NEW i \in Indices, NEW j \in Indices,
         T[t][i].valid, T[u][j].valid, T[t][i].to = T[u][j].to
  PROVE  t = u /\ i = j
BY SMTT(30) DEF TreeOf

FreedOf(T, r) == {r} \cup SubOf(T, r) \cup UNION {SubOf(T, t) : t \in SubOf(T, r)}

LEMMA TreeFree ==
  ASSUME NEW T, NEW T1, NEW R, NEW M, NEW B, TreeOf(T, R, M, B), NEW r \in R,
         \A t \in (R \cup M \cup B) \ FreedOf(T, r), i \in Indices : T1[t][i] = T[t][i]
  PROVE  TreeOf(T1, R \ {r}, M \ FreedOf(T, r), B \ FreedOf(T, r))
<1> DEFINE R1 == R \ {r}
           M1 == M \ FreedOf(T, r)
           B1 == B \ FreedOf(T, r)
<1>a. /\ \A u : u \in SubOf(T, r) <=> u \in M /\ \E i \in Indices : T[r][i].valid /\ T[r][i].to = u
      /\ \A t \in M : \A u : u \in SubOf(T, t)
           <=> u \in B /\ \E i \in Indices : T[t][i].valid /\ T[t][i].to = u
  BY SMTT(30) DEF TreeOf, SubOf
<1>b. \A u : u \in FreedOf(T, r) <=> \/ u = r
                                      \/ u \in SubOf(T, r)
                                      \/ \E t \in SubOf(T, r) : u \in SubOf(T, t)
  BY DEF FreedOf
<1>c. /\ R1 \cap FreedOf(T, r) = {}
      /\ \A u \in M : u \in FreedOf(T, r) <=> u \in SubOf(T, r)
      /\ \A u \in B : u \in FreedOf(T, r) <=> \E t \in SubOf(T, r) : u \in SubOf(T, t)
  BY <1>a, <1>b, SMT DEF TreeOf
<1>d. \A t \in R1 \cup M1 \cup B1, i \in Indices : T1[t][i] = T[t][i]  BY <1>c
<1>e. \A t \in R \cup M, u \in R \cup M, i, j \in Indices :
        T[t][i].valid /\ T[u][j].valid /\ T[t][i].to = T[u][j].to => t = u /\ i = j
  BY DEF TreeOf
<1>1. R1 \cap M1 = {} /\ R1 \cap B1 = {} /\ M1 \cap B1 = {}
  BY DEF TreeOf
<1>2. \A t \in R1, i \in Indices : T1[t][i].valid => ~T1[t][i].leaf /\ T1[t][i].to \in M1
  <2>1. SUFFICES ASSUME NEW t \in R1, NEW i \in Indices, T1[t][i].valid
                PROVE  ~T1[t][i].leaf /\ T1[t][i].to \in M1
    OBVIOUS
  <2>2. T1[t][i] = T[t][i]  BY <1>d
  <2>3. T[t][i].valid /\ ~T[t][i].leaf /\ T[t][i].to \in M  BY <2>1, <2>2 DEF TreeOf
  <2>4. T[t][i].to \notin SubOf(T, r)  BY <2>3, <1>a, <1>e, SMT
  <2> QED BY <2>2, <2>3, <2>4, <1>c
<1>3. \A t \in M1, i \in Indices : T1[t][i].valid => ~T1[t][i].leaf /\ T1[t][i].to \in B1
  <2>1. SUFFICES ASSUME NEW t \in M1, NEW i \in Indices, T1[t][i].valid
                PROVE  ~T1[t][i].leaf /\ T1[t][i].to \in B1
    OBVIOUS
  <2>2. T1[t][i] = T[t][i]  BY <1>d
  <2>3. T[t][i].valid /\ ~T[t][i].leaf /\ T[t][i].to \in B  BY <2>1, <2>2 DEF TreeOf
  <2>4. \A m \in SubOf(T, r) : T[t][i].to \notin SubOf(T, m)
    <3>1. SUFFICES ASSUME NEW m \in SubOf(T, r), T[t][i].to \in SubOf(T, m) PROVE FALSE
      OBVIOUS
    <3>2. m \in M /\ m # t  BY <1>a, <1>c, SMT
    <3>3. \E j \in Indices : T[m][j].valid /\ T[m][j].to = T[t][i].to  BY <3>1, <3>2, <1>a, SMT
    <3> QED BY <2>3, <3>2, <3>3, <1>e
  <2> QED BY <2>2, <2>3, <2>4, <1>c
<1>4. \A t \in B1, i \in Indices : T1[t][i].valid => T1[t][i].leaf
  BY <1>d, SMT DEF TreeOf
<1>5. \A u \in M1 : \E t \in R1, i \in Indices : T1[t][i].valid /\ T1[t][i].to = u
  <2>1. SUFFICES ASSUME NEW u \in M1
                PROVE  \E t \in R1, i \in Indices : T1[t][i].valid /\ T1[t][i].to = u
    OBVIOUS
  <2>2. PICK t \in R, i \in Indices : T[t][i].valid /\ T[t][i].to = u  BY DEF TreeOf
  <2>3. t # r  BY <2>2, <1>a, <1>c, SMT
  <2> QED BY <2>2, <2>3, <1>d
<1>6. \A u \in B1 : \E t \in M1, i \in Indices : T1[t][i].valid /\ T1[t][i].to = u
  <2>1. SUFFICES ASSUME NEW u \in B1
                PROVE  \E t \in M1, i \in Indices : T1[t][i].valid /\ T1[t][i].to = u
    OBVIOUS
  <2>2. PICK t \in M, i \in Indices : T[t][i].valid /\ T[t][i].to = u  BY DEF TreeOf
  <2>3. t \notin SubOf(T, r)  BY <2>2, <1>a, <1>c, SMT
  <2>4. t \in M1  BY <2>3, <1>c
  <2> QED BY <2>2, <2>4, <1>d
<1>7. ASSUME NEW t \in R1 \cup M1, NEW u \in R1 \cup M1,
             NEW i \in Indices, NEW j \in Indices,
             T1[t][i].valid, T1[u][j].valid, T1[t][i].to = T1[u][j].to
      PROVE  t = u /\ i = j
  <2>1. T1[t][i] = T[t][i] /\ T1[u][j] = T[u][j]  BY <1>d
  <2> QED BY <1>7, <2>1, <1>e, SMT
<1>8. TreeOf(T1, R1, M1, B1)
  <2> HIDE DEF R1, M1, B1
  <2> QED BY <1>1, <1>2, <1>3, <1>4, <1>5, <1>6, <1>7, SMT DEF TreeOf
<1> QED BY <1>8

-----------------------------------------------------------------------------
\* The translation of a page by the tables T.
MappedIn(T, r, v) ==
  LET e2 == T[r][PX(2, v * PGSIZE)]
      e1 == T[e2.to][PX(1, v * PGSIZE)]
      e0 == T[e1.to][PX(0, v * PGSIZE)]
  IN  e2.valid /\ e1.valid /\ e0.valid
FrameIn(T, r, v) ==
  LET e2 == T[r][PX(2, v * PGSIZE)]
      e1 == T[e2.to][PX(1, v * PGSIZE)]
  IN  T[e1.to][PX(0, v * PGSIZE)].to

SameIn(T, T1, r, v) ==
  /\ MappedIn(T1, r, v) <=> MappedIn(T, r, v)
  /\ MappedIn(T, r, v) => FrameIn(T1, r, v) = FrameIn(T, r, v)

LEMMA PageIndices ==
  ASSUME NEW v \in VPages
  PROVE  /\ PX(2, v * PGSIZE) \in Indices
         /\ PX(1, v * PGSIZE) \in Indices
         /\ PX(0, v * PGSIZE) \in Indices
<1>1. v * PGSIZE \in Nat  BY PagesBelow, PageTableAssumption, SMT
<1> QED BY <1>1, IndexType, SMT

\* Tables that agree on a tree translate alike.
LEMMA TranslationKept ==
  ASSUME NEW T, NEW T1, NEW R, NEW M, NEW B, TreeOf(T, R, M, B),
         \A t \in R \cup M \cup B, i \in Indices : T1[t][i] = T[t][i],
         NEW r \in R, NEW v \in VPages
  PROVE  SameIn(T, T1, r, v)
<1> DEFINE x2 == PX(2, v * PGSIZE)
           x1 == PX(1, v * PGSIZE)
           x0 == PX(0, v * PGSIZE)
<1>1. x2 \in Indices /\ x1 \in Indices /\ x0 \in Indices  BY PageIndices
<1> HIDE DEF x2, x1, x0
<1>2. T1[r][x2] = T[r][x2]  BY <1>1
<1>3. CASE ~T[r][x2].valid
  BY <1>2, <1>3 DEF SameIn, MappedIn, x2
<1>4. CASE T[r][x2].valid
  <2> DEFINE m == T[r][x2].to
  <2>1. m \in M  BY <1>1, <1>4 DEF TreeOf
  <2>2. T1[m][x1] = T[m][x1]  BY <2>1, <1>1
  <2>3. CASE ~T[m][x1].valid
    BY <1>2, <2>2, <2>3 DEF SameIn, MappedIn, x2, x1
  <2>4. CASE T[m][x1].valid
    <3> DEFINE b == T[m][x1].to
    <3>1. b \in B  BY <2>1, <2>4, <1>1 DEF TreeOf
    <3>2. T1[b][x0] = T[b][x0]  BY <3>1, <1>1
    <3> QED BY <1>2, <2>2, <3>2 DEF SameIn, MappedIn, FrameIn, x2, x1, x0
  <2> QED BY <2>3, <2>4
<1> QED BY <1>3, <1>4

\* A new and empty table, entered where there was none, translates nothing.
LEMMA TranslationNewTable ==
  ASSUME NEW T, NEW T1, NEW R, NEW M, NEW B, NEW w, NEW k, NEW p,
         Grown(T, T1, R, M, B, w, k, p), NEW r \in R, NEW v \in VPages
  PROVE  SameIn(T, T1, r, v)
<1>0. /\ TreeOf(T, R, M, B)
      /\ w \in R \cup M /\ k \in Indices /\ ~T[w][k].valid /\ T1[w][k].to = p
      /\ \A t \in R \cup M \cup B, i \in Indices :
           t # w \/ i # k => T1[t][i] = T[t][i]
      /\ \A i \in Indices : ~T1[p][i].valid
  BY DEF Grown
<1> USE <1>0
<1>d. \A t \in B : t \notin R \cup M  BY DEF TreeOf
<1> DEFINE x2 == PX(2, v * PGSIZE)
           x1 == PX(1, v * PGSIZE)
           x0 == PX(0, v * PGSIZE)
<1>1. x2 \in Indices /\ x1 \in Indices /\ x0 \in Indices  BY PageIndices
<1> HIDE DEF x2, x1, x0
<1>2. CASE r = w /\ x2 = k
  BY <1>1, <1>2 DEF SameIn, MappedIn, x2, x1
<1>3. CASE r # w \/ x2 # k
  <2>1. T1[r][x2] = T[r][x2]  BY <1>1, <1>3
  <2>2. CASE ~T[r][x2].valid
    BY <2>1, <2>2 DEF SameIn, MappedIn, x2
  <2>3. CASE T[r][x2].valid
    <3> DEFINE m == T[r][x2].to
    <3>1. m \in M  BY <1>1, <2>3 DEF TreeOf
    <3>2. CASE m = w /\ x1 = k
      BY <1>1, <2>1, <3>2 DEF SameIn, MappedIn, x2, x1, x0
    <3>3. CASE m # w \/ x1 # k
      <4>1. T1[m][x1] = T[m][x1]  BY <1>1, <3>1, <3>3
      <4>2. CASE ~T[m][x1].valid
        BY <2>1, <4>1, <4>2 DEF SameIn, MappedIn, x2, x1
      <4>3. CASE T[m][x1].valid
        <5> DEFINE b == T[m][x1].to
        <5>0. b \in B  BY <1>1, <3>1, <4>3 DEF TreeOf
        <5>1. b \in B /\ b # w  BY <1>d, <5>0
        <5>2. T1[b][x0] = T[b][x0]  BY <1>1, <5>1
        <5> QED BY <2>1, <4>1, <5>2 DEF SameIn, MappedIn, FrameIn, x2, x1, x0
      <4> QED BY <4>2, <4>3
    <3> QED BY <3>2, <3>3
  <2> QED BY <2>2, <2>3
<1> QED BY <1>2, <1>3

\* T1 is T but for the entry of the page w of the root s: entry k of the table c,
\* below the table n.
Changed(T, T1, R, M, B, s, w, n, c, k) ==
  /\ k = PX(0, w * PGSIZE)
  /\ TreeOf(T, R, M, B)
  /\ T[s][PX(2, w * PGSIZE)].valid /\ n = T[s][PX(2, w * PGSIZE)].to
  /\ T[n][PX(1, w * PGSIZE)].valid /\ c = T[n][PX(1, w * PGSIZE)].to
  /\ \A t \in R \cup M \cup B, i \in Indices : t # c \/ i # k => T1[t][i] = T[t][i]

\* An entry of the last level is the translation of one page of one root.
LEMMA TranslationSet ==
  ASSUME NEW T, NEW T1, NEW R, NEW M, NEW B, NEW s \in R, NEW w \in VPages,
         NEW n, NEW c, NEW k, Changed(T, T1, R, M, B, s, w, n, c, k),
         NEW r \in R, NEW v \in VPages
  PROVE  IF r = s /\ v = w
         THEN (MappedIn(T1, r, v) <=> T1[c][k].valid) /\ FrameIn(T1, r, v) = T1[c][k].to
         ELSE SameIn(T, T1, r, v)
<1>a. k = PX(0, w * PGSIZE)  BY DEF Changed
<1>b. TreeOf(T, R, M, B)  BY DEF Changed
<1>c. /\ T[s][PX(2, w * PGSIZE)].valid /\ n = T[s][PX(2, w * PGSIZE)].to
      /\ T[n][PX(1, w * PGSIZE)].valid /\ c = T[n][PX(1, w * PGSIZE)].to
  BY DEF Changed
<1>d. \A t \in R \cup M \cup B, i \in Indices : t # c \/ i # k => T1[t][i] = T[t][i]
  BY DEF Changed
<1> DEFINE x2 == PX(2, v * PGSIZE)
           x1 == PX(1, v * PGSIZE)
           x0 == PX(0, v * PGSIZE)
           y2 == PX(2, w * PGSIZE)
           y1 == PX(1, w * PGSIZE)
<1>1. /\ x2 \in Indices /\ x1 \in Indices /\ x0 \in Indices
      /\ y2 \in Indices /\ y1 \in Indices /\ k \in Indices
  BY <1>a, PageIndices
<1>2. v # w => x2 # y2 \/ x1 # y1 \/ x0 # k
  <2>1. SUFFICES ASSUME x2 = y2, x1 = y1, x0 = k PROVE v = w
    OBVIOUS
  <2>2. \A l \in 0 .. 2 : PX(l, v * PGSIZE) = PX(l, w * PGSIZE)  BY <2>1, <1>a, SMT
  <2> QED BY <2>2, IndexInjective
<1>3. n \in M /\ c \in B
  <2>1. \A t \in R, i \in Indices : T[t][i].valid => T[t][i].to \in M
    BY <1>b DEF TreeOf
  <2>2. \A t \in M, i \in Indices : T[t][i].valid => T[t][i].to \in B
    BY <1>b DEF TreeOf
  <2>3. n \in M  BY <1>1, <1>c, <2>1
  <2> QED BY <1>1, <1>c, <2>2, <2>3
<1>4. \A t \in R \cup M, i \in Indices : T1[t][i] = T[t][i]
  <2>1. \A t \in R \cup M : t # c
    BY <1>3, <1>b, SMT DEF TreeOf
  <2> QED BY <1>d, <2>1
<1>5. CASE r = s /\ v = w
  <2>1. T1[s][y2] = T[s][y2] /\ T1[n][y1] = T[n][y1]  BY <1>1, <1>3, <1>4
  <2> QED BY <1>5, <1>a, <1>c, <2>1 DEF MappedIn, FrameIn
<1>6. CASE ~(r = s /\ v = w)
  <2> HIDE DEF x2, x1, x0, y2, y1
  <2>1. T1[r][x2] = T[r][x2]  BY <1>1, <1>4
  <2>2. CASE ~T[r][x2].valid
    BY <1>6, <2>1, <2>2 DEF SameIn, MappedIn, x2
  <2>3. CASE T[r][x2].valid
    <3> DEFINE m == T[r][x2].to
    <3>1. m \in M  BY <1>1, <1>b, <2>3 DEF TreeOf
    <3>2. T1[m][x1] = T[m][x1]  BY <1>1, <3>1, <1>4
    <3>3. CASE ~T[m][x1].valid
      BY <1>6, <2>1, <3>2, <3>3 DEF SameIn, MappedIn, x2, x1
    <3>4. CASE T[m][x1].valid
      <4> DEFINE b == T[m][x1].to
      <4>1. b \in B  BY <1>1, <1>b, <3>1, <3>4 DEF TreeOf
      <4>2. b = c => m = n /\ x1 = y1
        <5>1. T[n][y1].valid /\ T[n][y1].to = c  BY <1>c DEF y1
        <5>2. SUFFICES ASSUME b = c PROVE m = n /\ x1 = y1
          OBVIOUS
        <5>3. T[m][x1].to = T[n][y1].to  BY <5>1, <5>2
        <5>4. m \in R \cup M /\ n \in R \cup M  BY <1>3, <3>1
        <5>5. T[m][x1].valid /\ T[n][y1].valid  BY <3>4, <5>1
        <5> HIDE DEF m
        <5>6. x1 \in Indices /\ y1 \in Indices  BY <1>1
        <5>7. m = n  BY <5>3, <5>4, <5>5, <5>6, <1>b, EntryOnce, SMT
        <5>8. x1 = y1 BY <5>3, <5>4, <5>5, <5>6, <1>b, EntryOnce, SMT
        <5> QED BY <5>7, <5>8
      <4>3. m = n => r = s /\ x2 = y2
        <5>1. SUFFICES ASSUME m = n PROVE r = s /\ x2 = y2
          OBVIOUS
        <5>2. T[s][y2].valid /\ T[s][y2].to = n  BY <1>c DEF y2
        <5>3. T[r][x2].to = T[s][y2].to  BY <5>1, <5>2
        <5>4. r \in R \cup M /\ s \in R \cup M  OBVIOUS
        <5>5. T[r][x2].valid /\ T[s][y2].valid  BY <2>3, <5>2
        <5>6. x2 \in Indices /\ y2 \in Indices  BY <1>1
        <5>7. r = s  BY <5>3, <5>4, <5>5, <5>6, <1>b, EntryOnce, SMT
        <5>8. x2 = y2  BY <5>3, <5>4, <5>5, <5>6, <1>b, EntryOnce, SMT
        <5> QED BY <5>7, <5>8
      <4>4. b # c \/ x0 # k  BY <1>2, <1>6, <4>2, <4>3
      <4>5. T1[b][x0] = T[b][x0]  BY <1>1, <1>d, <4>1, <4>4
      <4>6. SameIn(T, T1, r, v)
        BY <2>1, <3>2, <4>5 DEF SameIn, MappedIn, FrameIn, x2, x1, x0
      <4> QED BY <1>6, <4>6
    <3> QED BY <3>3, <3>4
  <2> QED BY <2>2, <2>3
<1> QED BY <1>5, <1>6

-----------------------------------------------------------------------------
\* A walk under way stands at the table that the entries above it point to.
WalkSound ==
  Running =>
    LET e2 == table[call.pagetable][PX(2, call.a)]
        e1 == table[e2.to][PX(1, call.a)]
    IN  /\ call.a = VPage * PGSIZE
        /\ call.level = 2 => call.at = call.pagetable
        /\ call.level < 2 => call.a < MAXVA /\ e2.valid
        /\ call.level = 1 => call.at = e2.to
        /\ call.level = 0 => e1.valid /\ call.at = e1.to

TranslatesIn(T, R, S) ==
  \A r \in R :
    /\ DOMAIN S[r] = {v \in VPages : MappedIn(T, r, v)}
    /\ \A v \in DOMAIN S[r] : FrameIn(T, r, v) = S[r][v]

PageInv == TypeOK /\ TreeSound /\ Translates /\ WalkSound

LEMMA TreeSoundDef ==
  /\ TreeSound <=> SoundOf(table, owned, roots)
  /\ Middle = MiddleOf(table, roots)
  /\ Bottom = BottomOf(table, roots)
  /\ TreeSound' <=> SoundOf(table', owned', roots')
<1>1. Middle = MiddleOf(table, roots) /\ Middle' = MiddleOf(table', roots')
  BY DEF Middle, MiddleOf, SubTables, SubOf
<1>2. Bottom = BottomOf(table, roots) /\ Bottom' = BottomOf(table', roots')
  BY <1>1 DEF Bottom, BottomOf, SubTables, SubOf
<1>3. Pointers = PointersOf(table, owned) /\ Pointers' = PointersOf(table', owned')
  BY DEF Pointers, PointersOf
<1>4. TreeSound <=> SoundOf(table, owned, roots)
  BY <1>1, <1>2, <1>3 DEF TreeSound, SoundOf, Target
<1>5. TreeSound' <=> SoundOf(table', owned', roots')
  BY <1>1, <1>2, <1>3 DEF TreeSound, SoundOf, Target
<1> QED BY <1>1, <1>2, <1>4, <1>5

LEMMA TranslatesDef ==
  /\ Translates <=> TranslatesIn(table, roots, space)
  /\ Translates' <=> TranslatesIn(table', roots', space')
<1>1. \A r, v : /\ Mapped(r, v) <=> MappedIn(table, r, v)
                /\ walkaddr(r, v) = FrameIn(table, r, v)
                /\ Mapped(r, v)' <=> MappedIn(table', r, v)
                /\ walkaddr(r, v)' = FrameIn(table', r, v)
  BY SMT DEF Mapped, walkaddr, Entry, MappedIn, FrameIn
<1>2. Translates <=> TranslatesIn(table, roots, space)
  BY <1>1 DEF Translates, TranslatesIn
<1>3. Translates' <=> TranslatesIn(table', roots', space')
  BY <1>1 DEF Translates, TranslatesIn
<1> QED BY <1>2, <1>3

LEMMA StateTree ==
  ASSUME PageInv
  PROVE  /\ TreeOf(table, roots, Middle, Bottom)
         /\ owned = roots \cup Middle \cup Bottom
<1>1. SoundOf(table, owned, roots)  BY TreeSoundDef DEF PageInv
<1>2. TreeOf(table, roots, MiddleOf(table, roots), BottomOf(table, roots))
  BY <1>1, TreeFromSound
<1>3. owned = roots \cup MiddleOf(table, roots) \cup BottomOf(table, roots)
  BY <1>1 DEF SoundOf
<1> QED BY <1>2, <1>3, TreeSoundDef

\* Steps that change no table.
LEMMA QuietStep ==
  ASSUME PageInv, UNCHANGED <<owned, table, roots, space>>
  PROVE  TreeSound' /\ Translates'
<1>1. TreeSound'  BY TreeSoundDef DEF PageInv
<1>2. Translates'  BY TranslatesDef DEF PageInv
<1> QED BY <1>1, <1>2

LEMMA EndStep ==
  ASSUME PageInv, UNCHANGED <<owned, table, roots, space>>, call' = NULL,
         ret' \in {"ok", "failed", "panic"}
  PROVE  PageInv'
<1>1. TypeOK'  BY DEF PageInv, TypeOK, Running
<1>2. WalkSound'  BY DEF WalkSound, Running
<1> QED BY <1>1, <1>2, QuietStep DEF PageInv

LEMMA WalkEnds ==
  ASSUME PageInv, WalkBeyond \/ WalkFails \/ Panics
  PROVE  PageInv'
<1>1. UNCHANGED <<owned, table, roots, space>> /\ call' = NULL
  BY DEF WalkBeyond, WalkFails, Panics, NoEntry, Return
<1>2. ret' \in {"ok", "failed", "panic"}
  BY DEF WalkBeyond, WalkFails, Panics, NoEntry, Return
<1> QED BY <1>1, <1>2, EndStep

LEMMA RoundDownFacts ==
  ASSUME NEW x \in Address
  PROVE  /\ RoundDown(x) \in Address
         /\ RoundDown(x) = (RoundDown(x) \div PGSIZE) * PGSIZE
         /\ RoundDown(x) \div PGSIZE = x \div PGSIZE
<1> DEFINE q == x \div PGSIZE
<1>1. x \in Nat /\ x < WORD  BY PageTableAssumption, SMT DEF Address
<1>2. q \in Nat /\ PGSIZE * q <= x  BY <1>1, PageTableAssumption, DivBelow
<1> HIDE DEF q
<1>3. q * PGSIZE = PGSIZE * q /\ q * PGSIZE \in Nat  BY <1>2, PageTableAssumption, SMT
<1>4. q * PGSIZE \in Address  BY <1>1, <1>2, <1>3, PageTableAssumption, SMT DEF Address
<1>5. (q * PGSIZE) \div PGSIZE = q
  <2>1. PGSIZE * q + 0 = q * PGSIZE  BY <1>3, SMT
  <2>2. (PGSIZE * q + 0) \div PGSIZE = q  BY <1>2, PageTableAssumption, DivUnique, SMT
  <2> QED BY <2>1, <2>2
<1>6. RoundDown(x) = q * PGSIZE  BY DEF RoundDown, q
<1> QED BY <1>4, <1>5, <1>6 DEF q

LEMMA StartedCall ==
  ASSUME PageInv, NEW op \in {"mappages", "unmappages"}, NEW r \in roots,
         NEW va \in Address, NEW size \in Address, NEW pa \in Address,
         size # 0, Start(op, r, va, size, pa)
  PROVE  call' \in CallsUnderWay
<1>1. call' = [op |-> op, pagetable |-> r, va |-> va, size |-> size,
               frame |-> pa, a |-> RoundDown(va), last |-> Last(va, size),
               pa |-> pa, level |-> 2, at |-> r]
  BY DEF Start
<1>2. RoundDown(va) \in Address  BY RoundDownFacts
<1>3. Last(va, size) \in Address
  <2>1. va + size - 1 \in Nat  BY PageTableAssumption, SMT DEF Address
  <2>2. (va + size - 1) % WORD \in Address
    BY <2>1, PageTableAssumption, DivMod DEF Address
  <2> QED BY <2>2, RoundDownFacts DEF Last
<1> QED BY <1>1, <1>2, <1>3, SMT DEF CallsUnderWay, PageInv, TypeOK

LEMMA StartStep ==
  ASSUME PageInv, NEW op \in {"mappages", "unmappages"}, NEW r \in roots,
         NEW va \in Address, NEW size \in Address, NEW pa \in Address,
         Start(op, r, va, size, pa)
  PROVE  PageInv'
<1>1. UNCHANGED <<owned, table, roots, space>>  BY DEF Start
<1>2. CASE size = 0
  <2>1. call' = NULL /\ ret' = "panic"  BY <1>2 DEF Start, Return
  <2> QED BY <1>1, <2>1, EndStep
<1>3. CASE size # 0
  <2> DEFINE c == [op |-> op, pagetable |-> r, va |-> va, size |-> size,
                   frame |-> pa, a |-> RoundDown(va), last |-> Last(va, size),
                   pa |-> pa, level |-> 2, at |-> r]
  <2>1. call' = c /\ ret' = ret  BY <1>3 DEF Start
  <2>2. RoundDown(va) \in Address
        /\ RoundDown(va) = (RoundDown(va) \div PGSIZE) * PGSIZE
    BY RoundDownFacts
  <2>3. c \in CallsUnderWay  BY <1>3, <2>1, StartedCall
  <2>4. r \in owned  BY DEF PageInv, TypeOK
  <2>5. c \in CallsUnderWay /\ c.pagetable = r /\ c.at = r
    BY <2>3
  <2>6. TypeOK'  BY <1>1, <2>1, <2>4, <2>5 DEF PageInv, TypeOK
  <2>7. /\ call'.a = RoundDown(va) /\ call'.level = 2
        /\ call'.at = r /\ call'.pagetable = r
    BY <2>1
  <2>8. WalkSound'  BY <2>2, <2>7, SMT DEF WalkSound, VPage
  <2> QED BY <1>1, <2>6, <2>8, QuietStep DEF PageInv
<1> QED BY <1>2, <1>3

\* The table a walk stands at has the level of the walk.
LEMMA WalkStands ==
  ASSUME PageInv, Running
  PROVE  /\ call \in CallsUnderWay /\ call.a \in Nat /\ call.pagetable \in roots
         /\ call.at \in owned /\ call.level \in {0, 1, 2}
         /\ PX(2, call.a) \in Indices /\ PX(1, call.a) \in Indices
         /\ PX(0, call.a) \in Indices /\ PX(call.level, call.a) \in Indices
         /\ call.level = 2 => call.at = call.pagetable
         /\ call.level = 1 => call.at \in Middle
         /\ call.level = 0 => call.at \in Bottom
<1>1. /\ call \in CallsUnderWay /\ call.a \in Nat /\ call.pagetable \in roots
      /\ call.at \in owned /\ call.level \in 0 .. 2
  BY PageTableAssumption, SMT DEF PageInv, TypeOK, CallsUnderWay, Address
<1>2. call.level \in {0, 1, 2}  BY <1>1, SMT
<1>3. /\ PX(2, call.a) \in Indices /\ PX(1, call.a) \in Indices
      /\ PX(0, call.a) \in Indices /\ PX(call.level, call.a) \in Indices
  BY <1>1, IndexType, SMT
<1>4. call.level = 2 => call.at = call.pagetable  BY DEF PageInv, WalkSound
<1> DEFINE e2 == table[call.pagetable][PX(2, call.a)]
           e1 == table[e2.to][PX(1, call.a)]
<1>5. call.level < 2 => e2.valid /\ e2.to \in Middle
  <2>1. call.level < 2 => e2.valid  BY DEF PageInv, WalkSound
  <2>2. \A t \in roots, i \in Indices : table[t][i].valid => table[t][i].to \in Middle
    BY StateTree DEF TreeOf
  <2> QED BY <1>1, <1>3, <2>1, <2>2
<1>6. call.level = 1 => call.at \in Middle  BY <1>2, <1>5, SMT DEF PageInv, WalkSound
<1>7. call.level = 0 => call.at \in Bottom
  <2>1. call.level = 0 => e1.valid /\ call.at = e1.to  BY DEF PageInv, WalkSound
  <2>2. \A t \in Middle, i \in Indices : table[t][i].valid => table[t][i].to \in Bottom
    BY StateTree DEF TreeOf
  <2>3. call.level = 0 => call.level < 2  BY SMT
  <2> QED BY <1>3, <1>5, <2>1, <2>2, <2>3
<1> QED BY <1>1, <1>2, <1>3, <1>4, <1>6, <1>7

LEMMA WalkDownStep ==
  ASSUME PageInv, WalkDown
  PROVE  PageInv' /\ call' \in CallsUnderWay
<1>1. /\ Running /\ call.level > 0 /\ call.a < MAXVA
      /\ table[call.at][PX(call.level, call.a)].valid
      /\ UNCHANGED <<owned, table, roots, space, ret>>
      /\ call' = [call EXCEPT !.level = @ - 1,
                              !.at = table[call.at][PX(call.level, call.a)].to]
  BY DEF WalkDown, PTE
<1> DEFINE next == table[call.at][PX(call.level, call.a)].to
<1>2. call \in CallsUnderWay /\ call.level \in {1, 2}  BY <1>1, WalkStands, SMT
<1>3. /\ call' = [op |-> call.op, pagetable |-> call.pagetable, va |-> call.va,
                  size |-> call.size, frame |-> call.frame, a |-> call.a,
                  last |-> call.last, pa |-> call.pa, level |-> call.level - 1,
                  at |-> next]
  BY <1>1, <1>2 DEF CallsUnderWay
<1>4. next \in owned
  <2>1. CASE call.level = 2
    <3>1. call.at \in roots /\ PX(call.level, call.a) \in Indices  BY <1>1, <2>1, WalkStands
    <3>2. next \in Middle  BY <1>1, <3>1, StateTree, SMT DEF TreeOf
    <3> QED BY <3>2, StateTree
  <2>2. CASE call.level = 1
    <3>1. call.at \in Middle /\ PX(call.level, call.a) \in Indices  BY <1>1, <2>2, WalkStands
    <3>2. next \in Bottom  BY <1>1, <3>1, StateTree, SMT DEF TreeOf
    <3> QED BY <3>2, StateTree
  <2> QED BY <1>2, <2>1, <2>2
<1>5. call' \in CallsUnderWay /\ call'.pagetable \in roots' /\ call'.at \in owned'
  <2>1. call.level - 1 \in 0 .. 2  BY <1>2, SMT
  <2>2. next \in Pages  BY <1>4 DEF PageInv, TypeOK
  <2>3. call' \in CallsUnderWay  BY <1>2, <1>3, <2>1, <2>2 DEF CallsUnderWay
  <2>4. call'.pagetable = call.pagetable /\ call'.at = next  BY <1>3
  <2> QED BY <1>1, <1>4, <2>3, <2>4, WalkStands, SMT
<1>6. TypeOK'  BY <1>1, <1>5 DEF PageInv, TypeOK
<1>7. /\ call'.a = call.a /\ call'.level = call.level - 1 /\ call'.at = next
      /\ call'.pagetable = call.pagetable
  BY <1>3
<1>8. WalkSound'
  <2>1. CASE call.level = 2
    BY <1>1, <1>7, <2>1, SMT DEF PageInv, WalkSound, VPage
  <2>2. CASE call.level = 1
    <3> DEFINE e2 == table[call.pagetable][PX(2, call.a)]
    <3>1. call.a = (call.a \div PGSIZE) * PGSIZE /\ e2.valid /\ call.at = e2.to
      BY <1>1, <2>2, SMT DEF PageInv, WalkSound, VPage
    <3>2. call'.level = 0  BY <1>7, <2>2, SMT
    <3>3. table[e2.to][PX(1, call.a)].valid /\ next = table[e2.to][PX(1, call.a)].to
      BY <1>1, <2>2, <3>1
    <3> HIDE DEF next
    <3>4. table' = table /\ call.a < MAXVA  BY <1>1
    <3> DEFINE f2 == table'[call'.pagetable][PX(2, call'.a)]
               f1 == table'[f2.to][PX(1, call'.a)]
    <3>5. f2 = e2 /\ f1 = table[e2.to][PX(1, call.a)]  BY <1>7, <3>4
    <3>6. f2.valid /\ f1.valid /\ call'.at = f1.to  BY <1>7, <3>1, <3>3, <3>5
    <3>7. call'.a < MAXVA /\ call'.a = (call'.a \div PGSIZE) * PGSIZE  BY <1>7, <3>1, <3>4
    <3>8. call'.level # 2 /\ call'.level # 1  BY <3>2, SMT
    <3> HIDE DEF e2
    <3> QED BY <3>6, <3>7, <3>8 DEF WalkSound, VPage
  <2> QED BY <1>2, <2>1, <2>2
<1> QED BY <1>1, <1>5, <1>6, <1>8, QuietStep DEF PageInv

\* The root r of R has the same translations in T and T1, and S and S1 the same
\* record of them.
Kept(T, T1, R, S, S1, r) ==
  /\ TranslatesIn(T, R, S) /\ r \in R /\ S1[r] = S[r]
  /\ \A v \in VPages : SameIn(T, T1, r, v)

LEMMA TranslatesKept ==
  ASSUME NEW T, NEW T1, NEW R, NEW S, NEW S1, NEW r, Kept(T, T1, R, S, S1, r)
  PROVE  /\ DOMAIN S1[r] = {v \in VPages : MappedIn(T1, r, v)}
         /\ \A v \in DOMAIN S1[r] : FrameIn(T1, r, v) = S1[r][v]
<1> USE DEF Kept
<1>1. DOMAIN S[r] = {v \in VPages : MappedIn(T, r, v)}  BY DEF TranslatesIn
<1>2. \A v \in DOMAIN S[r] : FrameIn(T, r, v) = S[r][v]  BY DEF TranslatesIn
<1>3. DOMAIN S1[r] = {v \in VPages : MappedIn(T1, r, v)}  BY <1>1 DEF SameIn
<1>4. \A v \in DOMAIN S1[r] : FrameIn(T1, r, v) = S1[r][v]  BY <1>1, <1>2 DEF SameIn
<1> QED BY <1>3, <1>4

LEMMA EmptyTableFacts ==
  /\ EmptyTable \in [Indices -> PTEs]
  /\ \A i \in Indices : ~EmptyTable[i].valid
  /\ Invalid \in PTEs /\ ~Invalid.valid
BY DEF EmptyTable, Invalid, PTEs

LEMMA CreateStep ==
  ASSUME PageInv, NEW p \in Pages, vm_create_user_pagetable(p)
  PROVE  PageInv'
<1>1. /\ call = NULL /\ p \notin owned /\ owned' = owned \cup {p}
      /\ roots' = roots \cup {p} /\ call' = NULL /\ ret' = ret
      /\ table' = [q \in owned \cup {p} |-> IF q = p THEN EmptyTable ELSE table[q]]
      /\ space' = [q \in roots \cup {p} |->
                     IF q = p THEN [v \in {} |-> 0] ELSE space[q]]
  BY DEF vm_create_user_pagetable, WithPage, Ready, Running
<1>2. /\ \A t \in owned : table'[t] = table[t]
      /\ table'[p] = EmptyTable
  BY <1>1
<1>3. TypeOK'
  <2>1. owned' \subseteq Pages /\ roots' \subseteq owned' /\ DOMAIN space' = roots'
    BY <1>1 DEF PageInv, TypeOK
  <2>2. table' \in [owned' -> [Indices -> PTEs]]
    BY <1>1, EmptyTableFacts DEF PageInv, TypeOK
  <2> QED BY <1>1, <2>1, <2>2 DEF PageInv, TypeOK, Running
<1>4. TreeOf(table, roots, Middle, Bottom) /\ owned = roots \cup Middle \cup Bottom
  BY StateTree
<1>5. TreeSound'
  <2>1. TreeOf(table', roots', Middle, Bottom)
    BY <1>1, <1>2, <1>4, TreeNewRoot, EmptyTableFacts
  <2>2. owned' = roots' \cup Middle \cup Bottom  BY <1>1, <1>4
  <2>3. SoundOf(table', owned', roots')  BY <2>1, <2>2, SoundFromTree
  <2> QED BY <2>3, TreeSoundDef
<1>6. ASSUME NEW r \in roots'
      PROVE  /\ DOMAIN space'[r] = {v \in VPages : MappedIn(table', r, v)}
             /\ \A v \in DOMAIN space'[r] : FrameIn(table', r, v) = space'[r][v]
  <2>1. CASE r \in roots
    <3>1. space'[r] = space[r]  BY <1>1, <1>4, <2>1
    <3>2. \A v \in VPages : SameIn(table, table', r, v)
      BY <1>2, <1>4, <2>1, TranslationKept
    <3>3. TranslatesIn(table, roots, space)  BY TranslatesDef DEF PageInv
    <3>4. Kept(table, table', roots, space, space', r)
      BY <2>1, <3>1, <3>2, <3>3 DEF Kept
    <3> QED BY <3>4, TranslatesKept, SMT
  <2>2. CASE r = p
    <3>1. space'[r] = [v \in {} |-> 0]  BY <1>1, <2>2
    <3>2. \A v \in VPages : ~MappedIn(table', r, v)
      BY <1>2, <2>2, EmptyTableFacts, PageIndices DEF MappedIn
    <3> QED BY <3>1, <3>2
  <2> QED BY <1>1, <2>1, <2>2
<1>7. Translates'  BY <1>6, TranslatesDef DEF TranslatesIn
<1>8. WalkSound'  BY <1>1 DEF WalkSound, Running
<1> QED BY <1>3, <1>5, <1>7, <1>8 DEF PageInv

LEMMA FreeStep ==
  ASSUME PageInv, NEW r \in roots, vm_free(r)
  PROVE  PageInv'
<1> DEFINE F == FreedOf(table, r)
<1>1. /\ call' = NULL /\ ret' = ret /\ roots' = roots \ {r} /\ owned' = owned \ F
      /\ table' = [t \in owned' |-> table[t]] /\ space' = [q \in roots' |-> space[q]]
  BY DEF vm_free, Freed, FreedOf, SubTables, SubOf, Ready, Running
<1>2. TreeOf(table, roots, Middle, Bottom) /\ owned = roots \cup Middle \cup Bottom
  BY StateTree
<1> HIDE DEF F
<1>3. \A t \in owned \ F : table'[t] = table[t]  BY <1>1
<1>4. TreeOf(table', roots \ {r}, Middle \ F, Bottom \ F)
  BY <1>2, <1>3, TreeFree DEF F
<1>5. owned' = (roots \ {r}) \cup (Middle \ F) \cup (Bottom \ F)
  <2>1. r \in F /\ (roots \ {r}) \cap F = {}
    <3>1. /\ \A u : u \in F <=> \/ u = r
                               \/ u \in SubOf(table, r)
                               \/ \E t \in SubOf(table, r) : u \in SubOf(table, t)
      BY DEF F, FreedOf
    <3>2. SubOf(table, r) \subseteq Middle /\ \A t \in Middle : SubOf(table, t) \subseteq Bottom
      BY <1>2, SMT DEF TreeOf, SubOf
    <3> QED BY <1>2, <3>1, <3>2, SMT DEF TreeOf
  <2> QED BY <1>1, <1>2, <2>1
<1>6. TreeSound'
  <2>1. SoundOf(table', owned', roots')  BY <1>1, <1>4, <1>5, SoundFromTree
  <2> QED BY <2>1, TreeSoundDef
<1>7. TypeOK'
  <2>1. owned' \subseteq owned /\ roots' \subseteq owned'  BY <1>1, <1>5
  <2> QED BY <1>1, <2>1 DEF PageInv, TypeOK, Running
<1>8. ASSUME NEW q \in roots'
      PROVE  /\ DOMAIN space'[q] = {v \in VPages : MappedIn(table', q, v)}
             /\ \A v \in DOMAIN space'[q] : FrameIn(table', q, v) = space'[q][v]
  <2>1. q \in roots /\ q \in roots \ {r} /\ space'[q] = space[q]  BY <1>1
  <2>2. \A t \in (roots \ {r}) \cup (Middle \ F) \cup (Bottom \ F), i \in Indices :
          table[t][i] = table'[t][i]
    BY <1>1, <1>3, <1>5
  <2>3. \A v \in VPages : SameIn(table', table, q, v)
    BY <1>4, <2>1, <2>2, TranslationKept
  <2>4. \A v \in VPages : SameIn(table, table', q, v)  BY <2>3 DEF SameIn
  <2>5. TranslatesIn(table, roots, space)  BY TranslatesDef DEF PageInv
  <2>6. Kept(table, table', roots, space, space', q)
    BY <2>1, <2>4, <2>5 DEF Kept
  <2> QED BY <2>6, TranslatesKept, SMT
<1>9. Translates'  BY <1>8, TranslatesDef DEF TranslatesIn
<1>10. WalkSound'  BY <1>1 DEF WalkSound, Running
<1> QED BY <1>6, <1>7, <1>9, <1>10 DEF PageInv

LEMMA AllocStep ==
  ASSUME PageInv, NEW p \in Pages, WalkAlloc(p)
  PROVE  PageInv' /\ call' \in CallsUnderWay
<1> DEFINE k == PX(call.level, call.a)
<1>1. /\ Running /\ call.level > 0 /\ call.a < MAXVA /\ ~table[call.at][k].valid
      /\ p \notin owned /\ owned' = owned \cup {p} /\ UNCHANGED <<roots, space, ret>>
      /\ table' = [WithPage(p) EXCEPT ![call.at][k] = PointsTo(p)]
      /\ call' = [call EXCEPT !.level = @ - 1, !.at = p]
  BY DEF WalkAlloc, PTE
<1>2. /\ call \in CallsUnderWay /\ call.level \in {1, 2} /\ call.at \in owned
      /\ k \in Indices /\ call.pagetable \in roots
      /\ PX(2, call.a) \in Indices /\ PX(1, call.a) \in Indices
      /\ call.level = 2 => call.at \in roots
      /\ call.level = 1 => call.at \in Middle
  BY <1>1, WalkStands, SMT DEF CallsUnderWay
<1> HIDE DEF k
<1>3. TreeOf(table, roots, Middle, Bottom) /\ owned = roots \cup Middle \cup Bottom
  BY StateTree
<1>4. table \in [owned -> [Indices -> PTEs]] /\ owned \subseteq Pages
  BY DEF PageInv, TypeOK
<1>5. PointsTo(p) \in PTEs /\ PointsTo(p).valid /\ ~PointsTo(p).leaf /\ PointsTo(p).to = p
  BY DEF PTEs, PointsTo
<1>6. /\ WithPage(p) \in [owned' -> [Indices -> PTEs]]
      /\ \A t \in owned : WithPage(p)[t] = table[t]
      /\ WithPage(p)[p] = EmptyTable
  BY <1>1, <1>4, EmptyTableFacts DEF WithPage
<1>7. /\ table' \in [owned' -> [Indices -> PTEs]]
      /\ \A t \in owned' : t # call.at => table'[t] = WithPage(p)[t]
      /\ table'[call.at] = [WithPage(p)[call.at] EXCEPT ![k] = PointsTo(p)]
  <2> DEFINE W == WithPage(p)
             D == [Indices -> PTEs]
  <2>1. W \in [owned' -> D] /\ call.at \in owned'  BY <1>1, <1>2, <1>6
  <2>2. table' = [W EXCEPT ![call.at] = [W[call.at] EXCEPT ![k] = PointsTo(p)]]
    BY <1>1
  <2>3. W[call.at] \in D  BY <2>1
  <2>4. [W[call.at] EXCEPT ![k] = PointsTo(p)] \in D  BY <1>2, <1>5, <2>3
  <2> HIDE DEF W, D
  <2>5. /\ table' \in [owned' -> D]
        /\ \A t \in owned' : t # call.at => table'[t] = W[t]
        /\ table'[call.at] = [W[call.at] EXCEPT ![k] = PointsTo(p)]
    BY <2>1, <2>2, <2>4
  <2> QED BY <2>5 DEF W, D
<1>8. /\ \A t \in owned, i \in Indices :
           t # call.at \/ i # k => table'[t][i] = table[t][i]
      /\ table'[call.at][k] = PointsTo(p)
      /\ \A i \in Indices : ~table'[p][i].valid
  <2>1. WithPage(p)[call.at] \in [Indices -> PTEs]  BY <1>1, <1>2, <1>6
  <2>2. table'[call.at][k] = PointsTo(p)
        /\ \A i \in Indices : i # k => table'[call.at][i] = table[call.at][i]
    BY <1>2, <1>6, <1>7, <2>1, SMT
  <2>3. \A t \in owned : t # call.at => table'[t] = table[t]  BY <1>1, <1>6, <1>7
  <2>4. table'[p] = EmptyTable  BY <1>1, <1>2, <1>6, <1>7
  <2> QED BY <2>2, <2>3, <2>4, EmptyTableFacts
<1>9. /\ call' = [op |-> call.op, pagetable |-> call.pagetable, va |-> call.va,
                  size |-> call.size, frame |-> call.frame, a |-> call.a,
                  last |-> call.last, pa |-> call.pa, level |-> call.level - 1,
                  at |-> p]
  BY <1>1, <1>2 DEF CallsUnderWay
<1>10. TypeOK' /\ call' \in CallsUnderWay
  <2>1. call.level - 1 \in 0 .. 2  BY <1>2, SMT
  <2>2. /\ call' \in CallsUnderWay /\ call'.pagetable \in roots' /\ call'.at \in owned'
    <3>1. call' \in CallsUnderWay  BY <1>2, <1>9, <2>1 DEF CallsUnderWay
    <3>2. call'.pagetable = call.pagetable /\ call'.at = p  BY <1>9
    <3> QED BY <1>1, <1>2, <3>1, <3>2, SMT
  <2>3. owned' \subseteq Pages /\ roots' \subseteq owned' /\ DOMAIN space' = roots'
        /\ ret' \in {"ok", "failed", "panic"}
    BY <1>1 DEF PageInv, TypeOK
  <2> QED BY <1>7, <2>2, <2>3 DEF TypeOK
<1>a. /\ p \notin roots \cup Middle \cup Bottom
      /\ ~table[call.at][k].valid
      /\ \A t \in roots \cup Middle \cup Bottom, i \in Indices :
           t # call.at \/ i # k => table'[t][i] = table[t][i]
      /\ table'[call.at][k].valid /\ ~table'[call.at][k].leaf
      /\ table'[call.at][k].to = p
      /\ \A i \in Indices : ~table'[p][i].valid
  BY <1>1, <1>3, <1>5, <1>8
<1>b. Grown(table, table', roots, Middle, Bottom, call.at, k, p)
  <2>1. call.at \in roots \cup Middle /\ k \in Indices
    BY <1>1, <1>2
  <2> QED BY <1>3, <1>a, <2>1 DEF Grown
<1>11. TreeSound'
  <2>1. CASE call.level = 2
    <3>1. TreeOf(table', roots', Middle \cup {p}, Bottom)
      <4>1. call.at \in roots /\ k \in Indices /\ roots' = roots  BY <1>1, <1>2, <2>1
      <4>2. TreeOf(table', roots, Middle \cup {p}, Bottom)
        BY <1>b, <4>1, TreeNewMiddle
      <4> QED BY <4>1, <4>2
    <3>2. owned' = roots' \cup (Middle \cup {p}) \cup Bottom  BY <1>1, <1>3
    <3>3. SoundOf(table', owned', roots')  BY <3>1, <3>2, SoundFromTree
    <3> QED BY <3>3, TreeSoundDef
  <2>2. CASE call.level = 1
    <3>1. TreeOf(table', roots', Middle, Bottom \cup {p})
      <4>1. call.at \in Middle /\ k \in Indices /\ roots' = roots  BY <1>1, <1>2, <2>2
      <4>2. TreeOf(table', roots, Middle, Bottom \cup {p})
        BY <1>b, <4>1, TreeNewBottom
      <4> QED BY <4>1, <4>2
    <3>2. owned' = roots' \cup Middle \cup (Bottom \cup {p})  BY <1>1, <1>3
    <3>3. SoundOf(table', owned', roots')  BY <3>1, <3>2, SoundFromTree
    <3> QED BY <3>3, TreeSoundDef
  <2> QED BY <1>2, <2>1, <2>2
<1>12. Translates'
  <2>1. TranslatesIn(table, roots, space)  BY TranslatesDef DEF PageInv
  <2>2. ASSUME NEW r \in roots
        PROVE  /\ DOMAIN space'[r] = {v \in VPages : MappedIn(table', r, v)}
               /\ \A v \in DOMAIN space'[r] : FrameIn(table', r, v) = space'[r][v]
    <3>1. space'[r] = space[r]
      BY <1>1, <1>2
    <3>2. \A v \in VPages : SameIn(table, table', r, v)
      <4>1. SUFFICES ASSUME NEW v \in VPages PROVE SameIn(table, table', r, v)
        OBVIOUS
      <4> QED BY <1>b, TranslationNewTable
    <3>3. Kept(table, table', roots, space, space', r)
      BY <2>1, <3>1, <3>2 DEF Kept
    <3> QED BY <3>3, TranslatesKept, SMT
  <2>3. TranslatesIn(table', roots', space')  BY <1>1, <2>2 DEF TranslatesIn
  <2> QED BY <2>3, TranslatesDef
<1>13. WalkSound'
  <2>1. /\ call'.a = call.a /\ call'.level = call.level - 1 /\ call'.at = p
        /\ call'.pagetable = call.pagetable
    BY <1>9
  <2>2. call.a = (call.a \div PGSIZE) * PGSIZE  BY <1>1 DEF PageInv, WalkSound, VPage
  <2> DEFINE f2 == table'[call.pagetable][PX(2, call.a)]
             f1 == table'[f2.to][PX(1, call.a)]
  <2>3. CASE call.level = 2
    <3>1. call.at = call.pagetable /\ k = PX(2, call.a)
      BY <1>1, <2>3 DEF PageInv, WalkSound, k
    <3>2. f2.valid /\ f2.to = p  BY <1>5, <1>8, <3>1
    <3>3. call'.level = 1  BY <2>1, <2>3, SMT
    <3> HIDE DEF f2
    <3>4. call'.level # 2 /\ call'.level # 0  BY <3>3, SMT
    <3> QED BY <1>1, <2>1, <2>2, <3>2, <3>4 DEF WalkSound, VPage, f2
  <2>4. CASE call.level = 1
    <3> DEFINE e2 == table[call.pagetable][PX(2, call.a)]
    <3>1. e2.valid /\ call.at = e2.to /\ k = PX(1, call.a)
      BY <1>1, <2>4, SMT DEF PageInv, WalkSound, k
    <3>2. call.pagetable # call.at  BY <1>2, <1>3, <2>4 DEF TreeOf
    <3>3. f2 = e2  BY <1>2, <1>3, <1>8, <3>2
    <3>4. f1 = PointsTo(p)  BY <1>8, <3>1, <3>3
    <3>5. f2.valid /\ f1.valid /\ f1.to = p  BY <1>5, <3>1, <3>3, <3>4
    <3>6. call'.level # 2 /\ call'.level # 1  BY <2>1, <2>4, SMT
    <3> HIDE DEF e2
    <3> QED BY <1>1, <2>1, <2>2, <3>5, <3>6 DEF WalkSound, VPage
  <2> QED BY <1>2, <2>3, <2>4
<1> QED BY <1>10, <1>11, <1>12, <1>13 DEF PageInv

LEMMA PageOfWalk ==
  ASSUME PageInv, Running, call.a < MAXVA
  PROVE  /\ VPage \in VPages /\ call.a = VPage * PGSIZE
         /\ (call.a + PGSIZE) % WORD = (VPage + 1) * PGSIZE
         /\ (call.a + PGSIZE) % WORD \in Address
<1>1. call.a \in Nat /\ call.a = VPage * PGSIZE
  BY WalkStands DEF PageInv, WalkSound
<1>2. VPage \in Nat  BY <1>1, PageTableAssumption, DivMod DEF VPage
<1> DEFINE m == MAXVA \div PGSIZE
<1>3. MAXVA \in Nat  BY MaxPages
<1>4. m \in Nat /\ MAXVA = PGSIZE * m
  BY MaxPages
<1> HIDE DEF m
<1>5. VPage * PGSIZE < PGSIZE * m  BY <1>1, <1>4
<1>6. VPage < m  BY <1>2, <1>4, <1>5, PageTableAssumption, SMT
<1>7. VPage \in VPages  BY <1>2, <1>4, <1>6, SMT DEF VPages, m
<1>8. call.a + PGSIZE = (VPage + 1) * PGSIZE  BY <1>1, <1>2, PageTableAssumption, SMT
<1>9. (VPage + 1) * PGSIZE <= PGSIZE * m  BY <1>2, <1>4, <1>6, PageTableAssumption, SMT
<1>10. call.a + PGSIZE \in 0 .. WORD - 1
  BY <1>1, <1>2, <1>3, <1>4, <1>8, <1>9, PageTableAssumption, SMT
<1>11. (call.a + PGSIZE) % WORD = call.a + PGSIZE  BY <1>10, PageTableAssumption, SMT
<1> QED BY <1>1, <1>7, <1>8, <1>10, <1>11 DEF Address

\* What storing an entry of the last level does to everything but space.
LEMMA SetStep ==
  ASSUME PageInv, Running, call.level = 0, NEW e \in PTEs, e.valid => e.leaf,
         SetEntry(e), DOMAIN space' = roots
  PROVE  /\ TypeOK' /\ TreeSound' /\ WalkSound' /\ roots' = roots
         /\ call.pagetable \in roots /\ VPage \in VPages /\ call.at \in owned
         /\ call.a # call.last => call' \in CallsUnderWay
         /\ \A r \in roots, v \in VPages :
              IF r = call.pagetable /\ v = VPage
              THEN (MappedIn(table', r, v) <=> e.valid) /\ FrameIn(table', r, v) = e.to
              ELSE SameIn(table, table', r, v)
<1> DEFINE k == PX(0, call.a)
<1>1. /\ table' = [table EXCEPT ![call.at][k] = e] /\ UNCHANGED <<owned, roots>>
      /\ IF call.a = call.last
         THEN call' = NULL /\ ret' = "ok"
         ELSE /\ call' = [call EXCEPT !.a = (@ + PGSIZE) % WORD,
                                      !.pa = (@ + PGSIZE) % WORD,
                                      !.level = 2, !.at = call.pagetable]
              /\ ret' = ret
  BY DEF SetEntry, Return
<1>2. /\ call \in CallsUnderWay /\ call.at \in Bottom /\ call.at \in owned
      /\ k \in Indices /\ call.pagetable \in roots
  BY WalkStands DEF CallsUnderWay
<1> HIDE DEF k
<1>3. TreeOf(table, roots, Middle, Bottom) /\ owned = roots \cup Middle \cup Bottom
  BY StateTree
<1>4. call.a < MAXVA
  <2>1. call.level < 2  BY SMT
  <2> QED BY <2>1 DEF PageInv, WalkSound
<1>5. VPage \in VPages /\ call.a = VPage * PGSIZE  BY <1>4, PageOfWalk
<1>6. /\ table' \in [owned -> [Indices -> PTEs]]
      /\ \A t \in owned, i \in Indices : t # call.at \/ i # k => table'[t][i] = table[t][i]
      /\ table'[call.at][k] = e
  <2> DEFINE D == [Indices -> PTEs]
  <2>1. table \in [owned -> D] /\ table[call.at] \in D  BY <1>2 DEF PageInv, TypeOK
  <2>2. table' = [table EXCEPT ![call.at] = [table[call.at] EXCEPT ![k] = e]]  BY <1>1
  <2>3. /\ [table[call.at] EXCEPT ![k] = e] \in D
        /\ [table[call.at] EXCEPT ![k] = e][k] = e
        /\ \A i \in Indices : i # k => [table[call.at] EXCEPT ![k] = e][i] = table[call.at][i]
    BY <1>2, <2>1
  <2> HIDE DEF D
  <2>4. /\ table' \in [owned -> D] /\ table'[call.at] = [table[call.at] EXCEPT ![k] = e]
        /\ \A t \in owned : t # call.at => table'[t] = table[t]
    BY <1>2, <2>1, <2>2, <2>3
  <2>5. \A t \in owned, i \in Indices : t # call.at \/ i # k => table'[t][i] = table[t][i]
    <3>1. \A i \in Indices : i # k => table'[call.at][i] = table[call.at][i]
      BY <2>3, <2>4
    <3> QED BY <2>4, <3>1
  <2> QED BY <2>3, <2>4, <2>5 DEF D
<1>7. TreeSound'
  <2>1. \A t \in roots \cup Middle \cup Bottom, i \in Indices :
          t # call.at \/ i # k => table'[t][i] = table[t][i]
    BY <1>3, <1>6
  <2>2. table'[call.at][k].valid => table'[call.at][k].leaf  BY <1>6
  <2>3. TreeOf(table', roots, Middle, Bottom)
    BY <1>2, <1>3, <2>1, <2>2, TreeSetLeaf, SMT
  <2>4. SoundOf(table', owned', roots')  BY <1>1, <1>3, <2>3, SoundFromTree
  <2> QED BY <2>4, TreeSoundDef
<1>8. TypeOK' /\ WalkSound' /\ (call.a # call.last => call' \in CallsUnderWay)
  <2>1. CASE call.a = call.last
    <3>1. call' = NULL /\ ret' = "ok"  BY <1>1, <2>1
    <3>2. TypeOK'  BY <1>1, <1>6, <3>1 DEF PageInv, TypeOK, Running
    <3>3. WalkSound'  BY <3>1 DEF WalkSound, Running
    <3> QED BY <2>1, <3>2, <3>3
  <2>2. CASE call.a # call.last
    <3> DEFINE a1 == (call.a + PGSIZE) % WORD
               pa1 == (call.pa + PGSIZE) % WORD
    <3>1. call' = [op |-> call.op, pagetable |-> call.pagetable, va |-> call.va,
                   size |-> call.size, frame |-> call.frame, a |-> a1,
                   last |-> call.last, pa |-> pa1, level |-> 2,
                   at |-> call.pagetable]
          /\ ret' = ret
      BY <1>1, <1>2, <2>2 DEF CallsUnderWay
    <3>2. a1 \in Address /\ a1 = (VPage + 1) * PGSIZE  BY <1>4, PageOfWalk
    <3>3. pa1 \in Address
      <4>1. call.pa \in Nat  BY <1>2, PageTableAssumption, SMT DEF CallsUnderWay, Address
      <4>2. call.pa + PGSIZE \in Nat  BY <4>1, PageTableAssumption, SMT
      <4> QED BY <4>2, PageTableAssumption, DivMod DEF Address
    <3>4. a1 = (a1 \div PGSIZE) * PGSIZE
      <4>1. PICK q \in Nat : q = VPage + 1  BY <1>5, PagesBelow, SMT
      <4>2. PGSIZE * q + 0 = q * PGSIZE /\ 0 \in 0 .. PGSIZE - 1  BY PageTableAssumption, SMT
      <4>3. (PGSIZE * q + 0) \div PGSIZE = q  BY <4>2, PageTableAssumption, DivUnique
      <4>4. a1 = q * PGSIZE  BY <3>2, <4>1
      <4>5. a1 \div PGSIZE = q  BY <4>2, <4>3, <4>4
      <4> QED BY <4>4, <4>5
    <3> HIDE DEF a1, pa1
    <3>5. call.pagetable \in owned  BY <1>2 DEF PageInv, TypeOK
    <3>6. /\ call' \in CallsUnderWay /\ call'.pagetable \in roots' /\ call'.at \in owned'
      <4>1. call.pagetable \in Pages  BY <3>5 DEF PageInv, TypeOK
      <4>2. call' \in CallsUnderWay
        BY <1>2, <3>1, <3>2, <3>3, <4>1, SMT DEF CallsUnderWay
      <4>3. call'.pagetable = call.pagetable /\ call'.at = call.pagetable  BY <3>1
      <4> QED BY <1>1, <1>2, <3>5, <4>2, <4>3
    <3>7. TypeOK'  BY <1>1, <1>6, <3>1, <3>6 DEF PageInv, TypeOK
    <3>8. /\ call'.a = a1 /\ call'.level = 2 /\ call'.at = call.pagetable
          /\ call'.pagetable = call.pagetable
      BY <3>1
    <3>9. WalkSound'  BY <3>4, <3>8, SMT DEF WalkSound, VPage
    <3> QED BY <3>6, <3>7, <3>9
  <2> QED BY <2>1, <2>2
<1>10. ASSUME NEW r \in roots, NEW v \in VPages
       PROVE  IF r = call.pagetable /\ v = VPage
              THEN (MappedIn(table', r, v) <=> e.valid) /\ FrameIn(table', r, v) = e.to
              ELSE SameIn(table, table', r, v)
  <2> DEFINE n == table[call.pagetable][PX(2, call.a)].to
  <2>1. /\ table[call.pagetable][PX(2, call.a)].valid
        /\ table[n][PX(1, call.a)].valid /\ call.at = table[n][PX(1, call.a)].to
    <3>1. call.level < 2  BY SMT
    <3> QED BY <3>1 DEF PageInv, WalkSound
  <2>2. \A t \in roots \cup Middle \cup Bottom, i \in Indices :
          t # call.at \/ i # k => table'[t][i] = table[t][i]
    BY <1>3, <1>6
  <2>3. Changed(table, table', roots, Middle, Bottom, call.pagetable, VPage, n, call.at, k)
    BY <1>3, <1>5, <2>1, <2>2 DEF Changed, k
  <2> HIDE DEF n
  <2>4. IF r = call.pagetable /\ v = VPage
        THEN /\ MappedIn(table', r, v) <=> table'[call.at][k].valid
             /\ FrameIn(table', r, v) = table'[call.at][k].to
        ELSE SameIn(table, table', r, v)
    BY <1>2, <1>5, <2>3, TranslationSet
  <2> QED BY <1>6, <2>4
<1> QED BY <1>1, <1>2, <1>5, <1>7, <1>8, <1>10

LEMMA MapStep ==
  ASSUME PageInv, MapPage
  PROVE  PageInv'
<1> DEFINE e == Leaf(RoundDown(call.pa))
           s == call.pagetable
           f == [v \in DOMAIN space[s] \cup {VPage} |->
                   IF v = VPage THEN RoundDown(call.pa) ELSE space[s][v]]
<1>1. Running /\ call.level = 0 /\ SetEntry(e) /\ space' = [space EXCEPT ![s] = f]
  BY DEF MapPage
<1>2. RoundDown(call.pa) \in Address
  BY <1>1, WalkStands, RoundDownFacts DEF CallsUnderWay
<1>3. e \in PTEs /\ e.valid /\ e.leaf /\ e.to = RoundDown(call.pa)
  BY <1>2 DEF PTEs, Leaf
<1> HIDE DEF e, f
<1>4. DOMAIN space' = roots  BY <1>1 DEF PageInv, TypeOK
<1>5. /\ TypeOK' /\ TreeSound' /\ WalkSound' /\ roots' = roots
      /\ s \in roots /\ VPage \in VPages
      /\ \A r \in roots, v \in VPages :
           IF r = s /\ v = VPage
           THEN (MappedIn(table', r, v) <=> e.valid) /\ FrameIn(table', r, v) = e.to
           ELSE SameIn(table, table', r, v)
  BY <1>1, <1>3, <1>4, SetStep
<1>6. TranslatesIn(table, roots, space)  BY TranslatesDef DEF PageInv
<1>7. ASSUME NEW r \in roots
      PROVE  /\ DOMAIN space'[r] = {v \in VPages : MappedIn(table', r, v)}
             /\ \A v \in DOMAIN space'[r] : FrameIn(table', r, v) = space'[r][v]
  <2>1. CASE r # s
    <3>1. space'[r] = space[r]  BY <1>1, <2>1 DEF PageInv, TypeOK
    <3>2. \A v \in VPages : SameIn(table, table', r, v)  BY <1>5, <2>1
    <3>3. Kept(table, table', roots, space, space', r)
      BY <1>6, <3>1, <3>2 DEF Kept
    <3> QED BY <3>3, TranslatesKept, SMT
  <2>2. CASE r = s
    <3>1. space'[r] = f  BY <1>1, <1>5, <2>2 DEF PageInv, TypeOK
    <3>2. DOMAIN space[s] = {v \in VPages : MappedIn(table, s, v)}
          /\ \A v \in DOMAIN space[s] : FrameIn(table, s, v) = space[s][v]
      BY <1>5, <1>6 DEF TranslatesIn
    <3>3. DOMAIN f = DOMAIN space[s] \cup {VPage}
          /\ f[VPage] = RoundDown(call.pa)
          /\ \A v \in DOMAIN space[s] : v # VPage => f[v] = space[s][v]
      BY DEF f
    <3>4. MappedIn(table', s, VPage) /\ FrameIn(table', s, VPage) = RoundDown(call.pa)
      BY <1>3, <1>5
    <3>5. \A v \in VPages : v # VPage => SameIn(table, table', s, v)  BY <1>5
    <3>6. \A v \in VPages : v # VPage => (MappedIn(table', s, v) <=> MappedIn(table, s, v))
      BY <3>5 DEF SameIn
    <3>7. DOMAIN f = {v \in VPages : MappedIn(table', s, v)}
      BY <1>5, <3>2, <3>3, <3>4, <3>6
    <3>8. \A v \in DOMAIN f : FrameIn(table', s, v) = f[v]
      BY <3>2, <3>3, <3>4, <3>5 DEF SameIn
    <3> QED BY <2>2, <3>1, <3>7, <3>8
  <2> QED BY <2>1, <2>2
<1>8. Translates'  BY <1>5, <1>7, TranslatesDef DEF TranslatesIn
<1> QED BY <1>5, <1>8 DEF PageInv

LEMMA UnmapStep ==
  ASSUME PageInv, UnmapPage
  PROVE  PageInv'
<1> DEFINE s == call.pagetable
           f == [v \in DOMAIN space[s] \ {VPage} |-> space[s][v]]
<1>1. Running /\ call.level = 0 /\ SetEntry(Invalid) /\ space' = [space EXCEPT ![s] = f]
  BY DEF UnmapPage
<1>2. Invalid \in PTEs /\ ~Invalid.valid  BY EmptyTableFacts
<1> HIDE DEF f
<1>3. DOMAIN space' = roots  BY <1>1 DEF PageInv, TypeOK
<1>4. /\ TypeOK' /\ TreeSound' /\ WalkSound' /\ roots' = roots
      /\ s \in roots /\ VPage \in VPages
      /\ \A r \in roots, v \in VPages :
           IF r = s /\ v = VPage
           THEN /\ MappedIn(table', r, v) <=> Invalid.valid
                /\ FrameIn(table', r, v) = Invalid.to
           ELSE SameIn(table, table', r, v)
  BY <1>1, <1>2, <1>3, SetStep
<1>5. TranslatesIn(table, roots, space)  BY TranslatesDef DEF PageInv
<1>6. ASSUME NEW r \in roots
      PROVE  /\ DOMAIN space'[r] = {v \in VPages : MappedIn(table', r, v)}
             /\ \A v \in DOMAIN space'[r] : FrameIn(table', r, v) = space'[r][v]
  <2>1. CASE r # s
    <3>1. space'[r] = space[r]  BY <1>1, <2>1 DEF PageInv, TypeOK
    <3>2. \A v \in VPages : SameIn(table, table', r, v)  BY <1>4, <2>1
    <3>3. Kept(table, table', roots, space, space', r)
      BY <1>5, <3>1, <3>2 DEF Kept
    <3> QED BY <3>3, TranslatesKept, SMT
  <2>2. CASE r = s
    <3>1. space'[r] = f  BY <1>1, <1>4, <2>2 DEF PageInv, TypeOK
    <3>2. DOMAIN space[s] = {v \in VPages : MappedIn(table, s, v)}
          /\ \A v \in DOMAIN space[s] : FrameIn(table, s, v) = space[s][v]
      BY <1>4, <1>5 DEF TranslatesIn
    <3>3. DOMAIN f = DOMAIN space[s] \ {VPage}
          /\ \A v \in DOMAIN f : f[v] = space[s][v]
      BY DEF f
    <3>4. ~MappedIn(table', s, VPage)  BY <1>2, <1>4
    <3>5. \A v \in VPages : v # VPage => SameIn(table, table', s, v)  BY <1>4
    <3>6. \A v \in VPages : v # VPage => (MappedIn(table', s, v) <=> MappedIn(table, s, v))
      BY <3>5 DEF SameIn
    <3>7. DOMAIN f = {v \in VPages : MappedIn(table', s, v)}
      BY <3>2, <3>3, <3>4, <3>6
    <3>8. \A v \in DOMAIN f : FrameIn(table', s, v) = f[v]
      BY <3>2, <3>3, <3>5 DEF SameIn
    <3> QED BY <2>2, <3>1, <3>7, <3>8
  <2> QED BY <2>1, <2>2
<1>7. Translates'  BY <1>4, <1>6, TranslatesDef DEF TranslatesIn
<1> QED BY <1>4, <1>7 DEF PageInv

LEMMA WorkStep ==
  ASSUME PageInv, Work
  PROVE  PageInv'
BY WalkEnds, WalkDownStep, AllocStep, MapStep, UnmapStep DEF Work, Walk

LEMMA CallsStep ==
  ASSUME PageInv, Calls
  PROVE  PageInv'
<1>1. ASSUME NEW p \in Pages, vm_create_user_pagetable(p) PROVE PageInv'
  BY <1>1, CreateStep
<1>2. ASSUME NEW r \in roots, NEW x \in MapArgs, mappages(r, x[1], x[2], x[3])
      PROVE  PageInv'
  <2>1. x[1] \in Address /\ x[2] \in Address /\ x[3] \in Address
    BY PageTableAssumption
  <2> QED BY <1>2, <2>1, StartStep DEF mappages
<1>3. ASSUME NEW r \in roots, NEW x \in UnmapArgs, unmappages(r, x[1], x[2])
      PROVE  PageInv'
  <2>1. x[1] \in Address /\ x[2] \in Address /\ 0 \in Address
    BY PageTableAssumption, SMT DEF Address
  <2> QED BY <1>3, <2>1, StartStep DEF unmappages
<1>4. ASSUME NEW r \in roots, vm_free(r) PROVE PageInv'
  BY <1>4, FreeStep
<1> QED BY <1>1, <1>2, <1>3, <1>4 DEF Calls

LEMMA StutterStep ==
  ASSUME PageInv, UNCHANGED vars
  PROVE  PageInv'
<1>1. TypeOK'  BY DEF PageInv, TypeOK, vars, Running, CallsUnderWay
<1>2. WalkSound'  BY DEF PageInv, WalkSound, vars, Running, VPage
<1> QED BY <1>1, <1>2, QuietStep DEF PageInv, vars

LEMMA PagesAtStart ==
  ASSUME Init
  PROVE  PageInv
<1>1. TypeOK  BY DEF Init, TypeOK, Running
<1>2. TreeSound
  <2>1. TreeOf(table, roots, {}, {})  BY DEF Init, TreeOf
  <2>2. SoundOf(table, owned, roots)  BY <2>1, SoundFromTree, SMT DEF Init
  <2> QED BY <2>2, TreeSoundDef
<1>3. Translates  BY DEF Init, Translates
<1>4. WalkSound  BY DEF Init, WalkSound, Running
<1> QED BY <1>1, <1>2, <1>3, <1>4 DEF PageInv

-----------------------------------------------------------------------------
\* At the last level the entry of a walk is the translation of its page.
LEMMA EntryMapped ==
  ASSUME PageInv, Running, call.level = 0
  PROVE  /\ VPage \in VPages /\ call.a < MAXVA
         /\ PTE.valid <=> VPage \in DOMAIN space[call.pagetable]
<1>1. call.a < MAXVA /\ call.level < 2
  <2>1. call.level < 2  BY SMT
  <2> QED BY <2>1 DEF PageInv, WalkSound
<1>2. VPage \in VPages /\ call.a = VPage * PGSIZE  BY <1>1, PageOfWalk
<1> DEFINE e2 == table[call.pagetable][PX(2, call.a)]
           e1 == table[e2.to][PX(1, call.a)]
<1>3. e2.valid /\ e1.valid /\ call.at = e1.to  BY <1>1 DEF PageInv, WalkSound
<1>4. PTE = table[e1.to][PX(0, call.a)]  BY <1>3 DEF PTE
<1>5. PTE.valid <=> MappedIn(table, call.pagetable, VPage)
  BY <1>2, <1>3, <1>4 DEF MappedIn
<1>6. TranslatesIn(table, roots, space) /\ call.pagetable \in roots
  BY TranslatesDef, WalkStands DEF PageInv
<1>7. DOMAIN space[call.pagetable] = {v \in VPages : MappedIn(table, call.pagetable, v)}
  BY <1>6 DEF TranslatesIn
<1> QED BY <1>1, <1>2, <1>5, <1>7

\* The call goes on; some of its fields no step changes.
SameCall ==
  /\ call' \in CallsUnderWay
  /\ call'.op = call.op /\ call'.pagetable = call.pagetable /\ call'.va = call.va
  /\ call'.size = call.size /\ call'.frame = call.frame /\ call'.last = call.last

\* The steps of mappages, without the tables.
Walks == /\ SameCall /\ call'.a = call.a /\ call'.pa = call.pa
         /\ owned \subseteq owned' /\ UNCHANGED <<roots, space, ret>>
Fails == /\ call' = NULL /\ ret' = "failed" /\ UNCHANGED <<owned, roots, space>>
         /\ owned = Pages \/ call.a >= MAXVA
Remaps == /\ call' = NULL /\ ret' = "panic" /\ UNCHANGED <<owned, roots, space>>
          /\ VPage \in DOMAIN space[call.pagetable]
Maps ==
  /\ UNCHANGED <<owned, roots>>
  /\ VPage \in VPages /\ VPage \notin DOMAIN space[call.pagetable]
  /\ space' = [space EXCEPT ![call.pagetable] =
                 [v \in DOMAIN space[call.pagetable] \cup {VPage} |->
                    IF v = VPage THEN RoundDown(call.pa)
                    ELSE space[call.pagetable][v]]]
  /\ IF call.a = call.last
     THEN call' = NULL /\ ret' = "ok"
     ELSE /\ SameCall /\ ret' = ret
          /\ call'.a = (VPage + 1) * PGSIZE /\ call'.pa = (call.pa + PGSIZE) % WORD

LEMMA MapWork ==
  ASSUME PageInv, Work, call.op = "mappages"
  PROVE  Running /\ (Walks \/ Fails \/ Remaps \/ Maps)
<1>1. Running
  BY DEF Work, Walk, WalkBeyond, WalkDown, WalkAlloc, WalkFails, Panics, MapPage, UnmapPage
<1>2. call \in CallsUnderWay  BY <1>1, WalkStands
<1>3. CASE WalkBeyond \/ WalkFails
  BY <1>3 DEF WalkBeyond, WalkFails, NoEntry, Return, Fails
<1>4. CASE WalkDown
  BY <1>2, <1>4, WalkDownStep DEF WalkDown, Walks, SameCall, CallsUnderWay
<1>5. ASSUME NEW p \in Pages, WalkAlloc(p) PROVE Walks
  BY <1>2, <1>5, AllocStep DEF WalkAlloc, Walks, SameCall, CallsUnderWay
<1>6. CASE Panics
  BY <1>1, <1>6, EntryMapped DEF Panics, Return, Remaps
<1>7. CASE MapPage
  <2>1. /\ call.level = 0 /\ ~PTE.valid /\ SetEntry(Leaf(RoundDown(call.pa)))
        /\ space' = [space EXCEPT ![call.pagetable] =
                       [v \in DOMAIN space[call.pagetable] \cup {VPage} |->
                          IF v = VPage THEN RoundDown(call.pa)
                          ELSE space[call.pagetable][v]]]
    BY <1>7 DEF MapPage
  <2>2. VPage \in VPages /\ VPage \notin DOMAIN space[call.pagetable]
    BY <1>1, <2>1, EntryMapped
  <2>3. call.a < MAXVA  BY <1>1, <2>1, EntryMapped
  <2>4. (call.a + PGSIZE) % WORD = (VPage + 1) * PGSIZE  BY <1>1, <2>3, PageOfWalk
  <2>5. IF call.a = call.last
        THEN call' = NULL /\ ret' = "ok"
        ELSE /\ SameCall /\ ret' = ret
             /\ call'.a = (call.a + PGSIZE) % WORD /\ call'.pa = (call.pa + PGSIZE) % WORD
    <3>1. call.a # call.last => call' \in CallsUnderWay
      <4>1. RoundDown(call.pa) \in Address  BY <1>2, RoundDownFacts DEF CallsUnderWay
      <4>2. Leaf(RoundDown(call.pa)) \in PTEs /\ Leaf(RoundDown(call.pa)).leaf
        BY <4>1 DEF PTEs, Leaf
      <4>3. DOMAIN space' = roots  BY <2>1 DEF PageInv, TypeOK
      <4> QED BY <1>1, <2>1, <4>2, <4>3, SetStep
    <3> QED BY <1>2, <2>1, <3>1 DEF SetEntry, Return, SameCall, CallsUnderWay
  <2>6. UNCHANGED <<owned, roots>>  BY <2>1 DEF SetEntry
  <2> QED BY <1>1, <2>1, <2>2, <2>4, <2>5, <2>6 DEF Maps
<1>8. CASE UnmapPage
  BY <1>8 DEF UnmapPage
<1> QED BY <1>1, <1>3, <1>4, <1>5, <1>6, <1>7, <1>8 DEF Work, Walk

-----------------------------------------------------------------------------
LEMMA ModAdd ==
  ASSUME NEW x \in Nat, NEW y \in Nat, NEW w \in Nat \ {0}
  PROVE  ((x % w) + y) % w = (x + y) % w
<1> DEFINE q == x \div w
           r == x % w
<1>1. q \in Nat /\ r \in 0 .. w - 1 /\ x = w * q + r  BY DivMod
<1> HIDE DEF q, r
<1> DEFINE z == r + y
           s == z \div w
           u == z % w
<1>2. z \in Nat  BY <1>1, SMT
<1>3. s \in Nat /\ u \in 0 .. w - 1 /\ z = w * s + u  BY <1>2, DivMod
<1> HIDE DEF s, u
<1>4. x + y = w * (q + s) + u
  <2>1. w * (q + s) = w * q + w * s  BY <1>1, <1>3, SMT
  <2> QED BY <1>1, <1>3, <2>1, SMT
<1>5. q + s \in Nat  BY <1>1, <1>3, SMT
<1>6. (w * (q + s) + u) % w = u  BY <1>3, <1>5, DivUnique
<1>7. (x + y) % w = u  BY <1>4, <1>6
<1> QED BY <1>7 DEF u, r

\* The first n pages of a call are mapped by f, each to its frame.
MapsToIn(f, va, frame, n) ==
  \A i \in 0 .. n - 1 :
    /\ (va \div PGSIZE) + i \in DOMAIN f
    /\ f[(va \div PGSIZE) + i] = RoundDown((frame + i * PGSIZE) % WORD)

\* Where a call of mappages stands, and what it has mapped so far.
CallSound ==
  Running /\ call.op = "mappages" =>
    LET n == VPage - call.va \div PGSIZE IN
    /\ call.size # 0 /\ call.size <= WORD - PGSIZE
    /\ call.last = Last(call.va, call.size)
    /\ n \in Nat
    /\ call.pa = (call.frame + n * PGSIZE) % WORD
    /\ MapsToIn(space[call.pagetable], call.va, call.frame, n)

LEMMA StartSound ==
  ASSUME PageInv, NEW op \in {"mappages", "unmappages"}, NEW r \in roots,
         NEW va \in Address, NEW size \in Address, NEW pa \in Address,
         op = "mappages" => size <= WORD - PGSIZE,
         Start(op, r, va, size, pa)
  PROVE  CallSound'
<1>1. CASE size = 0
  BY <1>1 DEF Start, Return, CallSound, Running
<1>2. CASE size # 0
  <2>1. call' = [op |-> op, pagetable |-> r, va |-> va, size |-> size,
                 frame |-> pa, a |-> RoundDown(va), last |-> Last(va, size),
                 pa |-> pa, level |-> 2, at |-> r]
    BY <1>2 DEF Start
  <2>2. /\ call'.op = op /\ call'.pagetable = r /\ call'.va = va /\ call'.size = size
        /\ call'.frame = pa /\ call'.a = RoundDown(va) /\ call'.last = Last(va, size)
        /\ call'.pa = pa
    BY <2>1
  <2>3. RoundDown(va) \div PGSIZE = va \div PGSIZE /\ va \div PGSIZE \in Nat
    <3>1. va \in Nat  BY PageTableAssumption, SMT DEF Address
    <3> QED BY <3>1, RoundDownFacts, PageTableAssumption, DivMod
  <2>4. VPage' - call'.va \div PGSIZE = 0  BY <2>2, <2>3, SMT DEF VPage
  <2>5. (pa + 0 * PGSIZE) % WORD = pa  BY PageTableAssumption, SMT DEF Address
  <2>6. MapsToIn(space'[r], va, pa, 0)  BY SMT DEF MapsToIn
  <2> QED BY <1>2, <2>2, <2>4, <2>5, <2>6, SMT DEF CallSound
<1> QED BY <1>1, <1>2

LEMMA MapsToDef ==
  ASSUME NEW x, NEW n
  PROVE  /\ MapsTo(x, n) <=> MapsToIn(space[x.pagetable], x.va, x.frame, n)
         /\ MapsTo(x, n)' <=> MapsToIn(space'[x.pagetable], x.va, x.frame, n)
BY DEF MapsTo, MapsToIn

\* The last page of a call that does not wrap around.
LEMMA LastPage ==
  ASSUME NEW va \in Address, NEW size \in Address, size # 0, size <= WORD - PGSIZE,
         NEW v \in Nat, va \div PGSIZE <= v, v * PGSIZE = Last(va, size)
  PROVE  v = (va + size - 1) \div PGSIZE
<1>1. va \in Nat /\ size \in Nat /\ va < WORD /\ PGSIZE \in Nat \ {0} /\ WORD \in Nat \ {0}
  BY PageTableAssumption, SMT DEF Address
<1> DEFINE b == va + size - 1
<1>2. b \in Nat  BY <1>1, SMT
<1>3. \A x \in Nat : /\ (x \div PGSIZE) * PGSIZE <= x
                     /\ x < (x \div PGSIZE) * PGSIZE + PGSIZE
                     /\ x \div PGSIZE \in Nat
  <2>1. SUFFICES ASSUME NEW x \in Nat
                 PROVE  /\ (x \div PGSIZE) * PGSIZE <= x
                        /\ x < (x \div PGSIZE) * PGSIZE + PGSIZE
                        /\ x \div PGSIZE \in Nat
    OBVIOUS
  <2> DEFINE q == x \div PGSIZE
             r == x % PGSIZE
  <2>2. q \in Nat /\ r \in 0 .. PGSIZE - 1 /\ x = PGSIZE * q + r  BY <1>1, DivMod
  <2> HIDE DEF q, r
  <2>3. q * PGSIZE <= x /\ x < q * PGSIZE + PGSIZE  BY <1>1, <2>2, SMT
  <2> QED BY <2>2, <2>3 DEF q
<1>4. CASE b < WORD
  <2>1. b % WORD = b  BY <1>1, <1>2, <1>4, SMT
  <2>2. v * PGSIZE = (b \div PGSIZE) * PGSIZE  BY <2>1 DEF Last, RoundDown
  <2>3. b \div PGSIZE \in Nat  BY <1>2, <1>3
  <2> QED BY <1>1, <2>2, <2>3, SMT
<1>5. CASE b >= WORD
  <2>1. b - WORD \in Nat /\ b - WORD < va - PGSIZE  BY <1>1, <1>2, <1>5, SMT
  <2>2. b - WORD < WORD  BY <1>1, <2>1, SMT
  <2>3. b % WORD = b - WORD  BY <1>1, <1>2, <1>5, <2>1, <2>2, SMT
  <2>4. v * PGSIZE <= b - WORD  BY <1>3, <2>1, <2>3 DEF Last, RoundDown
  <2>5. va < (va \div PGSIZE) * PGSIZE + PGSIZE /\ va \div PGSIZE \in Nat  BY <1>1, <1>3
  <2>6. (va \div PGSIZE) * PGSIZE <= v * PGSIZE  BY <1>1, <2>5, SMT
  <2>7. v * PGSIZE \in Nat /\ (va \div PGSIZE) * PGSIZE \in Nat  BY <1>1, <2>5, SMT
  <2> QED BY <1>1, <1>2, <2>1, <2>4, <2>5, <2>6, <2>7, SMT
<1> QED BY <1>1, <1>2, <1>4, <1>5, SMT

\* What a step of mappages that maps a page adds.
LEMMA MapsOne ==
  ASSUME PageInv, CallSound, Running, call.op = "mappages", Maps
  PROVE  LET n == VPage - call.va \div PGSIZE IN
         /\ n + 1 \in Nat
         /\ (call.pa + PGSIZE) % WORD = (call.frame + (n + 1) * PGSIZE) % WORD
         /\ MapsToIn(space'[call.pagetable], call.va, call.frame, n + 1)
<1> DEFINE s == call.pagetable
           n == VPage - call.va \div PGSIZE
           f == space[s]
           g == [v \in DOMAIN f \cup {VPage} |->
                   IF v = VPage THEN RoundDown(call.pa) ELSE f[v]]
<1>1. /\ call.frame \in Nat /\ call.va \in Nat /\ s \in roots
  BY WalkStands, PageTableAssumption, SMT DEF CallsUnderWay, Address
<1>2. n \in Nat /\ call.pa = (call.frame + n * PGSIZE) % WORD
      /\ MapsToIn(f, call.va, call.frame, n)
  BY DEF CallSound
<1>3. space'[s] = g  BY <1>1 DEF Maps, PageInv, TypeOK
<1>4. VPage \in Nat  BY PagesBelow DEF Maps
<1>5. call.va \div PGSIZE \in Nat  BY <1>1, PageTableAssumption, DivMod
<1>6. (call.va \div PGSIZE) + n = VPage  BY <1>4, <1>5, SMT
<1>7. DOMAIN g = DOMAIN f \cup {VPage} /\ g[VPage] = RoundDown(call.pa)
      /\ \A v \in DOMAIN f : v # VPage => g[v] = f[v]
  OBVIOUS
<1> HIDE DEF n, f, g
<1>8. MapsToIn(g, call.va, call.frame, n + 1)
  <2>1. SUFFICES ASSUME NEW i \in 0 .. (n + 1) - 1
                 PROVE  /\ (call.va \div PGSIZE) + i \in DOMAIN g
                        /\ g[(call.va \div PGSIZE) + i]
                             = RoundDown((call.frame + i * PGSIZE) % WORD)
    BY DEF MapsToIn
  <2>2. CASE i = n
    BY <1>2, <1>6, <1>7, <2>2
  <2>3. CASE i # n
    <3>1. i \in 0 .. n - 1 /\ (call.va \div PGSIZE) + i # VPage
      BY <1>2, <1>4, <1>5, <1>6, <2>3, SMT
    <3>2. /\ (call.va \div PGSIZE) + i \in DOMAIN f
          /\ f[(call.va \div PGSIZE) + i] = RoundDown((call.frame + i * PGSIZE) % WORD)
      BY <1>2, <3>1 DEF MapsToIn
    <3> QED BY <1>7, <3>1, <3>2
  <2> QED BY <2>2, <2>3
<1>9. (call.pa + PGSIZE) % WORD = (call.frame + (n + 1) * PGSIZE) % WORD
  <2>1. call.frame + n * PGSIZE \in Nat /\ n * PGSIZE \in Nat
    BY <1>1, <1>2, PageTableAssumption, SMT
  <2>2. (((call.frame + n * PGSIZE) % WORD) + PGSIZE) % WORD
          = (call.frame + n * PGSIZE + PGSIZE) % WORD
    BY <2>1, PageTableAssumption, ModAdd
  <2>3. call.frame + n * PGSIZE + PGSIZE = call.frame + (n + 1) * PGSIZE
    BY <1>1, <1>2, <2>1, PageTableAssumption, SMT
  <2> QED BY <1>2, <2>2, <2>3
<1>10. n + 1 \in Nat  BY <1>2, SMT
<1> QED BY <1>3, <1>8, <1>9, <1>10 DEF n

LEMMA WorkSound ==
  ASSUME PageInv, CallSound, Work
  PROVE  CallSound'
<1>1. CASE call.op # "mappages"
  <2>1. Running
    BY DEF Work, Walk, WalkBeyond, WalkDown, WalkAlloc, WalkFails, Panics, MapPage, UnmapPage
  <2>2. call \in CallsUnderWay  BY <2>1, WalkStands
  <2>3. call' = NULL \/ call'.op = call.op
    <3>1. CASE WalkBeyond \/ WalkFails \/ Panics
      BY <3>1 DEF WalkBeyond, WalkFails, Panics, NoEntry, Return
    <3>2. CASE WalkDown
      BY <2>2, <3>2 DEF WalkDown, CallsUnderWay
    <3>3. CASE UnmapPage
      BY <2>2, <3>3 DEF UnmapPage, SetEntry, Return, CallsUnderWay
    <3> QED BY <1>1, <3>1, <3>2, <3>3 DEF Work, Walk, WalkAlloc, MapPage
  <2> QED BY <1>1, <2>3 DEF CallSound, Running
<1>2. CASE call.op = "mappages"
  <2>1. Running /\ (Walks \/ Fails \/ Remaps \/ Maps)  BY <1>2, MapWork
  <2>2. CASE Fails \/ Remaps
    BY <2>2 DEF Fails, Remaps, CallSound, Running
  <2>3. CASE Walks
    BY <1>2, <2>1, <2>3 DEF Walks, SameCall, CallSound, VPage
  <2>4. CASE Maps
    <3>1. CASE call.a = call.last
      BY <2>4, <3>1 DEF Maps, CallSound, Running
    <3>2. CASE call.a # call.last
      <4> DEFINE n == VPage - call.va \div PGSIZE
      <4>1. /\ n + 1 \in Nat
            /\ (call.pa + PGSIZE) % WORD = (call.frame + (n + 1) * PGSIZE) % WORD
            /\ MapsToIn(space'[call.pagetable], call.va, call.frame, n + 1)
        BY <1>2, <2>1, <2>4, MapsOne
      <4>2. /\ SameCall /\ call'.a = (VPage + 1) * PGSIZE
            /\ call'.pa = (call.pa + PGSIZE) % WORD /\ VPage \in VPages
        BY <2>4, <3>2 DEF Maps
      <4>3. VPage' = VPage + 1
        <5>1. PICK q \in Nat : q = VPage + 1  BY <4>2, PagesBelow, SMT
        <5>2. PGSIZE * q + 0 = q * PGSIZE /\ 0 \in 0 .. PGSIZE - 1  BY PageTableAssumption, SMT
        <5>3. (PGSIZE * q + 0) \div PGSIZE = q  BY <5>2, PageTableAssumption, DivUnique
        <5> QED BY <4>2, <5>1, <5>2, <5>3 DEF VPage
      <4>4. VPage \in Nat /\ call.va \div PGSIZE \in Nat
        <5>1. call.va \in Nat
          BY <2>1, WalkStands, PageTableAssumption, SMT DEF CallsUnderWay, Address
        <5> QED BY <4>2, <5>1, PagesBelow, PageTableAssumption, DivMod
      <4>5. VPage' - call'.va \div PGSIZE = n + 1  BY <4>2, <4>3, <4>4, SMT DEF SameCall
      <4>6. call.size # 0 /\ call.size <= WORD - PGSIZE /\ call.last = Last(call.va, call.size)
        BY <1>2, <2>1 DEF CallSound
      <4> HIDE DEF n
      <4> QED BY <4>1, <4>2, <4>5, <4>6 DEF CallSound, SameCall
    <3> QED BY <3>1, <3>2
  <2> QED BY <2>1, <2>2, <2>3, <2>4
<1> QED BY <1>1, <1>2

\* The return of mappages.
LEMMA WorkReturns ==
  ASSUME PageInv, CallSound, Work, NEW x, x = call, x.op = "mappages", call' = NULL
  PROVE  ReturnOfMap(x)
<1>1. Running /\ (Walks \/ Fails \/ Remaps \/ Maps)  BY MapWork
<1> DEFINE n == x.a \div PGSIZE - x.va \div PGSIZE
<1>2. MapsToIn(space[x.pagetable], x.va, x.frame, n)  BY <1>1 DEF CallSound, VPage
<1>3. CASE Walks
  BY <1>3, PageTableAssumption DEF Walks, SameCall
<1>4. CASE Fails
  <2>1. space' = space  BY <1>4 DEF Fails
  <2>2. MapsTo(x, n)'  BY <1>2, <2>1, MapsToDef
  <2> HIDE DEF n
  <2> QED BY <1>4, <2>2 DEF Fails, ReturnOfMap, n
<1>5. CASE Remaps
  BY <1>5 DEF Remaps, ReturnOfMap, VPage
<1>6. CASE Maps
  <2>1. call.a = call.last
    BY <1>6, PageTableAssumption DEF Maps, SameCall
  <2>2. ret' = "ok"  BY <1>6, <2>1 DEF Maps
  <2>3. MapsToIn(space'[x.pagetable], x.va, x.frame, n + 1)
    BY <1>1, <1>6, MapsOne DEF VPage
  <2>4. MapsTo(x, n + 1)'  BY <2>3, MapsToDef
  <2>5. x.a \div PGSIZE = (x.va + x.size - 1) \div PGSIZE
    <3>1. /\ x.va \in Address /\ x.size \in Address /\ x.size # 0
          /\ x.size <= WORD - PGSIZE /\ x.last = Last(x.va, x.size)
          /\ x.a \div PGSIZE - x.va \div PGSIZE \in Nat
      BY <1>1, WalkStands DEF CallSound, CallsUnderWay, VPage
    <3>2. VPage \in Nat /\ VPage = x.a \div PGSIZE  BY <1>6, PagesBelow DEF Maps, VPage
    <3>3. x.va \div PGSIZE \in Nat
      <4>1. x.va \in Nat  BY <3>1, PageTableAssumption, SMT DEF Address
      <4> QED BY <4>1, PageTableAssumption, DivMod
    <3>4. x.va \div PGSIZE <= VPage  BY <3>1, <3>2, <3>3, SMT
    <3>5. VPage * PGSIZE = Last(x.va, x.size)
      BY <1>1, <2>1, <3>1 DEF PageInv, WalkSound
    <3> QED BY <3>1, <3>2, <3>4, <3>5, LastPage
  <2> HIDE DEF n
  <2> QED BY <2>2, <2>4, <2>5 DEF ReturnOfMap, n
<1> QED BY <1>1, <1>3, <1>4, <1>5, <1>6

-----------------------------------------------------------------------------
LEMMA CallsSound ==
  ASSUME PageInv, CallSound, Calls
  PROVE  CallSound'
<1>1. ASSUME NEW p \in Pages, vm_create_user_pagetable(p) PROVE CallSound'
  BY <1>1 DEF vm_create_user_pagetable, Ready, Running, CallSound
<1>2. ASSUME NEW r \in roots, NEW x \in MapArgs, mappages(r, x[1], x[2], x[3])
      PROVE  CallSound'
  <2>1. /\ x[1] \in Address /\ x[2] \in Address /\ x[3] \in Address
        /\ x[2] <= WORD - PGSIZE
    BY PageTableAssumption
  <2> QED BY <1>2, <2>1, StartSound DEF mappages
<1>3. ASSUME NEW r \in roots, NEW x \in UnmapArgs, unmappages(r, x[1], x[2])
      PROVE  CallSound'
  <2>1. x[1] \in Address /\ x[2] \in Address /\ 0 \in Address
    BY PageTableAssumption, SMT DEF Address
  <2> QED BY <1>3, <2>1, StartSound DEF unmappages
<1>4. ASSUME NEW r \in roots, vm_free(r) PROVE CallSound'
  BY <1>4 DEF vm_free, Ready, Running, CallSound
<1> QED BY <1>1, <1>2, <1>3, <1>4 DEF Calls

LEMMA StutterSound ==
  ASSUME CallSound, UNCHANGED vars
  PROVE  CallSound'
BY DEF CallSound, vars, Running, VPage

LEMMA CallsIdle ==
  ASSUME Calls
  PROVE  call = NULL
BY DEF Calls, vm_create_user_pagetable, mappages, unmappages, Start, vm_free, Ready, Running

\* The inductive invariant of the page tables alone, for any clients.
THEOREM PageTableIInv == Spec => [](PageInv /\ CallSound)
<1>1. Init => PageInv /\ CallSound
  BY PagesAtStart DEF Init, CallSound, Running
<1>2. PageInv /\ CallSound /\ [Next]_vars => (PageInv /\ CallSound)'
  <2>1. PageInv /\ CallSound /\ Calls => PageInv' /\ CallSound'  BY CallsStep, CallsSound
  <2>2. PageInv /\ CallSound /\ Work => PageInv' /\ CallSound'  BY WorkStep, WorkSound
  <2>3. PageInv /\ CallSound /\ UNCHANGED vars => PageInv' /\ CallSound'
    BY StutterStep, StutterSound
  <2> QED BY <2>1, <2>2, <2>3 DEF Next
<1> QED BY <1>1, <1>2, PTL DEF Spec

\* The tables stay trees of depth three, and translate what was mapped and not
\* unmapped since, whatever the callers of kernel/mm/vm.c do.
THEOREM PageTablesSafe == Spec => [](TypeOK /\ TreeSound /\ Translates)
<1>1. PageInv /\ CallSound => TypeOK /\ TreeSound /\ Translates  BY DEF PageInv
<1> QED BY <1>1, PageTableIInv, PTL

\* Every return of mappages says what was mapped.
THEOREM MapReturnsSafe == Spec => MapReturns
<1>1. ASSUME PageInv, CallSound, [Next]_vars
      PROVE  [\A x \in {call} : x # NULL /\ x.op = "mappages" /\ call' = NULL
                                  => ReturnOfMap(x)]_vars
  <2>1. CASE Calls  BY <2>1, CallsIdle
  <2>2. CASE Work  BY <1>1, <2>2, WorkReturns
  <2> QED BY <1>1, <2>1, <2>2 DEF Next
<1> QED BY <1>1, PageTableIInv, PTL DEF Spec, MapReturns

=============================================================================
