--------------------------- MODULE SimpleFsProofs ---------------------------
(***************************************************************************)
(* The invariants of SimpleFs, for every table size, word and set of       *)
(* names and requests.                                                     *)
(***************************************************************************)
EXTENDS SimpleFs, FiniteSetTheorems, TLAPS

\* The recorded size lies between the furthest write that ended below 2^32 and
\* the furthest of all; a slot without a file has nothing recorded.
SizeTracks ==
  \A i \in Slots :
    /\ covered[i] <= inodes[i].size
    /\ inodes[i].size <= reached[i]
    /\ ~Live(i) => covered[i] = 0 /\ reached[i] = 0

IInv == TypeOK /\ TableSound /\ UniqueNames /\ SizeTracks

Dead == {i \in Slots : ~Live(i)}

\* Slots without a file are finitely many.
LEMMA DeadFinite == IsFiniteSet(Dead) /\ IsFiniteSet(Slots)
<1>1. IsFiniteSet(Slots)
  BY FS_Interval, SimpleFsAssumption DEF Slots
<1> QED BY <1>1, FS_Subset DEF Dead

\* A table in which every slot is free has SFS_MAX_FILES free slots.
LEMMA SlotsCount == Cardinality(Slots) = SFS_MAX_FILES
  BY FS_Interval, SimpleFsAssumption DEF Slots

\* sfs_init and sfs_format establish the invariant.
LEMMA InitIInv == Init => IInv
<1> SUFFICES ASSUME Init PROVE IInv
  OBVIOUS
<1> USE SimpleFsAssumption, NamesAssumption
<1>0. PICK n \in BlockCounts :
        /\ inodes = [i \in Slots |->
                       [ino |-> 0, size |-> 0,
                        name |-> [head |-> "empty", tail |-> "none"],
                        blocks |-> {}]]
        /\ superblock = [num_blocks |-> n, num_free_blocks |-> n,
                         num_free_inodes |-> SFS_MAX_FILES]
  BY DEF Init
<1>e. [head |-> "empty", tail |-> "none"] \in Fitting
  BY DEF Fitting
<1>r. [ino |-> 0, size |-> 0,
       name |-> [head |-> "empty", tail |-> "none"], blocks |-> {}] \in Inodes
  <2>1. 0 \in 0 .. SFS_MAX_FILES /\ 0 \in 0 .. WORD - 1
    OBVIOUS
  <2>2. {} \in SUBSET (0 .. 11)
    OBVIOUS
  <2> QED BY <2>1, <2>2, <1>e DEF Inodes
<1>1. TypeOK
  <2>1. inodes \in [Slots -> Inodes]
    BY <1>0, <1>r
  <2>2. superblock \in [num_blocks : Nat, num_free_blocks : Nat,
                        num_free_inodes : 0 .. SFS_MAX_FILES]
    <3>1. n \in Nat /\ SFS_MAX_FILES \in 0 .. SFS_MAX_FILES
      OBVIOUS
    <3> QED BY <3>1, <1>0
  <2>3. covered \in [Slots -> 0 .. WORD - 1] /\ reached \in [Slots -> Nat]
    BY DEF Init
  <2> QED BY <2>1, <2>2, <2>3 DEF TypeOK
<1>2. TableSound
  <2>1. {i \in Slots : ~Live(i)} = Slots
    BY <1>0 DEF Live
  <2> QED BY <2>1, <1>0, SlotsCount DEF TableSound
<1>3. UniqueNames
  BY <1>0 DEF UniqueNames, Live
<1>4. SizeTracks
  <2>1. \A i \in Slots : covered[i] = 0 /\ reached[i] = 0
    BY DEF Init
  <2>2. \A i \in Slots : inodes[i].size = 0
    BY <1>0
  <2> QED BY <2>1, <2>2 DEF SizeTracks
<1> QED BY <1>1, <1>2, <1>3, <1>4 DEF IInv

\* Formatting while there is no file keeps the invariant.
LEMMA FormatIInv ==
  ASSUME IInv, \A i \in Slots : ~Live(i), NEW n \in BlockCounts, sfs_format(n)
  PROVE  IInv'
<1> USE SimpleFsAssumption DEF sfs_format
<1>1. TypeOK'
  BY DEF IInv, TypeOK
<1>2. TableSound'
  <2>1. {i \in Slots : ~Live(i)}' = Slots
    BY DEF Live
  <2>2. superblock'.num_free_inodes = Cardinality({i \in Slots : ~Live(i)}')
    BY <2>1, SlotsCount
  <2> QED BY <2>2 DEF TableSound, IInv
<1>3. UniqueNames'
  BY DEF IInv, UniqueNames, Live
<1>4. SizeTracks'
  BY DEF IInv, SizeTracks, Live
<1> QED BY <1>1, <1>2, <1>3, <1>4 DEF IInv

\* A new file takes a free slot and a name that no file has, unless the name
\* was cut off.
LEMMA CreateIInv ==
  ASSUME IInv, NEW n \in Names, sfs_create(n) PROVE IInv'
<1> USE SimpleFsAssumption, NamesAssumption
<1>0. PICK i \in Slots :
        /\ FirstFree(i)
        /\ inodes' = [inodes EXCEPT ![i] =
                       [ino |-> i, size |-> 0, name |-> Stored(n), blocks |-> {}]]
  BY DEF sfs_create
<1>s. superblock' = [superblock EXCEPT !.num_free_inodes = @ - 1]
      /\ UNCHANGED <<covered, reached>> /\ ~\E j \in Slots : HasName(j, n)
  BY DEF sfs_create
<1>t. inodes \in [Slots -> Inodes] /\ ~Live(i)
  BY <1>0 DEF IInv, TypeOK, FirstFree
<1>n. Stored(n) \in Fitting
  BY DEF Stored, Names, Fitting, Long
<1>r. [ino |-> i, size |-> 0, name |-> Stored(n), blocks |-> {}] \in Inodes
  <2>1. i \in 0 .. SFS_MAX_FILES /\ 0 \in 0 .. WORD - 1
    BY DEF Slots
  <2>2. {} \in SUBSET (0 .. 11)
    OBVIOUS
  <2> QED BY <2>1, <2>2, <1>n DEF Inodes
<1>o. /\ inodes'[i].ino = i /\ inodes'[i].size = 0 /\ inodes'[i].blocks = {}
      /\ inodes'[i].name = Stored(n) /\ i # 0
      /\ \A j \in Slots \ {i} : inodes'[j] = inodes[j]
  BY <1>0, <1>t DEF Slots
<1>c. Dead' = Dead \ {i} /\ i \in Dead
  BY <1>o, <1>t DEF Dead, Live
<1>d. Cardinality(Dead') = Cardinality(Dead) - 1 /\ Cardinality(Dead) \in Nat
  BY <1>c, DeadFinite, FS_RemoveElement, FS_CardinalityType
<1>f. superblock.num_free_inodes = Cardinality(Dead)
  BY DEF IInv, TableSound, Dead
<1>g. Cardinality(Dead') \in Nat
  <2>1. IsFiniteSet(Dead')
    BY <1>c, DeadFinite, FS_RemoveElement
  <2> QED BY <2>1, FS_CardinalityType
<1>1. TypeOK'
  <2>1. inodes' \in [Slots -> Inodes]
    BY <1>0, <1>r, <1>t
  <2>2. superblock' \in [num_blocks : Nat, num_free_blocks : Nat,
                         num_free_inodes : 0 .. SFS_MAX_FILES]
    <3>1. superblock \in [num_blocks : Nat, num_free_blocks : Nat,
                          num_free_inodes : 0 .. SFS_MAX_FILES]
      BY DEF IInv, TypeOK
    <3>2. superblock.num_free_inodes - 1 \in 0 .. SFS_MAX_FILES
      BY <3>1, <1>d, <1>f, <1>g
    <3> QED BY <3>1, <3>2, <1>s
  <2> QED BY <2>1, <2>2, <1>s DEF IInv, TypeOK
<1>2. TableSound'
  <2>1. \A j \in Slots : inodes'[j].ino \in {0, j} /\ inodes'[j].blocks = {}
    BY <1>o DEF IInv, TableSound
  <2>2. superblock'.num_free_inodes = Cardinality(Dead')
    BY <1>s, <1>d, <1>f DEF IInv, TypeOK
  <2>3. superblock'.num_free_blocks = superblock'.num_blocks
    BY <1>s DEF IInv, TypeOK, TableSound
  <2> QED BY <2>1, <2>2, <2>3 DEF TableSound, Dead
<1>3. UniqueNames'
  <2> SUFFICES ASSUME NEW j \in Slots, NEW k \in Slots, Live(j)', Live(k)',
                      inodes'[j].name = inodes'[k].name, j # k
               PROVE  inodes'[j].name.head \in FullHeads
    BY DEF UniqueNames
  <2>1. CASE j # i /\ k # i
    BY <2>1, <1>o DEF IInv, UniqueNames, Live
  <2>2. ASSUME NEW m \in Slots, Live(m), inodes[m].name = Stored(n)
        PROVE  n.head \in FullHeads
    <3>1. CASE n \in Long
      BY <3>1 DEF Long
    <3>2. CASE n \in Fitting
      <4>1. Stored(n) = n
        BY <3>2 DEF Stored, Fitting
      <4>2. HasName(m, n)
        BY <2>2, <4>1 DEF HasName, Matches
      <4> QED BY <4>2, <1>s
    <3> QED BY <3>1, <3>2 DEF Names
  <2>3. CASE j = i
    <3>1. Live(k) /\ inodes[k].name = Stored(n)
      BY <2>3, <1>o DEF Live
    <3> QED BY <3>1, <2>2, <2>3, <1>o DEF Stored
  <2>4. CASE k = i
    <3>1. Live(j) /\ inodes[j].name = Stored(n)
      BY <2>4, <1>o DEF Live
    <3>2. inodes'[j].name = Stored(n)
      BY <2>4, <1>o
    <3> QED BY <3>1, <3>2, <2>2 DEF Stored
  <2> QED BY <2>1, <2>3, <2>4
<1>4. SizeTracks'
  <2> SUFFICES ASSUME NEW j \in Slots
               PROVE  /\ covered'[j] <= inodes'[j].size
                      /\ inodes'[j].size <= reached'[j]
                      /\ ~Live(j)' => covered'[j] = 0 /\ reached'[j] = 0
    BY DEF SizeTracks
  <2>1. CASE j # i
    BY <2>1, <1>o, <1>s DEF IInv, SizeTracks, Live
  <2>2. CASE j = i
    <3>1. covered'[i] = 0 /\ reached'[i] = 0
      BY <1>s, <1>t DEF IInv, SizeTracks
    <3> QED BY <3>1, <2>2, <1>o
  <2> QED BY <2>1, <2>2
<1> QED BY <1>1, <1>2, <1>3, <1>4 DEF IInv

\* A deletion frees the slot of one file and counts it.
LEMMA DeleteIInv ==
  ASSUME IInv, NEW n \in Names, sfs_delete(n) PROVE IInv'
<1> USE SimpleFsAssumption
<1>0. PICK i \in Slots :
        /\ find_inode(n, i)
        /\ inodes' = [inodes EXCEPT ![i].ino = 0, ![i].size = 0]
        /\ superblock' = [superblock EXCEPT
                            !.num_free_blocks = @ + Cardinality(inodes[i].blocks),
                            !.num_free_inodes = @ + 1]
        /\ covered' = [covered EXCEPT ![i] = 0]
        /\ reached' = [reached EXCEPT ![i] = 0]
  BY DEF sfs_delete
<1>t. inodes \in [Slots -> Inodes] /\ Live(i)
  BY <1>0 DEF IInv, TypeOK, find_inode, HasName
<1>b. Cardinality(inodes[i].blocks) = 0
  BY FS_EmptySet DEF IInv, TableSound
<1>o. /\ inodes'[i].ino = 0 /\ inodes'[i].size = 0
      /\ inodes'[i].name = inodes[i].name /\ inodes'[i].blocks = inodes[i].blocks
      /\ \A j \in Slots \ {i} : inodes'[j] = inodes[j]
  BY <1>0, <1>t DEF Inodes
<1>c. Dead' = Dead \cup {i} /\ i \notin Dead
  BY <1>o, <1>t DEF Dead, Live
<1>d. /\ Cardinality(Dead') = Cardinality(Dead) + 1
      /\ IsFiniteSet(Dead') /\ Dead' \subseteq Slots
  BY <1>c, DeadFinite, FS_AddElement DEF Dead
<1>f. superblock.num_free_inodes = Cardinality(Dead)
  BY DEF IInv, TableSound, Dead
<1>g. Cardinality(Dead') <= SFS_MAX_FILES
  BY <1>d, DeadFinite, FS_Subset, SlotsCount
<1>1. TypeOK'
  <2>1. inodes' \in [Slots -> Inodes]
    <3>1. inodes'[i] = [inodes[i] EXCEPT !.ino = 0, !.size = 0]
      BY <1>0, <1>t
    <3>2. inodes[i] \in Inodes /\ 0 \in 0 .. SFS_MAX_FILES /\ 0 \in 0 .. WORD - 1
      BY <1>t
    <3>3. inodes'[i] \in Inodes
      BY <3>1, <3>2 DEF Inodes
    <3> QED BY <3>3, <1>o, <1>0, <1>t
  <2>2. superblock' \in [num_blocks : Nat, num_free_blocks : Nat,
                         num_free_inodes : 0 .. SFS_MAX_FILES]
    <3>1. superblock \in [num_blocks : Nat, num_free_blocks : Nat,
                          num_free_inodes : 0 .. SFS_MAX_FILES]
      BY DEF IInv, TypeOK
    <3>2. /\ superblock.num_free_inodes + 1 \in 0 .. SFS_MAX_FILES
          /\ superblock.num_free_blocks + Cardinality(inodes[i].blocks) \in Nat
      BY <3>1, <1>b, <1>d, <1>f, <1>g
    <3> QED BY <3>1, <3>2, <1>0
  <2> QED BY <2>1, <2>2, <1>0 DEF IInv, TypeOK
<1>2. TableSound'
  <2>1. \A j \in Slots : inodes'[j].ino \in {0, j} /\ inodes'[j].blocks = {}
    BY <1>o DEF IInv, TableSound
  <2>2. superblock'.num_free_inodes = Cardinality(Dead')
    BY <1>0, <1>d, <1>f DEF IInv, TypeOK
  <2>3. superblock'.num_free_blocks = superblock'.num_blocks
    BY <1>0, <1>b DEF IInv, TypeOK, TableSound
  <2> QED BY <2>1, <2>2, <2>3 DEF TableSound, Dead
<1>3. UniqueNames'
  BY <1>o DEF IInv, UniqueNames, Live
<1>4. SizeTracks'
  BY <1>0, <1>o DEF IInv, TypeOK, SizeTracks, Live
<1> QED BY <1>1, <1>2, <1>3, <1>4 DEF IInv

\* 32-bit sums.
LEMMA SumFacts ==
  ASSUME NEW a \in 0 .. WORD - 1, NEW b \in 0 .. WORD - 1
  PROVE  /\ Sum(a, b) \in 0 .. WORD - 1
         /\ a + b < WORD => Sum(a, b) = a + b
         /\ Sum(a, b) <= a + b
<1>1. WORD \in Nat \ {0} /\ a + b \in Nat
  BY SimpleFsAssumption
<1> QED BY <1>1, SMTT(30) DEF Sum

\* A write moves the size to its end or leaves it, sums that wrap included.
LEMMA WriteIInv ==
  ASSUME IInv, NEW i \in Slots, NEW o \in Requests, NEW s \in Requests,
         sfs_write(i, o, s)
  PROVE  IInv'
<1> DEFINE end == Sum(o, s)
<1>a. o \in 0 .. WORD - 1 /\ s \in 0 .. WORD - 1 /\ WORD \in Nat \ {0}
  BY SimpleFsAssumption
<1>e. /\ end \in 0 .. WORD - 1
      /\ o + s < WORD => end = o + s
      /\ end <= o + s
  BY <1>a, SumFacts
<1> HIDE DEF end
<1>0. /\ inodes' = [inodes EXCEPT ![i].size = NewSize(@, end)]
      /\ covered' = [covered EXCEPT ![i] =
                      IF o + s < WORD THEN Larger(@, o + s) ELSE @]
      /\ reached' = [reached EXCEPT ![i] = Larger(@, o + s)]
      /\ UNCHANGED superblock
      /\ Valid(i)
  BY DEF sfs_write, end
<1>t. inodes \in [Slots -> Inodes] /\ inodes[i].size \in 0 .. WORD - 1
  BY DEF IInv, TypeOK, Inodes
<1>l. Live(i)
  BY <1>0, SimpleFsAssumption DEF Valid, Live, Slots
<1>o. /\ inodes'[i].size = NewSize(inodes[i].size, end)
      /\ \A j \in Slots : /\ inodes'[j].ino = inodes[j].ino
                          /\ inodes'[j].name = inodes[j].name
                          /\ inodes'[j].blocks = inodes[j].blocks
      /\ \A j \in Slots \ {i} : inodes'[j] = inodes[j]
  BY <1>0, <1>t DEF Inodes
<1>1. TypeOK'
  <2>1. NewSize(inodes[i].size, end) \in 0 .. WORD - 1
    BY <1>t, <1>e DEF NewSize
  <2>2. inodes' \in [Slots -> Inodes]
    BY <2>1, <1>0, <1>t DEF Inodes
  <2>3. covered' \in [Slots -> 0 .. WORD - 1] /\ reached' \in [Slots -> Nat]
    BY <1>0, <1>a DEF IInv, TypeOK, Larger
  <2> QED BY <2>2, <2>3, <1>0 DEF IInv, TypeOK
<1>2. TableSound'
  <2>1. {j \in Slots : ~Live(j)}' = {j \in Slots : ~Live(j)}
    BY <1>o DEF Live
  <2> QED BY <2>1, <1>o, <1>0 DEF IInv, TableSound
<1>3. UniqueNames'
  BY <1>o DEF IInv, UniqueNames, Live
<1>4. SizeTracks'
  <2> SUFFICES ASSUME NEW j \in Slots
               PROVE  /\ covered'[j] <= inodes'[j].size
                      /\ inodes'[j].size <= reached'[j]
                      /\ ~Live(j)' => covered'[j] = 0 /\ reached'[j] = 0
    BY DEF SizeTracks
  <2>1. CASE j # i
    BY <2>1, <1>0, <1>o DEF IInv, TypeOK, SizeTracks, Live
  <2>2. CASE j = i
    <3>1. Live(j)'
      BY <2>2, <1>o, <1>l DEF Live
    <3>2. /\ covered'[i] = IF o + s < WORD THEN Larger(covered[i], o + s)
                           ELSE covered[i]
          /\ reached'[i] = Larger(reached[i], o + s)
          /\ covered[i] \in Nat /\ reached[i] \in Nat
          /\ covered[i] <= inodes[i].size /\ inodes[i].size <= reached[i]
      BY <1>0, <1>a DEF IInv, TypeOK, SizeTracks
    <3> QED BY <3>1, <3>2, <2>2, <1>o, <1>e, <1>t, <1>a DEF NewSize, Larger
  <2> QED BY <2>1, <2>2
<1> QED BY <1>1, <1>2, <1>3, <1>4 DEF IInv

\* Every step keeps the invariant.
LEMMA NextIInv == IInv /\ [Next]_vars => IInv'
<1> SUFFICES ASSUME IInv, [Next]_vars PROVE IInv'
  OBVIOUS
<1>1. CASE UNCHANGED vars
  BY <1>1 DEF vars, IInv, TypeOK, TableSound, UniqueNames, SizeTracks, Live
<1>2. ASSUME \A i \in Slots : ~Live(i), NEW n \in BlockCounts, sfs_format(n)
      PROVE  IInv'
  BY <1>2, FormatIInv
<1>3. ASSUME NEW n \in Names, sfs_create(n) PROVE IInv'
  BY <1>3, CreateIInv
<1>4. ASSUME NEW n \in Names, sfs_delete(n) PROVE IInv'
  BY <1>4, DeleteIInv
<1>5. ASSUME NEW i \in Slots, NEW o \in Requests, NEW s \in Requests,
             sfs_write(i, o, s)
      PROVE IInv'
  BY <1>5, WriteIInv
<1> QED BY <1>1, <1>2, <1>3, <1>4, <1>5 DEF Next

\* The size being right is what makes the counts right.
LEMMA SizeCounts == IInv => CountsAgree
<1> SUFFICES ASSUME IInv, NEW i \in Slots, NEW o \in Requests, NEW s \in Requests,
                    Live(i), o + s < WORD, 2 * s < WORD
             PROVE  /\ sfs_read(i, o, s) \in 0 .. s
                    /\ o + s <= covered[i] => sfs_read(i, o, s) = s
                    /\ sfs_read(i, o, s) > 0 => o + sfs_read(i, o, s) <= reached[i]
  BY DEF CountsAgree
<1> DEFINE fsize == inodes[i].size
<1>1. /\ o \in Nat /\ s \in Nat /\ WORD \in Nat
      /\ fsize \in Nat /\ covered[i] \in Nat /\ reached[i] \in Nat
      /\ covered[i] <= fsize /\ fsize <= reached[i]
  BY SimpleFsAssumption DEF IInv, TypeOK, SizeTracks, Inodes
<1>2. Valid(i)
  BY DEF IInv, TableSound, Valid, Live
<1>3. Sum(o, s) = o + s
  BY SumFacts, SimpleFsAssumption
<1> HIDE DEF fsize
<1>4. sfs_read(i, o, s) = IF o >= fsize THEN 0
                          ELSE IF o + s > fsize THEN ToInt(fsize - o) ELSE ToInt(s)
  BY <1>2, <1>3 DEF sfs_read, fsize
<1>5. CASE o >= fsize
  BY <1>5, <1>4, <1>1
<1>6. CASE o < fsize /\ o + s > fsize
  <2>1. ToInt(fsize - o) = fsize - o
    BY <1>6, <1>1 DEF ToInt
  <2> QED BY <2>1, <1>6, <1>4, <1>1
<1>7. CASE o < fsize /\ o + s <= fsize
  <2>1. ToInt(s) = s
    BY <1>1 DEF ToInt
  <2> QED BY <2>1, <1>7, <1>4, <1>1
<1> QED BY <1>5, <1>6, <1>7, <1>1

\* sfs_init, sfs_format, sfs_create, sfs_delete and sfs_write keep IInv.
THEOREM SimpleFsIInv == Spec => []IInv
  BY InitIInv, NextIInv, PTL DEF Spec

\* The fields of the inode table and of the superblock keep their types: sizes
\* stay words although sums of sfs_write wrap.
THEOREM SimpleFsTypeCorrect == Spec => []TypeOK
<1>1. IInv => TypeOK
  BY DEF IInv
<1> QED BY <1>1, SimpleFsIInv, PTL

\* The counters of the superblock are exact and inode numbers name their slot,
\* for tables of every size.
THEOREM TableAlwaysSound == Spec => []TableSound
<1>1. IInv => TableSound
  BY DEF IInv
<1> QED BY <1>1, SimpleFsIInv, PTL

\* sfs_create never makes a second file of a name, but for names that were cut
\* off.
THEOREM NamesStayUnique == Spec => []UniqueNames
<1>1. IInv => UniqueNames
  BY DEF IInv
<1> QED BY <1>1, SimpleFsIInv, PTL

\* The count that sfs_read returns is the size asked for wherever sfs_write was
\* given as much below 2^32, and never goes behind the furthest write, for every
\* word size and whatever writes wrapped around.  It is about counts only: no
\* data is stored.
THEOREM ReadCountsAgree == Spec => []CountsAgree
  BY SizeCounts, SimpleFsIInv, PTL

=============================================================================
