----------------------------- MODULE VfsProofs -----------------------------
(***************************************************************************)
(* The invariants of Vfs, for every heap, buffer and object size.          *)
(***************************************************************************)
EXTENDS Vfs, TLAPS, SequenceTheorems

\* Most steps are first-order; a leaf that needs arithmetic, functions or records
\* names SMT.
USE Zenon

\* What kmalloc gave out lies below heap_current, and so do the inode numbers
\* below next_ino.
Layout ==
  /\ heap_current % 8 = 0
  /\ \A f \in DOMAIN file : f + FILE_SIZE <= heap_current
  /\ \A a \in DOMAIN inode :
       a + INODE_SIZE <= heap_current /\ inode[a].ino < next_ino

\* The buffer behind the data is as it was at boot.
Blank == \A i \in testdev_len .. TESTDEV_SIZE - 1 : testdev_buffer[i] = Zero

IInv == TypeOK /\ Layout /\ HandlesSound /\ Blank

\* The constants that are numbers.
LEMMA Sizes ==
  /\ MAX_DEVICES \in Nat \ {0} /\ TESTDEV_SIZE \in Nat \ {0}
  /\ FILE_SIZE \in Nat \ {0} /\ INODE_SIZE \in Nat \ {0}
  /\ HEAP_SIZE \in Nat /\ WORD \in Nat /\ TESTDEV_SIZE < WORD
  BY VfsAssumption

\* Rounding up to 8 never gives less than what was asked for.
LEMMA AlignedFacts ==
  ASSUME NEW size \in Nat
  PROVE  Aligned(size) \in Nat /\ Aligned(size) >= size /\ Aligned(size) % 8 = 0
  BY SMTT(30) DEF Aligned

\* Multiples of 8 add up to one.
LEMMA SumMultiple ==
  ASSUME NEW a \in Nat, NEW b \in Nat, a % 8 = 0, b % 8 = 0
  PROVE  (a + b) % 8 = 0
  BY SMTT(30)

\* Unsigned differences that do not wrap.
LEMMA MinusFacts ==
  ASSUME NEW a \in Nat, NEW b \in Nat, b <= a, a < WORD
  PROVE  Minus(a, b) = a - b
<1>1. WORD \in Nat /\ WORD > 0 /\ a - b \in 0 .. WORD - 1
  BY Sizes, SMT
<1> QED BY <1>1, SMTT(30) DEF Minus

\* Objects one after the other share no byte.
LEMMA RegionsApart ==
  ASSUME NEW a \in Int, NEW b \in Int, NEW m \in Nat, NEW n \in Nat, a + m <= b
  PROVE  Region(a, m) \cap Region(b, n) = {} /\ Region(b, n) \cap Region(a, m) = {}
  BY SMT DEF Region

\* At boot there are no objects.
LEMMA InitIInv == Init => IInv
<1> SUFFICES ASSUME Init PROVE IInv
  OBVIOUS
<1>d. DOMAIN file = {} /\ DOMAIN inode = {}
  BY SMT DEF Init
<1>1. TypeOK
  <2>1. devices \in Seq([name : Fitting, ops : {"testdev", "other"}])
        /\ Len(devices) = 1
    <3>1. [name |-> [head |-> "testdev", tail |-> "none"], ops |-> "testdev"]
            \in [name : Fitting, ops : {"testdev", "other"}]
      BY VfsAssumption DEF Fitting
    <3> QED BY <3>1, SMT DEF Init
  <2>2. testdev_buffer \in [0 .. TESTDEV_SIZE - 1 -> Chars \cup {Zero}]
    BY DEF Init
  <2>3. buf \in [1 .. 0 -> Chars \cup {Zero}]
    BY SMT DEF Init
  <2>4. heap_current \in 0 .. HEAP_SIZE /\ next_ino \in Nat
        /\ testdev_len \in 0 .. TESTDEV_SIZE
    BY Sizes, SMT DEF Init
  <2>5. \E n \in 0 .. TESTDEV_SIZE : buf \in [1 .. n -> Chars \cup {Zero}]
    BY <2>3, Sizes, SMT
  <2>6. /\ DOMAIN inode \subseteq Addresses
        /\ \A a \in DOMAIN inode :
             inode[a] \in [ino : Nat, ref : {0, 1}, ops : {"testdev", "other"}]
        /\ DOMAIN file \subseteq Addresses
        /\ \A f \in DOMAIN file :
             file[f] \in [inode : Addresses, offset : 0 .. TESTDEV_SIZE]
    BY <1>d
  <2>7. Len(devices) <= MAX_DEVICES
    BY <2>1, Sizes, SMT
  <2>8. outside \in BOOLEAN
    BY DEF Init
  <2> QED BY <2>1, <2>2, <2>4, <2>5, <2>6, <2>7, <2>8 DEF TypeOK
<1>2. Layout
  BY <1>d, SMT DEF Layout, Init
<1>3. HandlesSound
  BY <1>d DEF HandlesSound
<1>4. Blank
  BY Sizes, SMT DEF Init, Blank
<1> QED BY <1>1, <1>2, <1>3, <1>4 DEF IInv

\* A larger heap_current alone disturbs nothing.
LEMMA GrowIInv ==
  ASSUME IInv, NEW size \in Nat, kmalloc(heap_current, size),
         heap_current' = heap_current + Aligned(size),
         UNCHANGED <<devices, next_ino, inode, file, device>>
  PROVE  IInv'
<1>1. /\ heap_current' \in 0 .. HEAP_SIZE /\ heap_current' % 8 = 0
      /\ heap_current \in Nat /\ heap_current <= heap_current'
  <2>1. Aligned(size) \in Nat /\ Aligned(size) % 8 = 0
    BY AlignedFacts
  <2>2. heap_current \in Nat /\ heap_current % 8 = 0
    BY Sizes, SMT DEF IInv, TypeOK, Layout
  <2>3. heap_current + Aligned(size) <= HEAP_SIZE
    BY DEF kmalloc
  <2>4. (heap_current + Aligned(size)) % 8 = 0
    BY <2>1, <2>2, SumMultiple
  <2> QED BY <2>1, <2>2, <2>3, <2>4, Sizes, SMT
<1>2. TypeOK'
  BY <1>1 DEF IInv, TypeOK, device
<1>3. Layout'
  <2>1. \A f \in DOMAIN file : f \in Nat
    BY SMT DEF IInv, TypeOK, Addresses
  <2>2. \A a \in DOMAIN inode : a \in Nat
    BY SMT DEF IInv, TypeOK, Addresses
  <2> QED BY <2>1, <2>2, <1>1, Sizes, SMT DEF IInv, Layout
<1>4. HandlesSound'
  BY SMT DEF IInv, HandlesSound
<1>5. Blank'
  BY DEF IInv, Blank, device
<1> QED BY <1>2, <1>3, <1>4, <1>5 DEF IInv

\* A registration changes the registry only.
LEMMA RegisterIInv ==
  ASSUME IInv, NEW n \in Names, vfs_register_device(n, "other") PROVE IInv'
<1>1. Stored(n) \in Fitting
  BY NamesAssumption DEF Stored, Names, Fitting, Long
<1>2. [name |-> Stored(n), ops |-> "other"]
        \in [name : Fitting, ops : {"testdev", "other"}]
  BY <1>1
<1>3. /\ devices' \in Seq([name : Fitting, ops : {"testdev", "other"}])
      /\ Len(devices') <= MAX_DEVICES
  BY <1>2, Sizes, SMT DEF vfs_register_device, Registered, IInv, TypeOK
<1>u. UNCHANGED <<objects, file, device>>
  BY DEF vfs_register_device
<1>4. TypeOK'
  BY <1>3, <1>u DEF IInv, TypeOK, objects, device
<1>5. Layout' /\ HandlesSound' /\ Blank'
  BY <1>u, SMT DEF IInv, Layout, HandlesSound, Blank, objects, device
<1> QED BY <1>4, <1>5 DEF IInv

\* The objects of a call of vfs_open lie above all others.
LEMMA NewObjects ==
  ASSUME IInv, Allocates
  PROVE  /\ heap_current \in Addresses /\ NewInode \in Addresses
         /\ NewInode \in Nat /\ heap_current \in Nat
         /\ heap_current + FILE_SIZE <= NewInode
         /\ NewInode + INODE_SIZE <= NewInode + Aligned(INODE_SIZE)
         /\ NewInode + Aligned(INODE_SIZE) \in 0 .. HEAP_SIZE
         /\ (NewInode + Aligned(INODE_SIZE)) % 8 = 0
         /\ heap_current \notin DOMAIN file /\ NewInode \notin DOMAIN inode
         /\ \A f \in DOMAIN file : f \in Nat /\ f + FILE_SIZE <= heap_current
         /\ \A a \in DOMAIN inode : a \in Nat /\ a + INODE_SIZE <= heap_current
<1> DEFINE F == Aligned(FILE_SIZE)
           I == Aligned(INODE_SIZE)
<1>1. F \in Nat /\ F >= FILE_SIZE /\ F % 8 = 0
  BY AlignedFacts, Sizes
<1>2. I \in Nat /\ I >= INODE_SIZE /\ I % 8 = 0
  BY AlignedFacts, Sizes
<1>3. heap_current \in Nat /\ heap_current % 8 = 0
  BY Sizes, SMT DEF IInv, TypeOK, Layout
<1>4. NewInode = heap_current + F /\ NewInode + I <= HEAP_SIZE
  BY DEF Allocates, kmalloc, NewInode
<1> HIDE DEF F, I
<1>5. NewInode \in Nat /\ NewInode % 8 = 0
  BY <1>1, <1>3, <1>4, SumMultiple, SMT
<1>6. (NewInode + I) % 8 = 0
  BY <1>2, <1>5, SumMultiple
<1>7. /\ \A f \in DOMAIN file : f \in Nat /\ f + FILE_SIZE <= heap_current
      /\ \A a \in DOMAIN inode : a \in Nat /\ a + INODE_SIZE <= heap_current
  BY SMT DEF IInv, TypeOK, Layout, Addresses
<1>8. heap_current \in Addresses /\ NewInode \in Addresses
  BY <1>1, <1>2, <1>3, <1>4, <1>5, Sizes, SMT DEF Addresses
<1>9. heap_current \notin DOMAIN file /\ NewInode \notin DOMAIN inode
  BY <1>1, <1>3, <1>4, <1>7, Sizes, SMT
<1>10. /\ heap_current + FILE_SIZE <= NewInode
       /\ NewInode + INODE_SIZE <= NewInode + I
       /\ NewInode + I \in 0 .. HEAP_SIZE
  BY <1>1, <1>2, <1>3, <1>4, <1>5, Sizes, SMT
<1> QED BY <1>3, <1>5, <1>6, <1>7, <1>8, <1>9, <1>10 DEF I

\* The inode that vfs_create_inode adds, with the file or after a refusal.
LEMMA CreateInode ==
  ASSUME IInv, Allocates, NEW ref \in {0, 1}, NEW ops \in {"testdev", "other"},
         vfs_create_inode(ref, ops)
  PROVE  /\ DOMAIN inode' = DOMAIN inode \cup {NewInode}
         /\ inode'[NewInode] = [ino |-> next_ino, ref |-> ref, ops |-> ops]
         /\ \A a \in DOMAIN inode : inode'[a] = inode[a]
         /\ next_ino' = next_ino + 1
         /\ heap_current' = NewInode + Aligned(INODE_SIZE)
         /\ \A a \in DOMAIN inode' :
              /\ inode'[a] \in [ino : Nat, ref : {0, 1}, ops : {"testdev", "other"}]
              /\ a \in Addresses
              /\ a + INODE_SIZE <= heap_current' /\ inode'[a].ino < next_ino'
         /\ \A a, b \in DOMAIN inode' : a # b =>
              /\ inode'[a].ino # inode'[b].ino
              /\ Region(a, INODE_SIZE) \cap Region(b, INODE_SIZE) = {}
<1>1. /\ DOMAIN inode' = DOMAIN inode \cup {NewInode}
      /\ inode'[NewInode] = [ino |-> next_ino, ref |-> ref, ops |-> ops]
      /\ \A a \in DOMAIN inode : inode'[a] = inode[a]
      /\ next_ino' = next_ino + 1
      /\ heap_current' = NewInode + Aligned(INODE_SIZE)
  BY NewObjects DEF vfs_create_inode, With
<1>2. next_ino \in Nat
  BY DEF IInv, TypeOK
<1>3. ASSUME NEW a \in DOMAIN inode'
      PROVE  /\ inode'[a] \in [ino : Nat, ref : {0, 1}, ops : {"testdev", "other"}]
             /\ a \in Addresses
             /\ a + INODE_SIZE <= heap_current' /\ inode'[a].ino < next_ino'
  <2>1. CASE a = NewInode
    BY <2>1, <1>1, <1>2, NewObjects, SMT
  <2>2. CASE a \in DOMAIN inode
    <3>1. /\ inode[a] \in [ino : Nat, ref : {0, 1}, ops : {"testdev", "other"}]
          /\ a \in Addresses /\ inode[a].ino < next_ino
      BY <2>2 DEF IInv, TypeOK, Layout
    <3>2. a \in Nat /\ a + INODE_SIZE <= heap_current /\ heap_current <= heap_current'
      BY <2>2, <1>1, NewObjects, Sizes, SMT
    <3>3. heap_current \in Nat /\ heap_current' \in Nat
      BY <1>1, NewObjects, SMT
    <3> QED BY <3>1, <3>2, <3>3, <2>2, <1>1, <1>2, Sizes, SMT
  <2> QED BY <2>1, <2>2, <1>1
<1>4. ASSUME NEW a \in DOMAIN inode
      PROVE  /\ inode[a].ino # next_ino
             /\ Region(a, INODE_SIZE) \cap Region(NewInode, INODE_SIZE) = {}
             /\ Region(NewInode, INODE_SIZE) \cap Region(a, INODE_SIZE) = {}
  <2>1. inode[a].ino < next_ino /\ inode[a].ino \in Nat
    BY DEF IInv, TypeOK, Layout
  <2>2. a \in Int /\ NewInode \in Int /\ a + INODE_SIZE <= NewInode
    BY NewObjects, Sizes, SMT
  <2> QED BY <2>1, <2>2, <1>2, RegionsApart, Sizes, SMT
<1>5. ASSUME NEW a \in DOMAIN inode', NEW b \in DOMAIN inode', a # b
      PROVE  /\ inode'[a].ino # inode'[b].ino
             /\ Region(a, INODE_SIZE) \cap Region(b, INODE_SIZE) = {}
  <2>1. CASE a \in DOMAIN inode /\ b \in DOMAIN inode
    BY <2>1, <1>1, <1>5 DEF IInv, HandlesSound
  <2>2. CASE a = NewInode
    BY <2>2, <1>5, <1>1, <1>4, SMT
  <2>3. CASE b = NewInode
    BY <2>3, <1>5, <1>1, <1>4, SMT
  <2> QED BY <2>1, <2>2, <2>3, <1>1
<1> QED BY <1>1, <1>3, <1>5

\* The driver of a registered device is one of the two.
LEMMA DriverType ==
  ASSUME IInv, NEW d \in DOMAIN devices
  PROVE  devices[d].ops \in {"testdev", "other"}
<1> DEFINE D == [name : Fitting, ops : {"testdev", "other"}]
<1>1. devices \in Seq(D)
  BY DEF IInv, TypeOK
<1> HIDE DEF D
<1>2. devices[d] \in D
  BY <1>1, SMT
<1> QED BY <1>2 DEF D

\* The slots of the registry are numbered from 1.
LEMMA RegistryDomain ==
  ASSUME IInv PROVE DOMAIN devices = 1 .. Len(devices) /\ Len(devices) \in Nat
<1> DEFINE D == [name : Fitting, ops : {"testdev", "other"}]
<1>1. devices \in Seq(D)
  BY DEF IInv, TypeOK
<1> HIDE DEF D
<1> QED BY <1>1, SMT

\* A file and its inode are new, and counted once.
LEMMA OpenIInv ==
  ASSUME IInv, NEW n \in Names, vfs_open(n) PROVE IInv'
<1>0. PICK d \in DOMAIN devices : vfs_create_inode(1, devices[d].ops)
  BY DEF vfs_open
<1>u. Allocates /\ UNCHANGED <<devices, device>>
  BY DEF vfs_open
<1>a. /\ DOMAIN inode' = DOMAIN inode \cup {NewInode}
      /\ inode'[NewInode].ref = 1
      /\ \A a \in DOMAIN inode : inode'[a] = inode[a]
      /\ next_ino' = next_ino + 1
      /\ heap_current' = NewInode + Aligned(INODE_SIZE)
      /\ \A a \in DOMAIN inode' :
           /\ inode'[a] \in [ino : Nat, ref : {0, 1}, ops : {"testdev", "other"}]
           /\ a \in Addresses
           /\ a + INODE_SIZE <= heap_current' /\ inode'[a].ino < next_ino'
      /\ \A a, b \in DOMAIN inode' : a # b =>
           /\ inode'[a].ino # inode'[b].ino
           /\ Region(a, INODE_SIZE) \cap Region(b, INODE_SIZE) = {}
  BY <1>0, <1>u, DriverType, CreateInode, SMT
<1>f. /\ DOMAIN file' = DOMAIN file \cup {heap_current}
      /\ file'[heap_current] = [inode |-> NewInode, offset |-> 0]
      /\ \A f \in DOMAIN file : file'[f] = file[f]
  BY <1>u, NewObjects DEF vfs_open, With
<1>h. /\ heap_current' \in 0 .. HEAP_SIZE /\ heap_current' % 8 = 0
      /\ heap_current' \in Nat /\ heap_current \in Nat
      /\ heap_current + FILE_SIZE <= heap_current'
  BY <1>a, <1>u, NewObjects, Sizes, SMT
<1>1. TypeOK'
  <2>1. \A f \in DOMAIN file' :
          file'[f] \in [inode : Addresses, offset : 0 .. TESTDEV_SIZE]
    <3>1. [inode |-> NewInode, offset |-> 0]
            \in [inode : Addresses, offset : 0 .. TESTDEV_SIZE]
      BY <1>u, NewObjects, Sizes, SMT
    <3> QED BY <3>1, <1>f DEF IInv, TypeOK
  <2>2. DOMAIN file' \subseteq Addresses
    BY <1>f, <1>u, NewObjects DEF IInv, TypeOK
  <2>3. next_ino' \in Nat
    BY <1>a, SMT DEF IInv, TypeOK
  <2>4. DOMAIN inode' \subseteq Addresses
    BY <1>a
  <2>5. UNCHANGED <<devices, testdev_buffer, testdev_len, buf, outside>>
    BY <1>u DEF device
  <2> QED BY <2>1, <2>2, <2>3, <2>4, <2>5, <1>a, <1>h DEF IInv, TypeOK
<1>2. Layout'
  <2>1. ASSUME NEW f \in DOMAIN file' PROVE f + FILE_SIZE <= heap_current'
    <3>1. CASE f \in DOMAIN file
      BY <3>1, <1>h, <1>u, NewObjects, Sizes, SMT
    <3>2. CASE f = heap_current
      BY <3>2, <1>h
    <3> QED BY <3>1, <3>2, <1>f
  <2> QED BY <2>1, <1>a, <1>h DEF Layout
<1>3. HandlesSound'
  <2>1. {a \in DOMAIN inode' : inode'[a].ref = 1}
          = {file'[f].inode : f \in DOMAIN file'}
    <3>1. {a \in DOMAIN inode' : inode'[a].ref = 1}
            = {a \in DOMAIN inode : inode[a].ref = 1} \cup {NewInode}
      BY <1>a
    <3>2. {file'[f].inode : f \in DOMAIN file'}
            = {file[f].inode : f \in DOMAIN file} \cup {NewInode}
      BY <1>f, SMT
    <3> QED BY <3>1, <3>2 DEF IInv, HandlesSound
  <2>2. ASSUME NEW f \in DOMAIN file
        PROVE  /\ file[f].inode # NewInode
               /\ Region(f, FILE_SIZE) \cap Region(heap_current, FILE_SIZE) = {}
               /\ Region(heap_current, FILE_SIZE) \cap Region(f, FILE_SIZE) = {}
               /\ Region(f, FILE_SIZE) \cap Region(NewInode, INODE_SIZE) = {}
    <3>1. file[f].inode \in DOMAIN inode
      BY DEF IInv, HandlesSound
    <3>2. /\ f \in Int /\ heap_current \in Int /\ NewInode \in Int
          /\ f + FILE_SIZE <= heap_current /\ f + FILE_SIZE <= NewInode
      BY <1>u, NewObjects, Sizes, SMT
    <3> QED BY <3>1, <3>2, <1>u, NewObjects, RegionsApart, Sizes
  <2>3. ASSUME NEW f \in DOMAIN file', NEW g \in DOMAIN file', f # g
        PROVE  /\ file'[f].inode # file'[g].inode
               /\ Region(f, FILE_SIZE) \cap Region(g, FILE_SIZE) = {}
    <3>1. CASE f \in DOMAIN file /\ g \in DOMAIN file
      BY <3>1, <2>3, <1>f DEF IInv, HandlesSound
    <3>2. CASE f = heap_current
      BY <3>2, <2>2, <2>3, <1>f, SMT
    <3>3. CASE g = heap_current
      BY <3>3, <2>2, <2>3, <1>f, SMT
    <3> QED BY <3>1, <3>2, <3>3, <1>f
  <2>4. ASSUME NEW f \in DOMAIN file', NEW a \in DOMAIN inode'
        PROVE  Region(f, FILE_SIZE) \cap Region(a, INODE_SIZE) = {}
    <3>1. CASE f \in DOMAIN file /\ a \in DOMAIN inode
      BY <3>1 DEF IInv, HandlesSound
    <3>2. CASE f \in DOMAIN file /\ a = NewInode
      BY <3>2, <2>2
    <3>3. CASE f = heap_current /\ a \in DOMAIN inode
      <4>1. a \in Int /\ heap_current \in Int /\ a + INODE_SIZE <= heap_current
        BY <3>3, <1>u, NewObjects, SMT
      <4> QED BY <4>1, <3>3, RegionsApart, Sizes
    <3>4. CASE f = heap_current /\ a = NewInode
      <4>1. NewInode \in Int /\ heap_current \in Int
            /\ heap_current + FILE_SIZE <= NewInode
        BY <1>u, NewObjects, SMT
      <4> QED BY <4>1, <3>4, RegionsApart, Sizes
    <3> QED BY <3>1, <3>2, <3>3, <3>4, <1>a, <1>f
  <2> QED BY <2>1, <2>3, <2>4, <1>a DEF HandlesSound
<1>4. Blank'
  BY <1>u DEF IInv, Blank, device
<1> QED BY <1>1, <1>2, <1>3, <1>4 DEF IInv

\* After a refusal the inode is there and not counted.
LEMMA RefusedIInv ==
  ASSUME IInv, NEW n \in Names, OpenRefused(n) PROVE IInv'
<1>0. PICK d \in DOMAIN devices : vfs_create_inode(0, devices[d].ops)
  BY DEF OpenRefused
<1>u. Allocates /\ UNCHANGED <<devices, file, device>>
  BY DEF OpenRefused
<1>a. /\ DOMAIN inode' = DOMAIN inode \cup {NewInode}
      /\ inode'[NewInode].ref = 0
      /\ \A a \in DOMAIN inode : inode'[a] = inode[a]
      /\ next_ino' = next_ino + 1
      /\ heap_current' = NewInode + Aligned(INODE_SIZE)
      /\ \A a \in DOMAIN inode' :
           /\ inode'[a] \in [ino : Nat, ref : {0, 1}, ops : {"testdev", "other"}]
           /\ a \in Addresses
           /\ a + INODE_SIZE <= heap_current' /\ inode'[a].ino < next_ino'
      /\ \A a, b \in DOMAIN inode' : a # b =>
           /\ inode'[a].ino # inode'[b].ino
           /\ Region(a, INODE_SIZE) \cap Region(b, INODE_SIZE) = {}
  BY <1>0, <1>u, DriverType, CreateInode, SMT
<1>h. /\ heap_current' \in 0 .. HEAP_SIZE /\ heap_current' % 8 = 0
      /\ heap_current' \in Nat /\ heap_current \in Nat
      /\ heap_current <= heap_current'
  BY <1>a, <1>u, NewObjects, Sizes, SMT
<1>1. TypeOK'
  <2>1. next_ino' \in Nat
    BY <1>a, SMT DEF IInv, TypeOK
  <2>2. DOMAIN inode' \subseteq Addresses
    BY <1>a
  <2>3. UNCHANGED <<devices, file, testdev_buffer, testdev_len, buf, outside>>
    BY <1>u DEF device
  <2> QED BY <2>1, <2>2, <2>3, <1>a, <1>h DEF IInv, TypeOK
<1>2. Layout'
  <2>1. \A f \in DOMAIN file : f + FILE_SIZE <= heap_current'
    BY <1>h, <1>u, NewObjects, Sizes, SMT
  <2> QED BY <2>1, <1>a, <1>h, <1>u DEF Layout
<1>3. HandlesSound'
  <2>1. {a \in DOMAIN inode' : inode'[a].ref = 1}
          = {a \in DOMAIN inode : inode[a].ref = 1}
    BY <1>a, SMT
  <2>2. ASSUME NEW f \in DOMAIN file, NEW a \in DOMAIN inode'
        PROVE  Region(f, FILE_SIZE) \cap Region(a, INODE_SIZE) = {}
    <3>1. CASE a \in DOMAIN inode
      BY <3>1 DEF IInv, HandlesSound
    <3>2. CASE a = NewInode
      <4>1. f \in Int /\ NewInode \in Int /\ f + FILE_SIZE <= NewInode
        BY <1>u, NewObjects, Sizes, SMT
      <4> QED BY <4>1, <3>2, RegionsApart, Sizes
    <3> QED BY <3>1, <3>2, <1>a
  <2> QED BY <2>1, <2>2, <1>a, <1>u, SMT DEF IInv, HandlesSound
<1>4. Blank'
  BY <1>u DEF IInv, Blank, device
<1> QED BY <1>1, <1>2, <1>3, <1>4 DEF IInv

\* The inode of the closed file is no longer counted, and no other file has it.
LEMMA CloseIInv ==
  ASSUME IInv, NEW f \in DOMAIN file, vfs_close(f) PROVE IInv'
<1> DEFINE x == file[f].inode
<1>x. x \in DOMAIN inode /\ inode[x].ref = 1
  BY DEF IInv, HandlesSound
<1>t. \A a \in DOMAIN inode :
        inode[a] \in [ino : Nat, ref : {0, 1}, ops : {"testdev", "other"}]
  BY DEF IInv, TypeOK
<1>u. /\ inode' = [inode EXCEPT ![x].ref = @ - 1]
      /\ file' = Without(file, f)
      /\ UNCHANGED <<heap_current, next_ino, devices, device>>
  BY DEF vfs_close, vfs_destroy_inode
<1>f. DOMAIN file' = DOMAIN file \ {f} /\ \A g \in DOMAIN file' : file'[g] = file[g]
  BY <1>u DEF Without
<1> HIDE DEF x
<1>a. /\ DOMAIN inode' = DOMAIN inode
      /\ inode'[x].ref = 0 /\ inode'[x].ino = inode[x].ino
      /\ inode'[x].ops = inode[x].ops
      /\ inode'[x] \in [ino : Nat, ref : {0, 1}, ops : {"testdev", "other"}]
      /\ \A a \in DOMAIN inode \ {x} : inode'[a] = inode[a]
  BY <1>u, <1>x, <1>t, SMT
<1>1. TypeOK'
  <2>1. \A a \in DOMAIN inode' :
          inode'[a] \in [ino : Nat, ref : {0, 1}, ops : {"testdev", "other"}]
    BY <1>a, <1>t
  <2>2. \A g \in DOMAIN file' :
          file'[g] \in [inode : Addresses, offset : 0 .. TESTDEV_SIZE]
    BY <1>f DEF IInv, TypeOK
  <2>3. DOMAIN file' \subseteq Addresses /\ DOMAIN inode' \subseteq Addresses
    BY <1>a, <1>f DEF IInv, TypeOK
  <2>4. UNCHANGED <<heap_current, next_ino, devices, testdev_buffer, testdev_len, buf,
                  outside>>
    BY <1>u DEF device
  <2> QED BY <2>1, <2>2, <2>3, <2>4 DEF IInv, TypeOK
<1>2. Layout'
  BY <1>a, <1>f, <1>u DEF IInv, Layout
<1>3. HandlesSound'
  <2>1. {a \in DOMAIN inode' : inode'[a].ref = 1}
          = {a \in DOMAIN inode : inode[a].ref = 1} \ {x}
    BY <1>a, SMT
  <2>2. {file'[g].inode : g \in DOMAIN file'} = {file[g].inode : g \in DOMAIN file} \ {x}
    BY <1>f, SMT DEF IInv, HandlesSound, x
  <2>3. \A a \in DOMAIN inode : inode'[a].ino = inode[a].ino
    BY <1>a
  <2>4. {a \in DOMAIN inode' : inode'[a].ref = 1}
          = {file'[g].inode : g \in DOMAIN file'}
    BY <2>1, <2>2 DEF IInv, HandlesSound
  <2>5. \A g, h \in DOMAIN file' : g # h =>
          /\ file'[g].inode # file'[h].inode
          /\ Region(g, FILE_SIZE) \cap Region(h, FILE_SIZE) = {}
    BY <1>f DEF IInv, HandlesSound
  <2>6. \A a, b \in DOMAIN inode' : a # b =>
          /\ inode'[a].ino # inode'[b].ino
          /\ Region(a, INODE_SIZE) \cap Region(b, INODE_SIZE) = {}
    BY <2>3, <1>a, SMT DEF IInv, HandlesSound
  <2>7. \A g \in DOMAIN file', a \in DOMAIN inode' :
          Region(g, FILE_SIZE) \cap Region(a, INODE_SIZE) = {}
    BY <1>a, <1>f DEF IInv, HandlesSound
  <2> QED BY <2>4, <2>5, <2>6, <2>7 DEF HandlesSound
<1>4. Blank'
  BY <1>u DEF IInv, Blank, device
<1> QED BY <1>1, <1>2, <1>3, <1>4 DEF IInv

\* Read, write and seek move one offset, within the buffer.
LEMMA MoveIInv ==
  ASSUME IInv, NEW f \in DOMAIN file, NEW offset \in 0 .. TESTDEV_SIZE,
         file' = [file EXCEPT ![f].offset = offset],
         testdev_len' \in 0 .. TESTDEV_SIZE,
         testdev_buffer' \in [0 .. TESTDEV_SIZE - 1 -> Chars \cup {Zero}], Blank',
         \E n \in 0 .. TESTDEV_SIZE : buf' \in [1 .. n -> Chars \cup {Zero}],
         UNCHANGED <<devices, objects, outside>>
  PROVE  IInv'
<1>t. \A g \in DOMAIN file :
        file[g] \in [inode : Addresses, offset : 0 .. TESTDEV_SIZE]
  BY DEF IInv, TypeOK
<1>f. /\ DOMAIN file' = DOMAIN file
      /\ file'[f] \in [inode : Addresses, offset : 0 .. TESTDEV_SIZE]
      /\ \A g \in DOMAIN file : file'[g].inode = file[g].inode
      /\ \A g \in DOMAIN file \ {f} : file'[g] = file[g]
  BY <1>t
<1>1. TypeOK'
  <2>1. \A g \in DOMAIN file' :
          file'[g] \in [inode : Addresses, offset : 0 .. TESTDEV_SIZE]
    BY <1>f, <1>t
  <2> QED BY <2>1, <1>f DEF IInv, TypeOK, objects
<1>2. Layout'
  BY <1>f DEF IInv, Layout, objects
<1>3. HandlesSound'
  <2>1. {file'[g].inode : g \in DOMAIN file'} = {file[g].inode : g \in DOMAIN file}
    BY <1>f, SMT
  <2> QED BY <2>1, <1>f, SMT DEF IInv, HandlesSound, objects
<1> QED BY <1>1, <1>2, <1>3 DEF IInv

\* Where a file stands, and that a difference wraps only behind what it is
\* taken from.
LEMMA Differences ==
  ASSUME IInv, NEW f \in DOMAIN file
  PROVE  /\ file[f].offset \in Nat /\ testdev_len \in Nat
         /\ file[f].offset <= TESTDEV_SIZE /\ testdev_len <= TESTDEV_SIZE
         /\ Available(file[f].offset) \in Nat
         /\ file[f].offset <= testdev_len =>
              Available(file[f].offset) = testdev_len - file[f].offset
         /\ Space(file[f].offset) = TESTDEV_SIZE - file[f].offset
<1>1. /\ file[f].offset \in Nat /\ testdev_len \in Nat
      /\ file[f].offset <= TESTDEV_SIZE /\ testdev_len <= TESTDEV_SIZE
  BY Sizes, SMT DEF IInv, TypeOK
<1>2. file[f].offset <= testdev_len =>
        Minus(testdev_len, file[f].offset) = testdev_len - file[f].offset
  BY <1>1, MinusFacts, Sizes, SMT
<1>3. Minus(TESTDEV_SIZE, file[f].offset) = TESTDEV_SIZE - file[f].offset
  BY <1>1, MinusFacts, Sizes, SMT
<1>4. Minus(testdev_len, file[f].offset) \in Nat
  <2>1. WORD \in Nat /\ WORD > 0 /\ testdev_len - file[f].offset \in Int
    BY <1>1, Sizes, SMT
  <2> QED BY <2>1, SMTT(30) DEF Minus
<1> QED BY <1>1, <1>2, <1>3, <1>4 DEF Available, Space

\* A read that is one at all stays within the buffer.
LEMMA ReadIInv ==
  ASSUME IInv, NEW f \in DOMAIN file, NEW count \in Nat, vfs_read(f, count)
  PROVE  IInv'
<1> DEFINE o == file[f].offset
           n == Smaller(count, Available(o))
<1>1. o \in Nat /\ Available(o) \in Nat
  BY Differences
<1>2. n \in Nat /\ o + n <= TESTDEV_SIZE
  BY <1>1, SMT DEF Smaller, vfs_read
<1>3. /\ buf' = [i \in 1 .. n |-> testdev_buffer[o + i - 1]]
      /\ file' = [file EXCEPT ![f].offset = o + n]
      /\ UNCHANGED <<devices, objects, testdev_buffer, testdev_len, outside>>
  BY DEF vfs_read
<1> HIDE DEF o, n
<1>4. /\ testdev_buffer \in [0 .. TESTDEV_SIZE - 1 -> Chars \cup {Zero}]
      /\ testdev_len' \in 0 .. TESTDEV_SIZE /\ Blank'
  BY <1>3 DEF IInv, TypeOK, Blank
<1>5. \A i \in 1 .. n : o + i - 1 \in 0 .. TESTDEV_SIZE - 1
  BY <1>1, <1>2, Sizes, SMT
<1>6. buf' \in [1 .. n -> Chars \cup {Zero}]
  BY <1>3, <1>4, <1>5
<1>7. n \in 0 .. TESTDEV_SIZE /\ o + n \in 0 .. TESTDEV_SIZE
  BY <1>1, <1>2, Sizes, SMT
<1> QED BY <1>3, <1>4, <1>6, <1>7, MoveIInv

\* Where a write leaves its file and the length.
LEMMA WriteEnds ==
  ASSUME IInv, NEW f \in DOMAIN file, NEW m \in Nat
  PROVE  LET n == Smaller(m, Space(file[f].offset))
             end == file[f].offset + n
         IN  /\ n \in Nat /\ n <= m /\ end \in 0 .. TESTDEV_SIZE
             /\ LenAfter(end) \in 0 .. TESTDEV_SIZE
             /\ testdev_len <= LenAfter(end) /\ end <= LenAfter(end)
<1> DEFINE o == file[f].offset
           n == Smaller(m, Space(o))
<1>1. /\ o \in Nat /\ testdev_len \in Nat /\ o <= TESTDEV_SIZE
      /\ testdev_len <= TESTDEV_SIZE /\ Space(o) = TESTDEV_SIZE - o
  BY Differences
<1>2. n \in Nat /\ n <= m /\ o + n <= TESTDEV_SIZE
  BY <1>1, Sizes, SMT DEF Smaller
<1> HIDE DEF o, n
<1>3. /\ o + n \in 0 .. TESTDEV_SIZE /\ LenAfter(o + n) \in 0 .. TESTDEV_SIZE
      /\ testdev_len <= LenAfter(o + n) /\ o + n <= LenAfter(o + n)
  BY <1>1, <1>2, Sizes, SMT DEF LenAfter
<1> QED BY <1>2, <1>3 DEF o, n

\* A write stays within the buffer and takes the length along.
LEMMA WriteIInv ==
  ASSUME IInv, NEW f \in DOMAIN file, NEW data \in Data, vfs_write(f, data)
  PROVE  IInv'
<1> DEFINE o == file[f].offset
           n == Smaller(Len(data), Space(o))
<1>0. PICK m \in 0 .. TESTDEV_SIZE + 1 : data \in [1 .. m -> Chars]
  BY DEF Data
<1>l. Len(data) = m /\ m \in Nat
  BY <1>0, Sizes, SMT
<1>1. o \in Nat /\ testdev_len \in Nat
  BY Differences
<1>2. /\ n \in Nat /\ n <= m /\ o + n \in 0 .. TESTDEV_SIZE
      /\ LenAfter(o + n) \in 0 .. TESTDEV_SIZE
      /\ testdev_len <= LenAfter(o + n) /\ o + n <= LenAfter(o + n)
  BY <1>l, WriteEnds
<1>3. /\ testdev_buffer' = [i \in DOMAIN testdev_buffer |->
                             IF i \in o .. o + n - 1
                             THEN data[i - o + 1] ELSE testdev_buffer[i]]
      /\ file' = [file EXCEPT ![f].offset = o + n]
      /\ testdev_len' = LenAfter(o + n)
      /\ UNCHANGED <<devices, objects, buf, outside>>
  BY DEF vfs_write
<1> HIDE DEF o, n
<1>4. testdev_buffer \in [0 .. TESTDEV_SIZE - 1 -> Chars \cup {Zero}]
  BY DEF IInv, TypeOK
<1>5. \A i \in o .. o + n - 1 : i - o + 1 \in 1 .. m
  BY <1>1, <1>2, <1>l, SMT
<1>6. testdev_buffer' \in [0 .. TESTDEV_SIZE - 1 -> Chars \cup {Zero}]
  BY <1>0, <1>3, <1>4, <1>5
<1>7. Blank'
  <2> SUFFICES ASSUME NEW i \in testdev_len' .. TESTDEV_SIZE - 1
               PROVE  testdev_buffer'[i] = Zero
    BY DEF Blank
  <2>1. /\ i \in 0 .. TESTDEV_SIZE - 1 /\ i \notin o .. o + n - 1
        /\ i \in testdev_len .. TESTDEV_SIZE - 1
    BY <1>1, <1>2, <1>3, Sizes, SMT
  <2> QED BY <2>1, <1>3, <1>4 DEF IInv, Blank
<1>8. \E k \in 0 .. TESTDEV_SIZE : buf' \in [1 .. k -> Chars \cup {Zero}]
  BY <1>3 DEF IInv, TypeOK
<1> QED BY <1>2, <1>3, <1>6, <1>7, <1>8, MoveIInv

\* A seek within the buffer.
LEMMA SeekIInv ==
  ASSUME IInv, NEW f \in DOMAIN file, NEW offset \in Nat, testdev_seek(f, offset)
  PROVE  IInv'
<1>1. /\ file' = [file EXCEPT ![f].offset = offset]
      /\ UNCHANGED <<devices, objects, testdev_buffer, testdev_len, buf, outside>>
  BY DEF testdev_seek, device
<1>2. /\ testdev_len' \in 0 .. TESTDEV_SIZE /\ Blank'
      /\ testdev_buffer' \in [0 .. TESTDEV_SIZE - 1 -> Chars \cup {Zero}]
      /\ \E n \in 0 .. TESTDEV_SIZE : buf' \in [1 .. n -> Chars \cup {Zero}]
  BY <1>1 DEF IInv, TypeOK, Blank
<1>3. offset \in 0 .. TESTDEV_SIZE
  BY Sizes, SMT DEF testdev_seek
<1> QED BY <1>1, <1>2, <1>3, MoveIInv

\* A read that leaves the buffer changes nothing that is modelled.
LEMMA OutsideIInv ==
  ASSUME IInv, NEW f, NEW count, ReadOutside(f, count)
  PROVE  IInv'
<1>1. /\ outside' = TRUE
      /\ UNCHANGED <<devices, objects, file, testdev_buffer, testdev_len, buf>>
  BY DEF ReadOutside
<1>2. TypeOK'
  BY <1>1 DEF IInv, TypeOK, objects
<1>3. Layout' /\ HandlesSound' /\ Blank'
  BY <1>1, SMT DEF IInv, Layout, HandlesSound, Blank, objects
<1> QED BY <1>2, <1>3 DEF IInv

\* Every step keeps the invariant.
LEMMA NextIInv == IInv /\ [Next]_vars => IInv'
<1> SUFFICES ASSUME IInv, [Next]_vars PROVE IInv'
  OBVIOUS
<1>1. ASSUME UNCHANGED vars PROVE IInv'
  <2> USE <1>1 DEF vars
  <2>1. TypeOK'
    BY DEF IInv, TypeOK
  <2>2. Layout'
    BY DEF IInv, Layout
  <2>3. HandlesSound'
    BY SMT DEF IInv, HandlesSound
  <2>4. Blank'
    BY DEF IInv, Blank
  <2> QED BY <2>1, <2>2, <2>3, <2>4 DEF IInv
<1>2. ASSUME NEW size \in OtherSizes, OtherAlloc(size) PROVE IInv'
  <2>1. size \in Nat
    BY VfsAssumption
  <2> QED BY <2>1, <1>2, GrowIInv DEF OtherAlloc
<1>3. ASSUME NEW n \in Names, vfs_register_device(n, "other") PROVE IInv'
  BY <1>3, RegisterIInv
<1>4. ASSUME NEW n \in Names, vfs_open(n) PROVE IInv'
  BY <1>4, OpenIInv
<1>5. ASSUME NEW n \in Names, OpenFails(n) PROVE IInv'
  BY <1>5, <1>1 DEF OpenFails
<1>6. ASSUME NEW n \in Names, OpenRefused(n) PROVE IInv'
  BY <1>6, RefusedIInv
<1>7. ASSUME NEW n \in Names, OpenWithoutInode(n) PROVE IInv'
  <2>1. FILE_SIZE \in Nat
    BY Sizes
  <2> QED BY <2>1, <1>7, GrowIInv DEF OpenWithoutInode, NewInode
<1>8. ASSUME NEW f \in DOMAIN file, vfs_close(f) PROVE IInv'
  BY <1>8, CloseIInv
<1>9. ASSUME NEW f \in DOMAIN file, NEW count \in 0 .. TESTDEV_SIZE + 1,
             vfs_read(f, count)
      PROVE  IInv'
  <2>1. count \in Nat
    BY Sizes, SMT
  <2> QED BY <2>1, <1>9, ReadIInv
<1>10. ASSUME NEW f \in DOMAIN file, NEW data \in Data, vfs_write(f, data)
       PROVE  IInv'
  BY <1>10, WriteIInv
<1>11. ASSUME NEW f \in DOMAIN file, NEW offset \in 0 .. TESTDEV_SIZE + 1,
              testdev_seek(f, offset)
       PROVE  IInv'
  <2>1. offset \in Nat
    BY Sizes, SMT
  <2> QED BY <2>1, <1>11, SeekIInv
<1> QED
  BY <1>1, <1>2, <1>3, <1>4, <1>5, <1>6, <1>7, <1>8, <1>9, <1>10, <1>11, OutsideIInv
  DEF Next, Step

\* All operations of the device files keep IInv.
THEOREM VfsIInv == Spec => []IInv
  BY InitIInv, NextIInv, PTL DEF Spec

\* Addresses stay in the heap, offsets and length in the buffer, the registry
\* within its slots and reference counts at 0 or 1.
THEOREM VfsTypeCorrect == Spec => []TypeOK
<1>1. IInv => TypeOK
  BY DEF IInv
<1> QED BY <1>1, VfsIInv, PTL

\* Open files have inodes of their own, counted once, that overlap nothing, for
\* every heap and every size of the objects.
THEOREM HandlesAlwaysSound == Spec => []HandlesSound
<1>1. IInv => HandlesSound
  BY DEF IInv
<1> QED BY <1>1, VfsIInv, PTL

\* The steps that move an offset: reads and writes move their own file, and a
\* write never takes the length back.
LEMMA PassesAlone ==
  ASSUME IInv, ~outside, Step
  PROVE  PassStep
<1> DEFINE Sought(f) == \E offset \in 0 .. TESTDEV_SIZE : testdev_seek(f, offset)
           Passed == \A f \in DOMAIN file' : Behind(f)' => Behind(f) \/ Sought(f)
<1>t. /\ testdev_len \in Nat
      /\ \A g \in DOMAIN file :
           /\ file[g].offset \in Nat
           /\ file[g] \in [inode : Addresses, offset : 0 .. TESTDEV_SIZE]
  BY Sizes, SMT DEF IInv, TypeOK
<1>1. ASSUME testdev_len' = testdev_len,
             \A g \in DOMAIN file' :
               \/ file'[g].offset = 0
               \/ g \in DOMAIN file /\ file'[g] = file[g]
      PROVE  Passed
  <2> SUFFICES ASSUME NEW g \in DOMAIN file', Behind(g)' PROVE Behind(g)
    OBVIOUS
  <2>1. file'[g].offset > testdev_len
    BY <1>1 DEF Behind
  <2>2. file'[g].offset # 0
    BY <2>1, <1>t, SMT
  <2> QED BY <1>1, <2>1, <2>2 DEF Behind
<1>2. ASSUME NEW f \in DOMAIN file, NEW offset,
             file' = [file EXCEPT ![f].offset = offset]
      PROVE  /\ DOMAIN file' = DOMAIN file /\ file'[f].offset = offset
             /\ \A g \in DOMAIN file \ {f} : file'[g] = file[g]
  BY <1>2, <1>t
<1>3. ASSUME NEW n \in Names, vfs_open(n) PROVE Passed
  <2>1. /\ file' = With(file, heap_current, [inode |-> NewInode, offset |-> 0])
        /\ UNCHANGED device
    BY <1>3 DEF vfs_open
  <2>2. \A g \in DOMAIN file' :
          \/ file'[g] = [inode |-> NewInode, offset |-> 0]
          \/ g \in DOMAIN file /\ file'[g] = file[g]
    BY <2>1 DEF With
  <2>3. \A g \in DOMAIN file' :
          \/ file'[g].offset = 0
          \/ g \in DOMAIN file /\ file'[g] = file[g]
    BY <2>2, SMT
  <2> QED BY <2>1, <2>3, <1>1 DEF device
<1>4. ASSUME NEW f \in DOMAIN file, vfs_close(f) PROVE Passed
  <2>1. file' = Without(file, f) /\ UNCHANGED device
    BY <1>4 DEF vfs_close
  <2>2. \A g \in DOMAIN file' : g \in DOMAIN file /\ file'[g] = file[g]
    BY <2>1 DEF Without
  <2> QED BY <2>1, <2>2, <1>1 DEF device
<1>5. ASSUME UNCHANGED <<file, testdev_len>> PROVE Passed
  BY <1>5, <1>1
<1>6. ASSUME NEW f \in DOMAIN file, NEW count \in 0 .. TESTDEV_SIZE + 1,
             vfs_read(f, count)
      PROVE  Passed
  <2> DEFINE o == file[f].offset
             n == Smaller(count, Available(o))
  <2>1. /\ file' = [file EXCEPT ![f].offset = o + n] /\ testdev_len' = testdev_len
    BY <1>6 DEF vfs_read
  <2>2. o <= testdev_len => o + n <= testdev_len
    BY Differences, <1>t, Sizes, SMT DEF Smaller
  <2>3. o \in Nat /\ o + n \in Nat
    BY Differences, Sizes, SMT DEF Smaller
  <2> HIDE DEF n
  <2>4. /\ DOMAIN file' = DOMAIN file /\ file'[f].offset = o + n
        /\ \A g \in DOMAIN file \ {f} : file'[g] = file[g]
    BY <2>1, <1>2
  <2>5. Behind(f)' => Behind(f)
    BY <2>1, <2>2, <2>3, <2>4, <1>t, SMT DEF Behind
  <2>6. \A g \in DOMAIN file \ {f} : Behind(g)' => Behind(g)
    BY <2>1, <2>4 DEF Behind
  <2> QED BY <2>4, <2>5, <2>6
<1>7. ASSUME NEW f \in DOMAIN file, NEW data \in Data, vfs_write(f, data)
      PROVE  Passed
  <2> DEFINE o == file[f].offset
             n == Smaller(Len(data), Space(o))
  <2>0. Len(data) \in Nat
    <3>1. PICK m \in 0 .. TESTDEV_SIZE + 1 : data \in [1 .. m -> Chars]
      BY DEF Data
    <3> QED BY <3>1, Sizes, SMT
  <2>1. file' = [file EXCEPT ![f].offset = o + n] /\ testdev_len' = LenAfter(o + n)
    BY <1>7 DEF vfs_write
  <2>2. /\ o + n \in 0 .. TESTDEV_SIZE /\ LenAfter(o + n) \in 0 .. TESTDEV_SIZE
        /\ testdev_len <= LenAfter(o + n) /\ o + n <= LenAfter(o + n)
    BY <2>0, WriteEnds
  <2> HIDE DEF n
  <2>3. /\ DOMAIN file' = DOMAIN file /\ file'[f].offset = o + n
        /\ \A g \in DOMAIN file \ {f} : file'[g] = file[g]
    BY <2>1, <1>2
  <2>4. ~Behind(f)'
    BY <2>1, <2>2, <2>3, Sizes, SMT DEF Behind
  <2>5. \A g \in DOMAIN file \ {f} : Behind(g)' => Behind(g)
    BY <2>1, <2>2, <2>3, <1>t, Sizes, SMT DEF Behind
  <2> QED BY <2>3, <2>4, <2>5
<1>8. ASSUME NEW f \in DOMAIN file, NEW offset \in 0 .. TESTDEV_SIZE + 1,
             testdev_seek(f, offset)
      PROVE  Passed
  <2>1. Sought(f)
    <3>1. offset \in 0 .. TESTDEV_SIZE
      BY <1>8, Sizes, SMT DEF testdev_seek
    <3> QED BY <3>1, <1>8
  <2>2. file' = [file EXCEPT ![f].offset = offset] /\ testdev_len' = testdev_len
    BY <1>8 DEF testdev_seek, device
  <2>3. DOMAIN file' = DOMAIN file /\ \A g \in DOMAIN file \ {f} : file'[g] = file[g]
    BY <2>2, <1>2
  <2>4. \A g \in DOMAIN file \ {f} : Behind(g)' => Behind(g)
    BY <2>2, <2>3 DEF Behind
  <2> QED BY <2>1, <2>3, <2>4
<1>9. ASSUME NEW f \in DOMAIN file, NEW count \in 0 .. TESTDEV_SIZE + 1,
             ReadOutside(f, count)
      PROVE  Behind(f)
  <2> DEFINE o == file[f].offset
  <2>1. o + Smaller(count, Available(o)) > TESTDEV_SIZE
    BY <1>9 DEF ReadOutside
  <2>2. o <= testdev_len => o + Smaller(count, Available(o)) <= testdev_len
    BY Differences, <1>t, Sizes, SMT DEF Smaller
  <2>3. /\ o \in Nat /\ testdev_len <= TESTDEV_SIZE
        /\ o + Smaller(count, Available(o)) \in Nat
    BY Differences, Sizes, SMT DEF Smaller
  <2> QED BY <2>1, <2>2, <2>3, <1>t, Sizes, SMT DEF Behind
<1> HIDE DEF Passed
<1>10. Passed
  <2>1. ASSUME NEW size \in OtherSizes, OtherAlloc(size) PROVE Passed
    BY <2>1, <1>5 DEF OtherAlloc, device
  <2>2. ASSUME NEW n \in Names, vfs_register_device(n, "other") PROVE Passed
    BY <2>2, <1>5 DEF vfs_register_device, device
  <2>3. ASSUME NEW n \in Names, OpenFails(n) PROVE Passed
    BY <2>3, <1>5 DEF OpenFails, vars
  <2>4. ASSUME NEW n \in Names, OpenRefused(n) PROVE Passed
    BY <2>4, <1>5 DEF OpenRefused, device
  <2>5. ASSUME NEW n \in Names, OpenWithoutInode(n) PROVE Passed
    BY <2>5, <1>5 DEF OpenWithoutInode, device
  <2>6. ASSUME NEW f, NEW count, ReadOutside(f, count) PROVE Passed
    BY <2>6, <1>5 DEF ReadOutside
  <2> QED BY <2>1, <2>2, <2>3, <2>4, <2>5, <2>6, <1>3, <1>4, <1>6, <1>7, <1>8 DEF Step
<1>11. \/ outside' = outside
       \/ \E f \in DOMAIN file : \E count \in 0 .. TESTDEV_SIZE + 1 : ReadOutside(f, count)
  BY DEF Step, OtherAlloc, vfs_register_device, vfs_open, OpenFails, vars, OpenRefused,
         OpenWithoutInode, vfs_close, vfs_read, vfs_write, testdev_seek, device
<1>12. outside' = outside => ~outside'
  <2> SUFFICES ASSUME outside' = outside PROVE ~outside'
    OBVIOUS
  <2>1. outside \in BOOLEAN
    BY DEF IInv, TypeOK
  <2>2. outside = FALSE
    BY <2>1
  <2>3. outside' = FALSE
    BY <2>2
  <2> QED BY <2>3
<1>13. outside' => \E f \in DOMAIN file : Behind(f)
  BY <1>9, <1>11, <1>12
<1> QED BY <1>10, <1>13 DEF PassStep, Passed

\* Whatever the sizes and the files, a file gets behind the data, where the
\* difference in testdev_read wraps, by a seek of its own only, and only from
\* there does a read leave the buffer.
THEOREM PassesOnlyBySeek == Spec => PassedBySeek
<1>1. IInv /\ [Next]_vars => [PassStep]_vars
  BY PassesAlone DEF Next
<1> QED BY <1>1, VfsIInv, PTL DEF Spec, PassedBySeek

\* A step appends to the registry or leaves it.
LEMMA RegistryGrows ==
  ASSUME IInv, [Next]_vars
  PROVE  \/ devices' = devices
         \/ \E n \in Names : devices' = Registered(n, "other")
<1>1. CASE UNCHANGED vars
  BY <1>1 DEF vars
<1>2. CASE Next
  BY <1>2 DEF Next, Step, OtherAlloc, vfs_register_device, vfs_open, OpenFails,
              vars, OpenRefused, OpenWithoutInode, vfs_close, vfs_read, ReadOutside,
              vfs_write, testdev_seek
<1> QED BY <1>1, <1>2

\* What a name opens stays what it opens, whatever is registered later.
THEOREM LookupsStable == Spec => LookupStable
<1>1. ASSUME IInv, [Next]_vars, NEW n \in Names, NEW d \in DOMAIN devices,
             Finds(n, d)
      PROVE  Finds(n, d)' /\ devices'[d] = devices[d]
  <2>1. /\ d \in DOMAIN devices' /\ d \in Nat
        /\ \A e \in 1 .. d : devices'[e] = devices[e]
    <3>1. CASE devices' = devices
      <4>1. DOMAIN devices = 1 .. Len(devices) /\ Len(devices) \in Nat
        BY <1>1, RegistryDomain
      <4> QED BY <4>1, <3>1, SMT
    <3>2. ASSUME NEW m \in Names, devices' = Registered(m, "other")
          PROVE  /\ d \in DOMAIN devices' /\ d \in Nat
                 /\ \A e \in 1 .. d : devices'[e] = devices[e]
      <4> DEFINE D == [name : Fitting, ops : {"testdev", "other"}]
                 new == [name |-> Stored(m), ops |-> "other"]
      <4>1. devices \in Seq(D)
        BY <1>1 DEF IInv, TypeOK
      <4>2. devices' = Append(devices, new)
        BY <3>2 DEF Registered
      <4> HIDE DEF D, new
      <4>3. d \in 1 .. Len(devices) /\ Len(devices) \in Nat
        BY <4>1, SMT
      <4>4. /\ DOMAIN devices' = 1 .. Len(devices) + 1
            /\ \A e \in 1 .. Len(devices) : devices'[e] = devices[e]
        BY <4>1, <4>2, SMT
      <4> QED BY <4>3, <4>4, SMT
    <3> QED BY <1>1, <3>1, <3>2, RegistryGrows
  <2>2. find_device(n, d)
    BY <1>1 DEF Finds
  <2>3. d >= 1
    BY <1>1, RegistryDomain, SMT
  <2>4. find_device(n, d)'
    BY <2>1, <2>2, <2>3, SMT DEF find_device
  <2> QED BY <2>1, <2>3, <2>4, SMT DEF Finds
<1>2. IInv /\ [Next]_vars =>
        [\A n \in Names, d \in DOMAIN devices :
           Finds(n, d) => Finds(n, d)' /\ devices'[d] = devices[d]]_vars
  BY <1>1
<1> QED BY <1>2, VfsIInv, PTL DEF Spec, LookupStable

-----------------------------------------------------------------------------
(***************************************************************************)
(* The files of testdev are handles on one shared content.                 *)
(***************************************************************************)

Bytes == Chars \cup {Zero}
TestFiles == {g \in DOMAIN file : IsTestdev(g)}
sharedVars == <<Content, Position, buf>>

\* p is a sequence of at most n elements of s, from after the first m.
PartLen(s, m, n) == IF m >= Len(s) THEN 0 ELSE Smaller(n, Len(s) - m)
IsPart(p, S, s, m, n) ==
  /\ p \in Seq(S) /\ Len(p) = PartLen(s, m, n)
  /\ \A i \in 1 .. PartLen(s, m, n) : p[i] = s[m + i]

\* What SharedFile cuts out of a sequence.
LEMMA PartFacts ==
  ASSUME NEW S, NEW s \in Seq(S), NEW m \in Nat, NEW n \in Nat
  PROVE  IsPart(SharedContent!Part(s, m, n), S, s, m, n)
<1> DEFINE k == PartLen(s, m, n)
           e == IF m + n > Len(s) THEN Len(s) ELSE m + n
           p == SubSeq(s, m + 1, e)
<1>1. Len(s) \in Nat
  BY LenProperties
<1>2. SharedContent!Part(s, m, n) = p
  BY DEF SharedContent!Part
<1>3. /\ e \in Int /\ m + 1 \in Int
      /\ k = (IF m + 1 <= e THEN e - (m + 1) + 1 ELSE 0)
      /\ m + 1 <= e => e <= Len(s)
  BY <1>1, SMT DEF Smaller, PartLen
<1> HIDE DEF e, k
<1>4. \A i \in m + 1 .. e : s[i] \in S
  <2> SUFFICES ASSUME NEW i \in m + 1 .. e PROVE s[i] \in S
    OBVIOUS
  <2>1. i \in 1 .. Len(s)
    BY <1>1, <1>3, SMT
  <2> QED BY <2>1, ElementOfSeq
<1>5. /\ p \in Seq(S)
      /\ Len(p) = IF m + 1 <= e THEN e - (m + 1) + 1 ELSE 0
      /\ \A i \in 1 .. e - (m + 1) + 1 : p[i] = s[(m + 1) + i - 1]
  BY <1>3, <1>4, SubSeqProperties, SMT
<1> HIDE DEF p
<1>6. \A i \in 1 .. k : i \in 1 .. e - (m + 1) + 1 /\ (m + 1) + i - 1 = m + i
  BY <1>3, SMT
<1> QED BY <1>2, <1>3, <1>5, <1>6, SMTT(30) DEF IsPart, k

\* The content is a sequence.
LEMMA ContentFacts ==
  ASSUME testdev_len \in 0 .. TESTDEV_SIZE,
         testdev_buffer \in [0 .. TESTDEV_SIZE - 1 -> Bytes]
  PROVE  /\ Content \in Seq(Bytes) /\ Len(Content) = testdev_len
         /\ \A i \in 1 .. testdev_len : Content[i] = testdev_buffer[i - 1]
<1>1. testdev_len \in Nat
  BY Sizes, SMT
<1>2. \A i \in 1 .. testdev_len : testdev_buffer[i - 1] \in Bytes
  BY <1>1, Sizes, SMT
<1>3. Content \in [1 .. testdev_len -> Bytes]
  BY <1>2 DEF Content
<1>4. Content \in Seq(Bytes) /\ Len(Content) = testdev_len
  BY <1>1, <1>3, SMT
<1> QED BY <1>4 DEF Content

\* A step that leaves files, inodes, buffer and length alone changes nothing
\* that the handles show.
LEMMA SharedUnchanged ==
  ASSUME UNCHANGED <<file, testdev_buffer, testdev_len, buf>>,
         \A f \in DOMAIN file : IsTestdev(f)' <=> IsTestdev(f)
  PROVE  UNCHANGED sharedVars
<1>1. Content' = Content /\ buf' = buf
  BY DEF Content
<1>2. TestFiles' = TestFiles
  BY DEF TestFiles
<1>3. Position' = Position
  BY <1>2 DEF Position, TestFiles
<1> QED BY <1>1, <1>3 DEF sharedVars

\* The driver of an open file is the one its inode was created with.
LEMMA FileInode ==
  ASSUME IInv, NEW f \in DOMAIN file
  PROVE  file[f].inode \in DOMAIN inode
  BY DEF IInv, HandlesSound

\* A new file of testdev is a new handle at the beginning.
LEMMA OpenShares ==
  ASSUME IInv, NEW n \in Names, vfs_open(n)
  PROVE  [SharedContent!Next]_sharedVars
<1> DEFINE h == heap_current
<1>0. PICK d \in DOMAIN devices : vfs_create_inode(1, devices[d].ops)
  BY DEF vfs_open
<1>1. Allocates /\ UNCHANGED device /\ file' = With(file, h, [inode |-> NewInode, offset |-> 0])
  BY DEF vfs_open
<1>2. h \in Addresses /\ h \notin DOMAIN file
  BY <1>1, NewObjects
<1>3. devices[d].ops \in {"testdev", "other"}
  BY DriverType
<1>4. /\ inode'[NewInode].ops = devices[d].ops
      /\ \A a \in DOMAIN inode : inode'[a] = inode[a]
  BY <1>0, <1>1, <1>3, CreateInode, SMT
<1> HIDE DEF h
<1>5. /\ DOMAIN file' = DOMAIN file \cup {h}
      /\ file'[h].inode = NewInode /\ file'[h].offset = 0
      /\ \A f \in DOMAIN file : file'[f] = file[f]
  BY <1>1, <1>2 DEF With
<1>6. \A f \in DOMAIN file : IsTestdev(f)' <=> IsTestdev(f)
  BY <1>4, <1>5, FileInode DEF IsTestdev
<1>7. Content' = Content /\ buf' = buf
  BY <1>1 DEF device, Content
<1>8. DOMAIN Position = TestFiles /\ h \notin TestFiles
  BY <1>2 DEF Position, TestFiles
<1>9. CASE devices[d].ops = "testdev"
  <2>1. TestFiles' = TestFiles \cup {h}
    BY <1>4, <1>5, <1>6, <1>9 DEF TestFiles, IsTestdev
  <2>2. Position' = [x \in TestFiles \cup {h} |-> IF x = h THEN 0 ELSE Position[x]]
    BY <2>1, <1>2, <1>5 DEF Position, TestFiles
  <2>3. SharedContent!Open(h)
    BY <2>2, <1>7, <1>8 DEF SharedContent!Open
  <2> QED BY <2>3, <1>2 DEF SharedContent!Next
<1>10. CASE devices[d].ops # "testdev"
  <2>1. TestFiles' = TestFiles
    BY <1>4, <1>5, <1>6, <1>10 DEF TestFiles, IsTestdev
  <2>2. Position' = Position
    BY <2>1, <1>5 DEF Position, TestFiles
  <2> QED BY <2>2, <1>7 DEF sharedVars
<1> QED BY <1>9, <1>10

\* A refused open changes no driver of an open file.
LEMMA RefusedShares ==
  ASSUME IInv, NEW n \in Names, OpenRefused(n)
  PROVE  UNCHANGED sharedVars
<1>0. PICK d \in DOMAIN devices : vfs_create_inode(0, devices[d].ops)
  BY DEF OpenRefused
<1>1. Allocates /\ UNCHANGED <<file, device>>
  BY DEF OpenRefused
<1>2. \A a \in DOMAIN inode : inode'[a] = inode[a]
  BY <1>0, <1>1, DriverType, CreateInode
<1>3. \A f \in DOMAIN file : IsTestdev(f)' <=> IsTestdev(f)
  BY <1>1, <1>2, FileInode DEF IsTestdev
<1> QED BY <1>1, <1>3, SharedUnchanged DEF device

\* A closed file of testdev is a handle less.
LEMMA CloseShares ==
  ASSUME IInv, NEW f \in DOMAIN file, vfs_close(f)
  PROVE  [SharedContent!Next]_sharedVars
<1>1. /\ inode' = [inode EXCEPT ![file[f].inode].ref = @ - 1]
      /\ file' = Without(file, f)
      /\ UNCHANGED device
  BY DEF vfs_close, vfs_destroy_inode
<1>2. /\ DOMAIN file' = DOMAIN file \ {f}
      /\ \A g \in DOMAIN file' : file'[g] = file[g]
  BY <1>1 DEF Without
<1>3. \A a \in DOMAIN inode : inode'[a].ops = inode[a].ops
  <2>1. \A a \in DOMAIN inode :
          inode[a] \in [ino : Nat, ref : {0, 1}, ops : {"testdev", "other"}]
    BY DEF IInv, TypeOK
  <2> QED BY <1>1, <2>1
<1>4. \A g \in DOMAIN file' : IsTestdev(g)' <=> IsTestdev(g)
  BY <1>2, <1>3, FileInode DEF IsTestdev
<1>5. Content' = Content /\ buf' = buf
  BY <1>1 DEF device, Content
<1>6. TestFiles' = TestFiles \ {f}
  BY <1>2, <1>4 DEF TestFiles
<1>7. DOMAIN Position = TestFiles
  BY DEF Position, TestFiles
<1>8. Position' = [x \in TestFiles \ {f} |-> Position[x]]
  BY <1>2, <1>6 DEF Position, TestFiles
<1>9. CASE f \in TestFiles
  <2>1. SharedContent!Close(f)
    BY <1>5, <1>7, <1>8 DEF SharedContent!Close
  <2> QED BY <2>1, <1>7, <1>9 DEF SharedContent!Next
<1>10. CASE f \notin TestFiles
  <2>1. Position' = Position
    BY <1>8, <1>10 DEF Position, TestFiles
  <2> QED BY <2>1, <1>5 DEF sharedVars
<1> QED BY <1>9, <1>10

\* A file whose offset is set moves its handle and no other.
LEMMA MovedHandle ==
  ASSUME IInv, NEW f \in DOMAIN file, IsTestdev(f), NEW offset,
         file' = [file EXCEPT ![f].offset = offset], inode' = inode
  PROVE  /\ Position' = [Position EXCEPT ![f] = offset]
         /\ f \in DOMAIN Position /\ Position[f] = file[f].offset
<1>1. \A g \in DOMAIN file :
        file[g] \in [inode : Addresses, offset : 0 .. TESTDEV_SIZE]
  BY DEF IInv, TypeOK
<1>2. /\ DOMAIN file' = DOMAIN file
      /\ file'[f].offset = offset
      /\ \A g \in DOMAIN file : file'[g].inode = file[g].inode
      /\ \A g \in DOMAIN file \ {f} : file'[g] = file[g]
  BY <1>1
<1>3. TestFiles' = TestFiles /\ f \in TestFiles
  BY <1>2 DEF TestFiles, IsTestdev
<1>4. /\ Position = [g \in TestFiles |-> file[g].offset]
      /\ Position' = [g \in TestFiles |-> file'[g].offset]
  BY <1>3 DEF Position, TestFiles
<1>5. TestFiles \subseteq DOMAIN file
  BY DEF TestFiles
<1> HIDE DEF TestFiles
<1> QED BY <1>2, <1>3, <1>4, <1>5

\* A read copies the part of the content that is there.
LEMMA ReadWithin ==
  ASSUME IInv, NEW f \in DOMAIN file, NEW count \in 0 .. TESTDEV_SIZE + 1,
         vfs_read(f, count), file[f].offset <= testdev_len
  PROVE  SharedContent!Next
<1> DEFINE o == file[f].offset
           n == Smaller(count, Available(o))
           part == SharedContent!Part(Content, o, count)
<1>1. /\ o \in Nat /\ testdev_len \in Nat /\ o <= testdev_len
      /\ testdev_len <= TESTDEV_SIZE /\ Available(o) = testdev_len - o
  BY Differences
<1>2. count \in Nat
  BY Sizes, SMT
<1>3. /\ n \in Nat /\ o + n <= testdev_len
      /\ n = (IF o >= testdev_len THEN 0 ELSE Smaller(count, testdev_len - o))
  BY <1>1, <1>2, SMT DEF Smaller
<1>4. /\ buf' = [i \in 1 .. n |-> testdev_buffer[o + i - 1]]
      /\ file' = [file EXCEPT ![f].offset = o + n]
      /\ IsTestdev(f) /\ UNCHANGED <<inode, testdev_buffer, testdev_len>>
  BY DEF vfs_read, objects
<1> HIDE DEF n
<1>5. /\ Position' = [Position EXCEPT ![f] = o + n]
      /\ f \in DOMAIN Position /\ Position[f] = o
  BY <1>4, MovedHandle
<1> HIDE DEF o
<1>6. /\ Content \in Seq(Bytes) /\ Len(Content) = testdev_len
      /\ \A i \in 1 .. testdev_len : Content[i] = testdev_buffer[i - 1]
  BY ContentFacts DEF IInv, TypeOK, Bytes
<1>7. /\ part \in Seq(Bytes) /\ Len(part) = n
      /\ \A i \in 1 .. n : part[i] = Content[o + i]
  <2>1. n = PartLen(Content, o, count)
    BY <1>3, <1>6 DEF PartLen
  <2>2. IsPart(part, Bytes, Content, o, count)
    BY <1>1, <1>2, <1>6, PartFacts
  <2> QED BY <2>1, <2>2 DEF IsPart
<1> HIDE DEF part
<1>8. \A i \in 1 .. n : o + i \in 1 .. testdev_len /\ (o + i) - 1 = o + i - 1
  BY <1>1, <1>3, SMT
<1>9. \A i \in 1 .. n : part[i] = testdev_buffer[o + i - 1]
  BY <1>6, <1>7, <1>8
<1>10. DOMAIN part = 1 .. n /\ part = [i \in DOMAIN part |-> part[i]]
  BY <1>7, LenProperties
<1>11. buf' = part
  BY <1>4, <1>9, <1>10
<1>12. Content' = Content
  BY <1>4 DEF Content
<1>13. SharedContent!Read(f, count)
  BY <1>1, <1>5, <1>6, <1>7, <1>11, <1>12 DEF SharedContent!Read, part, o
<1> QED BY <1>5, <1>13 DEF SharedContent!Next

\* Behind the content a read finds the buffer as it was at boot.
LEMMA ReadBehind ==
  ASSUME IInv, NEW f \in DOMAIN file, NEW count \in 0 .. TESTDEV_SIZE + 1,
         vfs_read(f, count), ~(file[f].offset <= testdev_len)
  PROVE  SharedContent!Next
<1> DEFINE o == file[f].offset
           n == Smaller(count, Available(o))
<1>1. /\ o \in Nat /\ testdev_len \in Nat /\ o > testdev_len /\ Available(o) \in Nat
  BY Differences, SMT
<1>2. n \in 0 .. TESTDEV_SIZE + 1 /\ n \in Nat /\ o + n <= TESTDEV_SIZE
  BY <1>1, Sizes, SMT DEF Smaller, vfs_read
<1>3. /\ buf' = [i \in 1 .. n |-> testdev_buffer[o + i - 1]]
      /\ file' = [file EXCEPT ![f].offset = o + n]
      /\ IsTestdev(f) /\ UNCHANGED <<inode, testdev_buffer, testdev_len>>
  BY DEF vfs_read, objects
<1> HIDE DEF n
<1>4. /\ Position' = [Position EXCEPT ![f] = o + n]
      /\ f \in DOMAIN Position /\ Position[f] = o
  BY <1>3, MovedHandle
<1> HIDE DEF o
<1>5. \A i \in 1 .. n : o + i - 1 \in testdev_len .. TESTDEV_SIZE - 1
  BY <1>1, <1>2, Sizes, SMT
<1>6. buf' = [i \in 1 .. n |-> Zero]
  BY <1>3, <1>5 DEF IInv, Blank
<1>7. Len(buf') = n
  BY <1>2, <1>6, SMT
<1>8. Content' = Content /\ Len(Content) = testdev_len
  <2>1. Content' = Content
    BY <1>3 DEF Content
  <2>2. Len(Content) = testdev_len
    BY ContentFacts DEF IInv, TypeOK, Bytes
  <2> QED BY <2>1, <2>2
<1>9. SharedContent!Read(f, n)
  BY <1>1, <1>2, <1>4, <1>6, <1>7, <1>8 DEF SharedContent!Read
<1> QED BY <1>2, <1>4, <1>9 DEF SharedContent!Next

\* A read is one of the shared content, wherever its file stands.
LEMMA ReadShares ==
  ASSUME IInv, NEW f \in DOMAIN file, NEW count \in 0 .. TESTDEV_SIZE + 1,
         vfs_read(f, count)
  PROVE  SharedContent!Next
  BY ReadWithin, ReadBehind

\* What a handle finds up to its position is what the buffer holds there.
LEMMA PaddedFacts ==
  ASSUME IInv, NEW pos \in Nat, pos <= TESTDEV_SIZE
  PROVE  LET p == SharedContent!Padded(pos) IN
           /\ p \in Seq(Bytes) /\ Len(p) \in Nat /\ pos <= Len(p)
           /\ \A i \in 1 .. pos : p[i] = testdev_buffer[i - 1]
<1> DEFINE gap == [i \in 1 .. pos - Len(Content) |-> Zero]
           p == Content \o gap
           k == IF pos > testdev_len THEN pos - testdev_len ELSE 0
<1>1. /\ Content \in Seq(Bytes) /\ Len(Content) = testdev_len
      /\ \A i \in 1 .. testdev_len : Content[i] = testdev_buffer[i - 1]
  BY ContentFacts DEF IInv, TypeOK, Bytes
<1>2. testdev_len \in Nat /\ k \in Nat /\ 1 .. pos - testdev_len = 1 .. k
  BY Sizes, SMT DEF IInv, TypeOK
<1> HIDE DEF k
<1>3. gap = [i \in 1 .. k |-> Zero]
  BY <1>1, <1>2
<1> HIDE DEF gap
<1>4. gap \in Seq(Bytes) /\ Len(gap) = k /\ \A i \in 1 .. k : gap[i] = Zero
  BY <1>2, <1>3, SMT DEF Bytes
<1>c. \A q, t \in Seq(Bytes) :
        /\ q \o t \in Seq(Bytes) /\ Len(q \o t) = Len(q) + Len(t)
        /\ \A i \in 1 .. Len(q) + Len(t) :
             (q \o t)[i] = IF i <= Len(q) THEN q[i] ELSE t[i - Len(q)]
  BY ConcatProperties
<1>5. /\ p \in Seq(Bytes) /\ Len(p) = testdev_len + k
      /\ \A i \in 1 .. testdev_len + k :
           p[i] = IF i <= testdev_len THEN Content[i] ELSE gap[i - testdev_len]
  BY <1>1, <1>4, <1>c
<1>6. SharedContent!Padded(pos) = p
  BY DEF SharedContent!Padded, gap
<1> HIDE DEF p
<1>7. pos <= testdev_len + k /\ testdev_len + k \in Nat
  BY <1>2, SMT DEF k
<1>8. ASSUME NEW i \in 1 .. pos PROVE p[i] = testdev_buffer[i - 1]
  <2>1. i \in 1 .. testdev_len + k
    BY <1>2, <1>7, SMT
  <2>2. CASE i <= testdev_len
    <3>1. i \in 1 .. testdev_len
      BY <2>2, <1>2, SMT
    <3> QED BY <3>1, <2>1, <2>2, <1>1, <1>5
  <2>3. CASE ~(i <= testdev_len)
    <3>1. i - testdev_len \in 1 .. k /\ i - 1 \in testdev_len .. TESTDEV_SIZE - 1
      BY <2>1, <2>3, <1>2, Sizes, SMT
    <3>2. p[i] = Zero
      BY <3>1, <2>1, <2>3, <1>4, <1>5
    <3> QED BY <3>1, <3>2 DEF IInv, Blank
  <2> QED BY <2>2, <2>3
<1> QED BY <1>5, <1>6, <1>7, <1>8

\* s is a, then b, then c.
IsPieces(s, S, a, b, c) ==
  /\ s \in Seq(S) /\ Len(s) = Len(a) + Len(b) + Len(c)
  /\ \A i \in 1 .. Len(a) + Len(b) + Len(c) : s[i] =
       IF i <= Len(a) THEN a[i]
       ELSE IF i <= Len(a) + Len(b) THEN b[i - Len(a)]
       ELSE c[i - (Len(a) + Len(b))]

\* Three pieces one after the other.
LEMMA ThreePieces ==
  ASSUME NEW S, NEW a \in Seq(S), NEW b \in Seq(S), NEW c \in Seq(S)
  PROVE  IsPieces(a \o b \o c, S, a, b, c)
<1> DEFINE k == Len(a)
           l == Len(b)
           m == Len(c)
<1>0. k \in Nat /\ l \in Nat /\ m \in Nat
  BY LenProperties
<1>c. \A p, q \in Seq(S) :
        /\ p \o q \in Seq(S) /\ Len(p \o q) = Len(p) + Len(q)
        /\ \A i \in 1 .. Len(p) + Len(q) :
             (p \o q)[i] = IF i <= Len(p) THEN p[i] ELSE q[i - Len(p)]
  BY ConcatProperties
<1> DEFINE d == a \o b
<1>1. /\ d \in Seq(S) /\ Len(d) = k + l
      /\ \A i \in 1 .. k + l : d[i] = IF i <= k THEN a[i] ELSE b[i - k]
  BY <1>c
<1> HIDE DEF d
<1>2. /\ d \o c \in Seq(S) /\ Len(d \o c) = Len(d) + Len(c)
      /\ \A i \in 1 .. Len(d) + Len(c) :
           (d \o c)[i] = IF i <= Len(d) THEN d[i] ELSE c[i - Len(d)]
  BY <1>1, <1>c
<1> DEFINE s == d \o c
<1> HIDE DEF k, l, m, s
<1>3. /\ s \in Seq(S) /\ Len(s) = k + l + m
      /\ \A i \in 1 .. k + l + m : s[i] = IF i <= k + l THEN d[i] ELSE c[i - (k + l)]
  BY <1>0, <1>1, <1>2 DEF m, s
<1>4. \A i \in 1 .. k + l + m :
        s[i] = IF i <= k THEN a[i]
               ELSE IF i <= k + l THEN b[i - k] ELSE c[i - (k + l)]
  BY <1>0, <1>1, <1>3, SMTT(30)
<1> QED BY <1>3, <1>4 DEF IsPieces, k, l, m, s, d

\* What fits of the data replaces what it covers and extends the content.
LEMMA WriteShares ==
  ASSUME IInv, NEW f \in DOMAIN file, NEW data \in Data, vfs_write(f, data)
  PROVE  SharedContent!Next
<1> DEFINE o == file[f].offset
           n == Smaller(Len(data), Space(o))
           z == IF o + n >= testdev_len THEN 0 ELSE testdev_len - (o + n)
           padded == SharedContent!Padded(o)
           before == SharedContent!Part(padded, 0, o)
           written == SharedContent!Part(data, 0, TESTDEV_SIZE - o)
           after == SharedContent!Part(Content, o + n, TESTDEV_SIZE)
           all == before \o written \o after
<1>0. PICK m \in 0 .. TESTDEV_SIZE + 1 : data \in [1 .. m -> Chars]
  BY DEF Data
<1>l. Len(data) = m /\ m \in Nat /\ data \in Seq(Chars) /\ TESTDEV_SIZE \in Nat
  BY <1>0, Sizes, SMT
<1>1. /\ o \in Nat /\ testdev_len \in Nat /\ o <= TESTDEV_SIZE
      /\ testdev_len <= TESTDEV_SIZE /\ Space(o) = TESTDEV_SIZE - o
  BY Differences
<1>2. /\ n \in Nat /\ n <= m /\ o + n <= TESTDEV_SIZE /\ z \in Nat
      /\ TESTDEV_SIZE - o \in Nat
      /\ n = (IF 0 >= m THEN 0 ELSE Smaller(TESTDEV_SIZE - o, m - 0))
      /\ z = (IF o + n >= testdev_len THEN 0
              ELSE Smaller(TESTDEV_SIZE, testdev_len - (o + n)))
  BY <1>1, <1>l, SMT DEF Smaller
<1>3. /\ testdev_buffer' = [i \in DOMAIN testdev_buffer |->
                             IF i \in o .. o + n - 1
                             THEN data[i - o + 1] ELSE testdev_buffer[i]]
      /\ file' = [file EXCEPT ![f].offset = o + n]
      /\ testdev_len' = LenAfter(o + n)
      /\ IsTestdev(f) /\ UNCHANGED <<inode, buf>>
  BY DEF vfs_write, objects
<1> HIDE DEF n
<1>4. /\ Position' = [Position EXCEPT ![f] = o + n]
      /\ f \in DOMAIN Position /\ Position[f] = o
  BY <1>3, MovedHandle
<1> HIDE DEF o
<1>5. testdev_len' = o + n + z
  BY <1>1, <1>2, <1>3, SMT DEF LenAfter
<1> HIDE DEF z
<1>6. /\ testdev_buffer \in [0 .. TESTDEV_SIZE - 1 -> Bytes]
      /\ testdev_len \in 0 .. TESTDEV_SIZE
  BY DEF IInv, TypeOK, Bytes
<1>7. /\ testdev_buffer' \in [0 .. TESTDEV_SIZE - 1 -> Bytes]
      /\ testdev_len' \in 0 .. TESTDEV_SIZE
  BY WriteIInv DEF IInv, TypeOK, Bytes
<1>8. /\ Content \in Seq(Bytes) /\ Len(Content) = testdev_len
      /\ \A i \in 1 .. testdev_len : Content[i] = testdev_buffer[i - 1]
  BY <1>6, ContentFacts
<1>9. /\ Content' \in Seq(Bytes) /\ Len(Content') = testdev_len'
      /\ \A i \in 1 .. testdev_len' : Content'[i] = testdev_buffer'[i - 1]
  <2>1. testdev_len' \in Nat
    BY <1>7, <1>l, SMT
  <2>2. \A i \in 1 .. testdev_len' : testdev_buffer'[i - 1] \in Bytes
    BY <2>1, <1>7, <1>l, SMT
  <2>3. Content' \in [1 .. testdev_len' -> Bytes]
    BY <2>2 DEF Content
  <2>4. Content' \in Seq(Bytes) /\ Len(Content') = testdev_len'
    BY <2>1, <2>3, SMT
  <2> QED BY <2>4 DEF Content
<1>10. /\ before \in Seq(Bytes) /\ Len(before) = o
       /\ \A i \in 1 .. o : before[i] = testdev_buffer[i - 1]
  <2>1. /\ padded \in Seq(Bytes) /\ Len(padded) \in Nat /\ o <= Len(padded)
        /\ \A i \in 1 .. o : padded[i] = testdev_buffer[i - 1]
    BY <1>1, PaddedFacts
  <2>2. IsPart(before, Bytes, padded, 0, o)
    BY <1>1, <2>1, PartFacts
  <2> HIDE DEF padded, before
  <2>3. o = PartLen(padded, 0, o)
    BY <1>1, <2>1, SMT DEF PartLen, Smaller
  <2>4. \A i \in 1 .. o : 0 + i = i
    BY <1>1, SMT
  <2> QED BY <2>1, <2>2, <2>3, <2>4 DEF IsPart
<1>11. /\ written \in Seq(Chars) /\ Len(written) = n
       /\ \A i \in 1 .. n : written[i] = data[0 + i]
  <2>1. n = PartLen(data, 0, TESTDEV_SIZE - o)
    BY <1>2, <1>l DEF PartLen
  <2>2. IsPart(written, Chars, data, 0, TESTDEV_SIZE - o)
    BY <1>2, <1>l, PartFacts
  <2> QED BY <2>1, <2>2 DEF IsPart
<1>12. /\ after \in Seq(Bytes) /\ Len(after) = z
       /\ \A i \in 1 .. z : after[i] = Content[o + n + i]
  <2>1. o + n \in Nat
    BY <1>1, <1>2, SMT
  <2>2. z = PartLen(Content, o + n, TESTDEV_SIZE)
    BY <1>2, <1>8 DEF PartLen
  <2>3. IsPart(after, Bytes, Content, o + n, TESTDEV_SIZE)
    BY <2>1, <1>l, <1>8, PartFacts
  <2> QED BY <2>2, <2>3 DEF IsPart
<1> HIDE DEF before, written, after
<1>13. written \in Seq(Bytes)
  BY <1>11, SMT DEF Bytes
<1>14. /\ all \in Seq(Bytes) /\ Len(all) = o + n + z
       /\ \A i \in 1 .. o + n + z : all[i] =
            IF i <= o THEN before[i]
            ELSE IF i <= o + n THEN written[i - o] ELSE after[i - (o + n)]
  <2>1. IsPieces(all, Bytes, before, written, after)
    BY <1>10, <1>12, <1>13, ThreePieces
  <2> HIDE DEF all
  <2> QED BY <2>1, <1>10, <1>11, <1>12 DEF IsPieces
<1> HIDE DEF all
<1>15. ASSUME NEW i \in 1 .. o + n + z PROVE Content'[i] = all[i]
  <2>0. i \in Nat /\ i >= 1 /\ i <= o + n + z
    BY <1>1, <1>2, SMT
  <2>1. i - 1 \in DOMAIN testdev_buffer /\ i \in 1 .. testdev_len'
    BY <2>0, <1>1, <1>2, <1>5, <1>6, <1>7, <1>l, SMT
  <2>2. Content'[i] = IF i - 1 \in o .. o + n - 1
                      THEN data[(i - 1) - o + 1] ELSE testdev_buffer[i - 1]
    BY <2>1, <1>3, <1>9
  <2>3. CASE i <= o
    <3>1. all[i] = before[i]
      BY <2>3, <1>14
    <3>2. i \in 1 .. o /\ i - 1 \notin o .. o + n - 1
      BY <2>0, <2>3, <1>1, <1>2, SMT
    <3> QED BY <3>1, <3>2, <2>2, <1>10
  <2>4. CASE ~(i <= o) /\ i <= o + n
    <3>1. all[i] = written[i - o]
      BY <2>4, <1>14
    <3>2. i - o \in 1 .. n /\ 0 + (i - o) = (i - 1) - o + 1
          /\ i - 1 \in o .. o + n - 1
      BY <2>0, <2>4, <1>1, <1>2, SMT
    <3> QED BY <3>1, <3>2, <2>2, <1>11
  <2>5. CASE ~(i <= o + n)
    <3>1. all[i] = after[i - (o + n)]
      BY <2>5, <2>0, <1>1, <1>2, <1>14, SMT
    <3>2. i - (o + n) \in 1 .. z /\ o + n + (i - (o + n)) = i
          /\ i - 1 \notin o .. o + n - 1
      BY <2>0, <2>5, <1>1, <1>2, SMT
    <3>3. i \in 1 .. testdev_len
      BY <2>0, <2>5, <1>1, <1>2, SMT DEF z
    <3> QED BY <3>1, <3>2, <3>3, <2>2, <1>8, <1>12, SMT
  <2> QED BY <2>3, <2>4, <2>5
<1>16. Content' = all
  <2>1. Len(Content') = Len(all) /\ \A i \in 1 .. Len(Content') : Content'[i] = all[i]
    BY <1>5, <1>9, <1>14, <1>15
  <2> QED BY <2>1, <1>9, <1>14, SeqEqual
<1>17. SharedContent!Write(f, data)
  BY <1>3, <1>4, <1>11, <1>16 DEF SharedContent!Write, all, padded, before, written,
                                 after
<1>18. data \in SharedContent!Data
  BY DEF Data, SharedContent!Data
<1> QED BY <1>4, <1>17, <1>18 DEF SharedContent!Next

\* A seek moves one handle.
LEMMA SeekShares ==
  ASSUME IInv, NEW f \in DOMAIN file, NEW offset \in 0 .. TESTDEV_SIZE + 1,
         testdev_seek(f, offset)
  PROVE  SharedContent!Next
<1>1. /\ file' = [file EXCEPT ![f].offset = offset]
      /\ IsTestdev(f) /\ UNCHANGED <<inode, testdev_buffer, testdev_len, buf>>
  BY DEF testdev_seek, device, objects
<1>2. /\ Position' = [Position EXCEPT ![f] = offset]
      /\ f \in DOMAIN Position
  BY <1>1, MovedHandle
<1>3. Content' = Content
  BY <1>1 DEF Content
<1>4. offset \in 0 .. TESTDEV_SIZE
  BY Sizes, SMT DEF testdev_seek
<1>5. SharedContent!Seek(f, offset)
  BY <1>1, <1>2, <1>3, <1>4 DEF SharedContent!Seek
<1> QED BY <1>2, <1>4, <1>5 DEF SharedContent!Next

\* Every step of the device files is one of the shared content or none.
LEMMA NextShares == IInv /\ [Next]_vars => [SharedContent!Next]_sharedVars
<1> SUFFICES ASSUME IInv, [Next]_vars PROVE [SharedContent!Next]_sharedVars
  OBVIOUS
<1>1. ASSUME UNCHANGED <<inode, file, testdev_buffer, testdev_len, buf>>
      PROVE  UNCHANGED sharedVars
  <2>1. \A f \in DOMAIN file : IsTestdev(f)' <=> IsTestdev(f)
    BY <1>1 DEF IsTestdev
  <2> QED BY <1>1, <2>1, SharedUnchanged
<1>2. CASE UNCHANGED vars
  BY <1>1, <1>2 DEF vars, device
<1>3. ASSUME NEW size \in OtherSizes, OtherAlloc(size) PROVE UNCHANGED sharedVars
  BY <1>1, <1>3 DEF OtherAlloc, device
<1>4. ASSUME NEW n \in Names, vfs_register_device(n, "other")
      PROVE  UNCHANGED sharedVars
  BY <1>1, <1>4 DEF vfs_register_device, objects, device
<1>5. ASSUME NEW n \in Names, OpenFails(n) PROVE UNCHANGED sharedVars
  BY <1>1, <1>5 DEF OpenFails, vars, device
<1>6. ASSUME NEW n \in Names, OpenWithoutInode(n) PROVE UNCHANGED sharedVars
  BY <1>1, <1>6 DEF OpenWithoutInode, device
<1>7. ASSUME NEW f, NEW count, ReadOutside(f, count) PROVE UNCHANGED sharedVars
  BY <1>1, <1>7 DEF ReadOutside, objects
<1> QED
  BY <1>2, <1>3, <1>4, <1>5, <1>6, <1>7, OpenShares, RefusedShares, CloseShares,
     ReadShares, WriteShares, SeekShares DEF Next, Step

\* At boot the content is empty and there are no handles.
LEMMA InitShares == Init => SharedContent!Init
<1> SUFFICES ASSUME Init PROVE SharedContent!Init
  OBVIOUS
<1>1. testdev_len = 0 /\ file = <<>> /\ buf = <<>>
  BY DEF Init
<1>2. Content = <<>>
  BY <1>1, SMT DEF Content
<1>3. Position = <<>>
  BY <1>1, SMT DEF Position
<1> QED BY <1>1, <1>2, <1>3 DEF SharedContent!Init

\* Whatever the sizes, the open files of testdev are handles on one content:
\* no interleaving of opens, reads, writes, seeks and closes shows a reader
\* anything but what was last written at its position, or zeros where a seek
\* took it past the data.
THEOREM SharedFileImplemented == Spec => ImplementsSharedFile
<1>1. Init => SharedContent!Init
  BY InitShares
<1>2. IInv /\ [Next]_vars => [SharedContent!Next]_(SharedContent!vars)
  BY NextShares DEF sharedVars, SharedContent!vars
<1> QED BY <1>1, <1>2, VfsIInv, PTL DEF Spec, ImplementsSharedFile, SharedContent!Spec

=============================================================================
