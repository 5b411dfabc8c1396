-------------------------------- MODULE Vfs --------------------------------
(***************************************************************************)
(* The device files: the registry and the open files of kernel/fs/vfs.c,   *)
(* the driver drivers/testdev/testdev.c behind them, and the heap of       *)
(* kernel/mm/mm.c that files and inodes are taken from.  Addresses count   *)
(* bytes from the start of the heap.  A second driver stands for those     *)
(* that are not in the repository: it has an open that may fail, and no    *)
(* other operation.                                                        *)
(***************************************************************************)
EXTENDS Names, Integers, Sequences, FiniteSets

CONSTANTS
  MAX_DEVICES,
  TESTDEV_SIZE,
  HEAP_SIZE,    \* a multiple of 8
  FILE_SIZE,    \* sizeof(file_t)
  INODE_SIZE,   \* sizeof(inode_t)
  OtherSizes,   \* what the rest of the kernel asks kmalloc for
  WORD,         \* 2^32
  Chars,
  SkipSlash     \* a name without its leading slash, or as it is if it has none

ASSUME VfsAssumption ==
  /\ {MAX_DEVICES, TESTDEV_SIZE, FILE_SIZE, INODE_SIZE} \subseteq Nat \ {0}
  /\ HEAP_SIZE \in Nat /\ OtherSizes \subseteq Nat
  /\ WORD \in Nat /\ TESTDEV_SIZE < WORD
  /\ "testdev" \in Heads
  /\ "zero" \notin Chars
  /\ SkipSlash \in [Names -> Names]

Zero == "zero"  \* what the buffer holds at boot

VARIABLES
  heap_current,
  devices,       \* the used slots of the registry
  next_ino,
  inode,         \* at its address, from vfs_create_inode on
  file,          \* at its address, from vfs_open to vfs_close
  testdev_buffer,
  testdev_len,
  buf,           \* what the last read copied to its caller
  outside        \* a read has left testdev_buffer

device == <<testdev_buffer, testdev_len, buf, outside>>
objects == <<heap_current, next_ino, inode>>
vars == <<heap_current, devices, next_ino, inode, file, testdev_buffer,
          testdev_len, buf, outside>>

\* f with value v at a.
With(f, a, v) == [x \in DOMAIN f \cup {a} |-> IF x = a THEN v ELSE f[x]]
Without(f, a) == [x \in DOMAIN f \ {a} |-> f[x]]

Smaller(a, b) == IF a < b THEN a ELSE b

\* uint32_t subtraction.
Minus(a, b) == (a - b) % WORD

Init ==
  /\ heap_current = 0
  /\ devices = <<[name |-> [head |-> "testdev", tail |-> "none"], ops |-> "testdev"]>>
  /\ next_ino = 1
  /\ inode = <<>>
  /\ file = <<>>
  /\ testdev_buffer = [i \in 0 .. TESTDEV_SIZE - 1 |-> Zero]
  /\ testdev_len = 0
  /\ buf = <<>>
  /\ outside = FALSE

-----------------------------------------------------------------------------
\* kmalloc hands out the next Aligned(size) bytes if they end within the heap;
\* kfree does nothing.
Aligned(size) == 8 * ((size + 7) \div 8)
kmalloc(start, size) == size # 0 /\ start + Aligned(size) <= HEAP_SIZE

OtherAlloc(size) ==
  /\ kmalloc(heap_current, size)
  /\ heap_current' = heap_current + Aligned(size)
  /\ UNCHANGED <<devices, next_ino, inode, file, device>>

-----------------------------------------------------------------------------
\* Mutant: a device is entered before the others.
Registered_first(n, ops) == <<[name |-> Stored(n), ops |-> ops]>> \o devices

\* The next free slot.
Registered(n, ops) == Append(devices, [name |-> Stored(n), ops |-> ops])

\* Returns -1 and changes nothing if there is no free slot.
vfs_register_device(n, ops) ==
  /\ Len(devices) < MAX_DEVICES
  /\ devices' = Registered(n, ops)
  /\ UNCHANGED <<objects, file, device>>

\* Slot d is the first of that name.
find_device(n, d) ==
  /\ Matches(devices[d].name, n)
  /\ \A e \in 1 .. d - 1 : ~Matches(devices[e].name, n)

\* The file and the inode of a call of vfs_open that gets both.
NewInode == heap_current + Aligned(FILE_SIZE)
Allocates == kmalloc(heap_current, FILE_SIZE) /\ kmalloc(NewInode, INODE_SIZE)

\* vfs_create_inode, with the reference count and operations that vfs_open leaves.
vfs_create_inode(ref, ops) ==
  /\ inode' = With(inode, NewInode, [ino |-> next_ino, ref |-> ref, ops |-> ops])
  /\ next_ino' = next_ino + 1
  /\ heap_current' = NewInode + Aligned(INODE_SIZE)

\* vfs_open looks for the path without its leading slash.
Opens(path, d) == d \in DOMAIN devices /\ find_device(SkipSlash[path], d)

\* The name is not found, or the file does not fit in the heap.
OpenFails(path) ==
  /\ \/ ~\E d \in DOMAIN devices : Opens(path, d)
     \/ ~kmalloc(heap_current, FILE_SIZE)
  /\ UNCHANGED vars

\* The device accepts the new file.
vfs_open(path) ==
  /\ Allocates
  /\ \E d \in DOMAIN devices :
       /\ Opens(path, d)
       /\ vfs_create_inode(1, devices[d].ops)
  /\ file' = With(file, heap_current, [inode |-> NewInode, offset |-> 0])
  /\ UNCHANGED <<devices, device>>

\* The device refuses: the inode is destroyed and the file freed.
OpenRefused(path) ==
  /\ Allocates
  /\ \E d \in DOMAIN devices :
       /\ Opens(path, d)
       /\ devices[d].ops # "testdev"
       /\ vfs_create_inode(0, devices[d].ops)
  /\ UNCHANGED <<devices, file, device>>

\* The file fits in the heap and the inode does not: the file is freed, which
\* gives nothing back.
OpenWithoutInode(path) ==
  /\ kmalloc(heap_current, FILE_SIZE) /\ ~Allocates
  /\ \E d \in DOMAIN devices : Opens(path, d)
  /\ heap_current' = NewInode
  /\ UNCHANGED <<devices, next_ino, inode, file, device>>

\* Mutant: the inode keeps its reference.
vfs_close_kept(f) ==
  /\ file' = Without(file, f)
  /\ UNCHANGED <<devices, objects, device>>

\* A reference less; the inode of the last one is freed, which does nothing.
vfs_destroy_inode(a) == inode' = [inode EXCEPT ![a].ref = @ - 1]

\* The close operation of testdev does nothing.
vfs_close(f) ==
  /\ vfs_destroy_inode(file[f].inode)
  /\ file' = Without(file, f)
  /\ UNCHANGED <<heap_current, next_ino, devices, device>>

-----------------------------------------------------------------------------
\* A file of a driver without the operation returns -1 and nothing changes.
IsTestdev(f) == inode[file[f].inode].ops = "testdev"

\* Mutants: a read may go on to the end of the buffer; a write one further.
Available_all(offset) == Minus(TESTDEV_SIZE, offset)
Space_more(offset) == Minus(TESTDEV_SIZE + 1, offset)

Available(offset) == Minus(testdev_len, offset)
Space(offset) == Minus(TESTDEV_SIZE, offset)

\* vfs_read and testdev_read; at the end of the data nothing is copied.
\* Behind it the difference wraps, and the read goes on as long as the buffer.
vfs_read(f, count) ==
  LET offset == file[f].offset
      n == Smaller(count, Available(offset)) IN
  /\ IsTestdev(f)
  /\ offset + n <= TESTDEV_SIZE
  /\ buf' = [i \in 1 .. n |-> testdev_buffer[offset + i - 1]]
  /\ file' = [file EXCEPT ![f].offset = @ + n]
  /\ UNCHANGED <<devices, objects, testdev_buffer, testdev_len, outside>>

\* A longer read leaves the buffer.  What it finds, and what a write at its new
\* offset would then overwrite, is up to the linker: nothing more is modelled.
ReadOutside(f, count) ==
  /\ IsTestdev(f)
  /\ file[f].offset + Smaller(count, Available(file[f].offset)) > TESTDEV_SIZE
  /\ outside' = TRUE
  /\ UNCHANGED <<devices, objects, file, testdev_buffer, testdev_len, buf>>

\* Mutant: the length is the end of the last write.
LenAfter_last(end) == end

LenAfter(end) == IF end > testdev_len THEN end ELSE testdev_len

\* vfs_write and testdev_write; with no space left it returns -1 and nothing
\* changes.
vfs_write(f, data) ==
  LET offset == file[f].offset
      n == Smaller(Len(data), Space(offset)) IN
  /\ IsTestdev(f)
  /\ Space(offset) # 0
  /\ testdev_buffer' = [i \in DOMAIN testdev_buffer |->
                         IF i \in offset .. offset + n - 1
                         THEN data[i - offset + 1] ELSE testdev_buffer[i]]
  /\ file' = [file EXCEPT ![f].offset = @ + n]
  /\ testdev_len' = LenAfter(offset + n)
  /\ UNCHANGED <<devices, objects, buf, outside>>

\* Offsets behind the buffer are refused.
testdev_seek(f, offset) ==
  /\ IsTestdev(f)
  /\ offset <= TESTDEV_SIZE
  /\ file' = [file EXCEPT ![f].offset = offset]
  /\ UNCHANGED <<devices, objects, device>>

Data == UNION {[1 .. n -> Chars] : n \in 0 .. TESTDEV_SIZE + 1}

\* Callers close a file once.
Step ==
  \/ \E size \in OtherSizes : OtherAlloc(size)
  \/ \E n \in Names :
       \/ vfs_register_device(n, "other")
       \/ vfs_open(n)
       \/ OpenFails(n)
       \/ OpenRefused(n)
       \/ OpenWithoutInode(n)
  \/ \E f \in DOMAIN file :
       \/ vfs_close(f)
       \/ \E count \in 0 .. TESTDEV_SIZE + 1 :
            vfs_read(f, count) \/ ReadOutside(f, count)
       \/ \E data \in Data : vfs_write(f, data)
       \/ \E offset \in 0 .. TESTDEV_SIZE + 1 : testdev_seek(f, offset)

Next == ~outside /\ Step

Spec == Init /\ [][Next]_vars

-----------------------------------------------------------------------------
Addresses == {a \in 0 .. HEAP_SIZE - 1 : a % 8 = 0}

\* Offsets and length fit in the buffer, addresses in the heap.
TypeOK ==
  /\ heap_current \in 0 .. HEAP_SIZE
  /\ devices \in Seq([name : Fitting, ops : {"testdev", "other"}])
  /\ Len(devices) <= MAX_DEVICES
  /\ next_ino \in Nat
  /\ DOMAIN inode \subseteq Addresses
  /\ \A a \in DOMAIN inode :
       inode[a] \in [ino : Nat, ref : {0, 1}, ops : {"testdev", "other"}]
  /\ DOMAIN file \subseteq Addresses
  /\ \A f \in DOMAIN file :
       file[f] \in [inode : Addresses, offset : 0 .. TESTDEV_SIZE]
  /\ testdev_buffer \in [0 .. TESTDEV_SIZE - 1 -> Chars \cup {Zero}]
  /\ testdev_len \in 0 .. TESTDEV_SIZE
  /\ \E n \in 0 .. TESTDEV_SIZE : buf \in [1 .. n -> Chars \cup {Zero}]
  /\ outside \in BOOLEAN

\* The bytes of an object of this size at a.
Region(a, size) == a .. a + size - 1

\* Every open file has an inode of its own that is counted once, no other inode
\* is still counted, inode numbers are not given twice, and no two objects that
\* kmalloc gave out share a byte.  Failed and refused opens are no exception.
HandlesSound ==
  /\ {a \in DOMAIN inode : inode[a].ref = 1} = {file[f].inode : f \in DOMAIN file}
  /\ \A f, g \in DOMAIN file : f # g =>
       /\ file[f].inode # file[g].inode
       /\ Region(f, FILE_SIZE) \cap Region(g, FILE_SIZE) = {}
  /\ \A a, b \in DOMAIN inode : a # b =>
       /\ inode[a].ino # inode[b].ino
       /\ Region(a, INODE_SIZE) \cap Region(b, INODE_SIZE) = {}
  /\ \A f \in DOMAIN file, a \in DOMAIN inode :
       Region(f, FILE_SIZE) \cap Region(a, INODE_SIZE) = {}

\* Where the difference in testdev_read wraps.
Behind(f) == f \in DOMAIN file /\ file[f].offset > testdev_len

\* A file gets behind the data by a seek of its own and in no other way: no
\* read, and no write, open or close of another file on the buffer puts it there.
\* Only a file that is there reads outside the buffer.
PassStep ==
  /\ \A f \in DOMAIN file' : Behind(f)' =>
       Behind(f) \/ \E offset \in 0 .. TESTDEV_SIZE : testdev_seek(f, offset)
  /\ outside' => \E f \in DOMAIN file : Behind(f)

\* Every step moves files past the data in this way only.
PassedBySeek == [][PassStep]_vars

\* The device that a name finds.
Finds(n, d) == d \in DOMAIN devices /\ find_device(n, d)

\* A later registration, under whatever name and however it was cut off, never
\* changes which driver a name opens.
LookupStable ==
  [][\A n \in Names, d \in DOMAIN devices :
       Finds(n, d) => Finds(n, d)' /\ devices'[d] = devices[d]]_vars

\* The data in the buffer, and where the open files of testdev are in it.
Content == [i \in 1 .. testdev_len |-> testdev_buffer[i - 1]]
Position == [f \in {g \in DOMAIN file : IsTestdev(g)} |-> file[f].offset]

SharedContent == INSTANCE SharedFile WITH
  Handles <- Addresses, CAPACITY <- TESTDEV_SIZE,
  Filler <- Zero, content <- Content, position <- Position, result <- buf

\* The open files of testdev are handles on one shared content: a read returns
\* what was written last by anyone, as much as there is, a write extends or
\* replaces, with zeros in a gap that a seek left, and opening, closing or
\* failing to open leave all others alone.
ImplementsSharedFile == SharedContent!Spec

=============================================================================
