------------------------------ MODULE SimpleFs ------------------------------
(***************************************************************************)
(* The in-memory file system of kernel/fs/simplefs.c: a table of inodes    *)
(* found by name, and the counters of the superblock.  Reads and writes    *)
(* move no data; what they maintain is the size of a file.  The type of a  *)
(* file, the constants in the superblock and data_blocks are never read    *)
(* and are left out; so is the outcome of kmalloc in sfs_format, which     *)
(* kernel_main ignores.                                                    *)
(***************************************************************************)
EXTENDS Names, Integers, FiniteSets

CONSTANTS
  SFS_MAX_FILES,
  WORD,        \* 2^32
  Requests,    \* offsets and sizes that callers pass
  BlockCounts  \* arguments of sfs_format

ASSUME SimpleFsAssumption ==
  /\ SFS_MAX_FILES \in Nat \ {0}
  /\ WORD \in Nat \ {0}
  /\ Requests \subseteq 0 .. WORD - 1
  /\ BlockCounts \subseteq 0 .. WORD - 1

Slots == 1 .. SFS_MAX_FILES

\* blocks is the set of the direct blocks in use.
Inodes == [ino : 0 .. SFS_MAX_FILES, size : 0 .. WORD - 1, name : Fitting,
           blocks : SUBSET (0 .. 11)]

VARIABLES
  inodes,
  superblock,
  covered,  \* of each slot: the end of the furthest write of its file,
            \* among those that end before 2^32
  reached   \* and the same among all, had the sum not been cut to 32 bits

vars == <<inodes, superblock, covered, reached>>

\* sfs_init and sfs_format, as kernel_main calls them.  The table starts out
\* as zeroes, so with empty names.
Init ==
  \E n \in BlockCounts :
    /\ inodes = [i \in Slots |->
                   [ino |-> 0, size |-> 0,
                    name |-> [head |-> "empty", tail |-> "none"], blocks |-> {}]]
    /\ superblock = [num_blocks |-> n, num_free_blocks |-> n,
                     num_free_inodes |-> SFS_MAX_FILES]
    /\ covered = [i \in Slots |-> 0]
    /\ reached = [i \in Slots |-> 0]

\* Mutant: a sum without the 32 bits.
Sum_wide(a, b) == a + b

\* uint32_t addition, and what an int that is given a uint32_t holds.
Sum(a, b) == (a + b) % WORD
ToInt(a) == IF 2 * a < WORD THEN a ELSE a - WORD

Live(i) == inodes[i].ino # 0

HasName(i, n) == Live(i) /\ Matches(inodes[i].name, n)

\* Slot i is what find_inode returns: the first file of this name.
find_inode(n, i) == HasName(i, n) /\ \A j \in 1 .. i - 1 : ~HasName(j, n)

\* The counters start again; the inodes are left as they are.
sfs_format(n) ==
  /\ superblock' = [num_blocks |-> n, num_free_blocks |-> n,
                    num_free_inodes |-> SFS_MAX_FILES]
  /\ UNCHANGED <<inodes, covered, reached>>

FirstFree(i) == ~Live(i) /\ \A j \in 1 .. i - 1 : Live(j)

\* Mutants: the name is not looked up; the counter is left alone.
sfs_create_unchecked(n) ==
  \E i \in Slots :
    /\ FirstFree(i)
    /\ inodes' = [inodes EXCEPT ![i] =
                    [ino |-> i, size |-> 0, name |-> Stored(n), blocks |-> {}]]
    /\ superblock' = [superblock EXCEPT !.num_free_inodes = @ - 1]
    /\ UNCHANGED <<covered, reached>>
sfs_create_uncounted(n) ==
  /\ ~\E i \in Slots : HasName(i, n)
  /\ \E i \in Slots :
       /\ FirstFree(i)
       /\ inodes' = [inodes EXCEPT ![i] =
                       [ino |-> i, size |-> 0, name |-> Stored(n), blocks |-> {}]]
  /\ UNCHANGED <<superblock, covered, reached>>

\* Returns the inode number, which is i, or -1 and changes nothing if the name
\* is found or no inode is free.
sfs_create(n) ==
  /\ ~\E i \in Slots : HasName(i, n)
  /\ \E i \in Slots :
       /\ FirstFree(i)
       /\ inodes' = [inodes EXCEPT ![i] =
                       [ino |-> i, size |-> 0, name |-> Stored(n), blocks |-> {}]]
  /\ superblock' = [superblock EXCEPT !.num_free_inodes = @ - 1]
  /\ UNCHANGED <<covered, reached>>

\* Blocks and inode are counted as free; the name stays where it is.
sfs_delete(n) ==
  \E i \in Slots :
    /\ find_inode(n, i)
    /\ inodes' = [inodes EXCEPT ![i].ino = 0, ![i].size = 0]
    /\ superblock' = [superblock EXCEPT
                        !.num_free_blocks = @ + Cardinality(inodes[i].blocks),
                        !.num_free_inodes = @ + 1]
    /\ covered' = [covered EXCEPT ![i] = 0]
    /\ reached' = [reached EXCEPT ![i] = 0]

\* The test on the inode number that sfs_read and sfs_write begin with.
Valid(ino) == ino \in Slots /\ inodes[ino].ino = ino

\* What sfs_read returns; it changes nothing, the buffer of the caller included.
sfs_read(ino, offset, size) ==
  LET fsize == inodes[ino].size IN
  IF ~Valid(ino) THEN -1
  ELSE IF offset >= fsize THEN 0
  ELSE ToInt(IF Sum(offset, size) > fsize THEN fsize - offset ELSE size)

Larger(a, b) == IF a > b THEN a ELSE b

\* Mutant: a write sets the size, also to less than it was.
NewSize_last(size, end) == end

\* The size after a write that ends at end.
NewSize(size, end) == IF end > size THEN end ELSE size

\* Returns size and copies nothing, or -1 for an inode number not in use.
sfs_write(ino, offset, size) ==
  /\ Valid(ino)
  /\ inodes' = [inodes EXCEPT ![ino].size = NewSize(@, Sum(offset, size))]
  /\ covered' = [covered EXCEPT ![ino] =
                   IF offset + size < WORD THEN Larger(@, offset + size) ELSE @]
  /\ reached' = [reached EXCEPT ![ino] = Larger(@, offset + size)]
  /\ UNCHANGED superblock

\* Callers format while there are no files, as kernel_main does.
Next ==
  \/ /\ \A i \in Slots : ~Live(i)
     /\ \E n \in BlockCounts : sfs_format(n)
  \/ \E n \in Names : sfs_create(n) \/ sfs_delete(n)
  \/ \E i \in Slots, o, s \in Requests : sfs_write(i, o, s)

Spec == Init /\ [][Next]_vars

-----------------------------------------------------------------------------
\* The inode table and the counters hold what their types allow; sizes stay
\* within 32 bits.
TypeOK ==
  /\ inodes \in [Slots -> Inodes]
  /\ superblock \in [num_blocks : Nat, num_free_blocks : Nat,
                     num_free_inodes : 0 .. SFS_MAX_FILES]
  /\ covered \in [Slots -> 0 .. WORD - 1]
  /\ reached \in [Slots -> Nat]

\* The number that sfs_create returned names the slot it filled, and after any
\* sequence of creations, deletions and formats of the empty file system the
\* superblock counts exactly the inodes that no file has.  (All blocks stay
\* free: sfs_write allocates none.)
TableSound ==
  /\ \A i \in Slots : inodes[i].ino \in {0, i} /\ inodes[i].blocks = {}
  /\ superblock.num_free_inodes = Cardinality({i \in Slots : ~Live(i)})
  /\ superblock.num_free_blocks = superblock.num_blocks

\* Two files are stored under one name only if it fills the name field, so
\* that one of them may have been cut off: sfs_create refuses every name that
\* find_inode finds, also after deletions have left free slots before it.
UniqueNames ==
  \A i, j \in Slots :
    Live(i) /\ Live(j) /\ inodes[i].name = inodes[j].name
      => i = j \/ inodes[i].name.head \in FullHeads

\* The counts that sfs_read returns agree with those that sfs_write returned;
\* neither moves data, so that nothing is said of what is read.  Whatever other
\* writes came between, sums that wrap included, a read of a range below the
\* furthest write that ended below 2^32 returns its size, and none counts
\* bytes behind the furthest write.  This is for requests that do not wrap and
\* whose size an int can return.
CountsAgree ==
  \A i \in Slots, o, s \in Requests :
    Live(i) /\ o + s < WORD /\ 2 * s < WORD =>
      LET n == sfs_read(i, o, s) IN
      /\ n \in 0 .. s
      /\ o + s <= covered[i] => n = s
      /\ n > 0 => o + n <= reached[i]

=============================================================================
