------------------------------- MODULE Names -------------------------------
(***************************************************************************)
(* Names as the file systems keep them: in a character array, cut off      *)
(* before its last place.  The head of a name is the part that fits, the   *)
(* tail what is cut off; only a head that fills the array has a tail.      *)
(***************************************************************************)
CONSTANTS
  Heads,      \* the names that fit
  FullHeads,  \* those that leave no room for another character
  Tails       \* what may follow the head of a name that does not fit

ASSUME NamesAssumption ==
  /\ FullHeads \subseteq Heads
  /\ "empty" \in Heads \ FullHeads
  /\ "none" \notin Tails

Fitting == [head : Heads, tail : {"none"}]
Long == [head : FullHeads, tail : Tails]
Names == Fitting \cup Long

\* The copying loop of sfs_create and of vfs_register_device.
Stored(n) == [head |-> n.head, tail |-> "none"]

\* The comparing loop of find_inode and of find_device: every character up to
\* and including the terminator has to agree, and the array ends with one.
Matches(stored, n) == stored = n

=============================================================================
