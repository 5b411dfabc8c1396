------------------------------- MODULE Queues -------------------------------
(***************************************************************************)
(* Vocabulary for the queues and lists of the kernel as sequences.         *)
(***************************************************************************)
EXTENDS Integers, Sequences

\* x is somewhere in q.
Member(q, x) == \E i \in 1 .. Len(q) : q[i] = x

\* q holds nothing twice.
Distinct(q) == \A i, j \in 1 .. Len(q) : q[i] = q[j] => i = j

\* q with x inserted behind its first i elements.
InsertAfter(q, i, x) == SubSeq(q, 1, i) \o <<x>> \o SubSeq(q, i + 1, Len(q))

=============================================================================
