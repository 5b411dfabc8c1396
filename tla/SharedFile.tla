----------------------------- MODULE SharedFile -----------------------------
(***************************************************************************)
(* What an opened device with a buffer promises: one content, shared by    *)
(* all handles, and a position for every handle.                           *)
(***************************************************************************)
EXTENDS Integers, Sequences

CONSTANTS
  Handles,
  Chars,
  Filler,    \* what is taken to be behind the content
  CAPACITY

VARIABLES
  content,   \* a sequence of at most CAPACITY characters
  position,  \* of every open handle
  result     \* what the last read copied

vars == <<content, position, result>>

Data == UNION {[1 .. n -> Chars] : n \in 0 .. CAPACITY + 1}

\* At most n elements of s, from after the first m.
Part(s, m, n) ==
  SubSeq(s, m + 1, IF m + n > Len(s) THEN Len(s) ELSE m + n)

Init == content = <<>> /\ position = <<>> /\ result = <<>>

\* A new handle, at the beginning of the content.
Open(h) ==
  /\ h \notin DOMAIN position
  /\ position' = [x \in DOMAIN position \cup {h} |->
                   IF x = h THEN 0 ELSE position[x]]
  /\ UNCHANGED <<content, result>>

Close(h) ==
  /\ position' = [x \in DOMAIN position \ {h} |-> position[x]]
  /\ UNCHANGED <<content, result>>

\* The content as a handle at this position finds it.
Padded(pos) ==
  content \o [i \in 1 .. pos - Len(content) |-> Filler]

\* At most count characters, and as many as there are; a handle behind the
\* content is given fillers instead, within the capacity.
Read(h, count) ==
  /\ \/ position[h] <= Len(content) /\ result' = Part(content, position[h], count)
     \/ /\ position[h] > Len(content) /\ position[h] + count <= CAPACITY
        /\ result' = [i \in 1 .. count |-> Filler]
  /\ position' = [position EXCEPT ![h] = @ + Len(result')]
  /\ UNCHANGED content

\* As much of data as there is room for replaces what it covers and extends the
\* content, by fillers first if the handle is behind it; the rest stays.
Write(h, data) ==
  /\ LET written == Part(data, 0, CAPACITY - position[h])
         end == position[h] + Len(written) IN
       /\ content' = Part(Padded(position[h]), 0, position[h]) \o written
                       \o Part(content, end, CAPACITY)
       /\ position' = [position EXCEPT ![h] = end]
  /\ UNCHANGED result

Seek(h, offset) ==
  /\ offset \in 0 .. CAPACITY
  /\ position' = [position EXCEPT ![h] = offset]
  /\ UNCHANGED <<content, result>>

Next ==
  \/ \E h \in Handles : Open(h)
  \/ \E h \in DOMAIN position :
       \/ Close(h)
       \/ \E n \in 0 .. CAPACITY + 1 : Read(h, n)
       \/ \E data \in Data : Write(h, data)
       \/ \E offset \in 0 .. CAPACITY : Seek(h, offset)

Spec == Init /\ [][Next]_vars

=============================================================================
