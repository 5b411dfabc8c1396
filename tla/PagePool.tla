------------------------------ MODULE PagePool ------------------------------
(***************************************************************************)
(* What the page allocator promises its callers: a page handed out belongs *)
(* to nobody else and is cleared, its contents change only by its owner's  *)
(* hand, and a request fails only when every page is taken.                *)
(***************************************************************************)
CONSTANTS Pages, NULL, Words, Zero

VARIABLES owned,  \* pages handed out and not given back
          data,   \* the contents of the owned pages
          page    \* what the last request returned

Init == owned = {} /\ data = [p \in {} |-> Zero] /\ page = NULL

Alloc ==
  \E p \in Pages \ owned :
    /\ owned' = owned \cup {p}
    /\ data' = [q \in owned \cup {p} |-> IF q = p THEN Zero ELSE data[q]]
    /\ page' = p

Fail ==
  /\ owned = Pages
  /\ page' = NULL
  /\ UNCHANGED <<owned, data>>

Free(p) ==
  /\ owned' = owned \ {p}
  /\ data' = [q \in owned \ {p} |-> data[q]]
  /\ UNCHANGED page

Store(p, v) ==
  /\ data' = [data EXCEPT ![p] = v]
  /\ UNCHANGED <<owned, page>>

Next ==
  \/ Alloc
  \/ Fail
  \/ \E p \in owned : Free(p) \/ \E v \in Words : Store(p, v)

Spec == Init /\ [][Next]_<<owned, data, page>>

=============================================================================
