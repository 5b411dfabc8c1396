----------------------------- MODULE PageAlloc -----------------------------
(***************************************************************************)
(* The page allocator of kernel/mm/mm.c: a stack of free pages, linked     *)
(* through the first word of each free page.  The word of a page in use    *)
(* belongs to its owner, who may store anything there, page addresses      *)
(* included; pages are numbered from 1 and 0 is the null pointer.          *)
(***************************************************************************)
EXTENDS Integers

CONSTANT NUM_PAGES  \* pages between the end of the heap and the end of RAM

ASSUME NumPagesAssumption == NUM_PAGES \in Nat \ {0}

NULL == 0
Pages == 1 .. NUM_PAGES
Words == Pages \cup {NULL}

VARIABLES
  free_pages,      \* the top of the stack
  num_free_pages,
  word,            \* the first word of every page
  owned,           \* pages handed out and not given back
  page             \* what the last call of alloc_page returned

vars == <<free_pages, num_free_pages, word, owned, page>>

\* mm_init links the pages in the order of their addresses.
Init ==
  /\ free_pages = 1
  /\ num_free_pages = NUM_PAGES
  /\ word = [p \in Pages |-> IF p < NUM_PAGES THEN p + 1 ELSE NULL]
  /\ owned = {}
  /\ page = NULL

Exhausted == free_pages = NULL \/ num_free_pages = 0

\* Mutants: the link is read after the page has been cleared; the counter is
\* not decremented; the page is not cleared.
alloc_page_cleared_first ==
  /\ ~Exhausted
  /\ page' = free_pages
  /\ free_pages' = NULL
  /\ num_free_pages' = num_free_pages - 1
  /\ word' = [word EXCEPT ![free_pages] = 0]
  /\ owned' = owned \cup {free_pages}
alloc_page_uncounted ==
  /\ ~Exhausted
  /\ page' = free_pages
  /\ free_pages' = word[free_pages]
  /\ word' = [word EXCEPT ![free_pages] = 0]
  /\ owned' = owned \cup {free_pages}
  /\ UNCHANGED num_free_pages
alloc_page_dirty ==
  /\ ~Exhausted
  /\ page' = free_pages
  /\ free_pages' = word[free_pages]
  /\ num_free_pages' = num_free_pages - 1
  /\ owned' = owned \cup {free_pages}
  /\ UNCHANGED word

\* The top of the stack; the link in its first word is the new top.  The page
\* is cleared after the link has been read.
alloc_page ==
  /\ ~Exhausted
  /\ page' = free_pages
  /\ free_pages' = word[free_pages]
  /\ num_free_pages' = num_free_pages - 1
  /\ word' = [word EXCEPT ![free_pages] = 0]
  /\ owned' = owned \cup {free_pages}

alloc_page_fails ==
  /\ Exhausted
  /\ page' = NULL
  /\ UNCHANGED <<free_pages, num_free_pages, word, owned>>

\* free_page checks nothing: callers pass a page they own.  The null pointer
\* is ignored.
free_page(p) ==
  /\ p \in owned
  /\ word' = [word EXCEPT ![p] = free_pages]
  /\ free_pages' = p
  /\ num_free_pages' = num_free_pages + 1
  /\ owned' = owned \ {p}
  /\ UNCHANGED page

\* The owner of a page stores to its first word.
Store(p, v) ==
  /\ p \in owned
  /\ word' = [word EXCEPT ![p] = v]
  /\ UNCHANGED <<free_pages, num_free_pages, owned, page>>

Next ==
  \/ alloc_page
  \/ alloc_page_fails
  \/ \E p \in Pages : free_page(p) \/ \E v \in Words : Store(p, v)

Spec == Init /\ [][Next]_vars

-----------------------------------------------------------------------------
TypeOK ==
  /\ free_pages \in Words
  /\ num_free_pages \in 0 .. NUM_PAGES
  /\ word \in [Pages -> Words]
  /\ owned \subseteq Pages
  /\ page \in Words

\* s is the list that starts at free_pages and follows the links.
IsFreeList(s, n) ==
  /\ free_pages = IF n = 0 THEN NULL ELSE s[1]
  /\ \A i \in 1 .. n : word[s[i]] = IF i = n THEN NULL ELSE s[i + 1]

\* Following the links from free_pages visits every page that nobody owns
\* exactly once, in num_free_pages steps, and then ends.
FreeListSound ==
  \E s \in [1 .. num_free_pages -> Pages] :
    /\ IsFreeList(s, num_free_pages)
    /\ \A i, j \in 1 .. num_free_pages : i # j => s[i] # s[j]
    /\ {s[i] : i \in 1 .. num_free_pages} = Pages \ owned

Pool == INSTANCE PagePool WITH
          Zero <- 0, data <- [p \in owned |-> word[p]]

\* The linked stack implements the pool: a page is never handed out twice, it
\* is cleared when it is handed out, allocation and release of other pages
\* leave its contents alone, and "Out of memory" is reported only when every
\* page is in use.
ImplementsPool == Pool!Spec

=============================================================================
