------------------------------ MODULE PageTable ------------------------------
(***************************************************************************)
(* The page tables of kernel/mm/vm.c: three levels of tables in pages of   *)
(* the page allocator.  mappages and unmappages walk from the root for     *)
(* every page; one step here is one level of a walk.  Addresses are in     *)
(* bytes and wrap around at WORD; a leaf entry has one of the bits R, W, X *)
(* set, as every caller passes one, and a table entry has none.            *)
(*                                                                         *)
(* The page allocator is used as PagePool describes it: any page that is   *)
(* not in use, cleared.                                                    *)
(***************************************************************************)
EXTENDS Integers

CONSTANTS
  Pages,      \* pages of the page allocator
  NULL,
  ENTRIES,    \* entries of a table, 512
  PGSIZE,     \* bytes of a page
  WORD,       \* 2^64
  MapArgs,    \* <<va, size, pa>> callers pass to mappages
  UnmapArgs   \* <<va, size>> callers pass to unmappages

MAXVA == (ENTRIES * ENTRIES * ENTRIES * PGSIZE) \div 2

Address == 0 .. WORD - 1

\* The arguments and the variables of mappages and unmappages, and of walk.
CallsUnderWay ==
  [op : {"mappages", "unmappages"}, pagetable : Pages, va : Address, size : Address,
   frame : Address, a : Address, last : Address, pa : Address, level : 0 .. 2,
   at : Pages]

ASSUME PageTableAssumption ==
  /\ NULL \notin Pages \cup CallsUnderWay
  /\ ENTRIES \in Nat \ {0}
  /\ PGSIZE \in Nat \ {0}
  /\ WORD \in Nat \ {0}
  /\ WORD % PGSIZE = 0
  /\ MAXVA % PGSIZE = 0
  /\ MAXVA < WORD
  /\ MapArgs \subseteq Address \X Address \X Address
  /\ \A x \in MapArgs : x[2] <= WORD - PGSIZE
  /\ UnmapArgs \subseteq Address \X Address

VARIABLES
  owned,   \* pages that hold tables
  table,   \* their entries
  roots,   \* what vm_create_user_pagetable returned and is in use
  space,   \* what callers asked for: for each root the pages mapped and not
           \* unmapped since, with their frames (no part of the code's state)
  call,    \* the call of mappages or unmappages under way, or NULL
  ret      \* how the last call ended: 0 is "ok", -1 "failed"; "panic" is final

vars == <<owned, table, roots, space, call, ret>>

Invalid == [valid |-> FALSE, leaf |-> FALSE, to |-> NULL]
PointsTo(p) == [valid |-> TRUE, leaf |-> FALSE, to |-> p]
Leaf(pa) == [valid |-> TRUE, leaf |-> TRUE, to |-> pa]

Indices == 0 .. ENTRIES - 1
EmptyTable == [i \in Indices |-> Invalid]

Span(level) ==
  PGSIZE * (IF level = 0 THEN 1 ELSE IF level = 1 THEN ENTRIES
            ELSE ENTRIES * ENTRIES)

\* Mutant: the index of level 1 is taken with the shift of level 0.
PX_shift(level, va) ==
  (va \div (IF level = 1 THEN Span(0) ELSE Span(level))) % ENTRIES

PX(level, va) == (va \div Span(level)) % ENTRIES

RoundDown(va) == (va \div PGSIZE) * PGSIZE

\* Mutant: the last byte is one too far.
Last_far(va, size) == RoundDown((va + size) % WORD)

Last(va, size) == RoundDown((va + size - 1) % WORD)

-----------------------------------------------------------------------------
Running == call # NULL
Ready == ~Running /\ ret # "panic"

Return(r) == call' = NULL /\ ret' = r

\* A page the allocator hands out: one that is not in use, cleared.
WithPage(p) == [q \in owned \cup {p} |-> IF q = p THEN EmptyTable ELSE table[q]]

\* When no page is left the null pointer is returned and nothing changes.
vm_create_user_pagetable(p) ==
  /\ Ready
  /\ p \notin owned
  /\ owned' = owned \cup {p}
  /\ table' = WithPage(p)
  /\ roots' = roots \cup {p}
  /\ space' = [q \in roots \cup {p} |->
                 IF q = p THEN [v \in {} |-> 0] ELSE space[q]]
  /\ UNCHANGED <<call, ret>>

Start(op, r, va, size, pa) ==
  /\ Ready
  /\ IF size = 0
     THEN op = "mappages" /\ Return("panic")
     ELSE /\ call' = [op |-> op, pagetable |-> r, va |-> va, size |-> size,
                      frame |-> pa, a |-> RoundDown(va), last |-> Last(va, size),
                      pa |-> pa, level |-> 2, at |-> r]
          /\ UNCHANGED ret
  /\ UNCHANGED <<owned, table, roots, space>>

mappages(r, va, size, pa) == Start("mappages", r, va, size, pa)

\* A size of 0 is accepted and does nothing.
unmappages(r, va, size) == Start("unmappages", r, va, size, 0)

PTE == table[call.at][PX(call.level, call.a)]

\* What a walk that returns the null pointer makes of the call.
NoEntry == Return(IF call.op = "mappages" THEN "failed" ELSE "panic")

WalkBeyond ==
  /\ Running
  /\ call.level = 2
  /\ call.a >= MAXVA
  /\ NoEntry
  /\ UNCHANGED <<owned, table, roots, space>>

\* Mutant: the walk goes through the last level too.
WalkDown_deep ==
  /\ Running
  /\ call.level >= 0
  /\ call.a < MAXVA
  /\ PTE.valid
  /\ call' = [call EXCEPT !.level = @ - 1, !.at = PTE.to]
  /\ UNCHANGED <<owned, table, roots, space, ret>>

WalkDown ==
  /\ Running
  /\ call.level > 0
  /\ call.a < MAXVA
  /\ PTE.valid
  /\ call' = [call EXCEPT !.level = @ - 1, !.at = PTE.to]
  /\ UNCHANGED <<owned, table, roots, space, ret>>

WalkAlloc(p) ==
  /\ Running
  /\ call.level > 0
  /\ call.a < MAXVA
  /\ ~PTE.valid
  /\ call.op = "mappages"
  /\ p \notin owned
  /\ owned' = owned \cup {p}
  /\ table' = [WithPage(p) EXCEPT
                 ![call.at][PX(call.level, call.a)] = PointsTo(p)]
  /\ call' = [call EXCEPT !.level = @ - 1, !.at = p]
  /\ UNCHANGED <<roots, space, ret>>

WalkFails ==
  /\ Running
  /\ call.level > 0
  /\ call.a < MAXVA
  /\ ~PTE.valid
  /\ call.op = "mappages" => owned = Pages
  /\ NoEntry
  /\ UNCHANGED <<owned, table, roots, space>>

\* The entry of the page is stored; the loop ends at the last page, by an
\* equality test.
SetEntry(e) ==
  /\ table' = [table EXCEPT ![call.at][PX(0, call.a)] = e]
  /\ IF call.a = call.last
     THEN Return("ok")
     ELSE /\ call' = [call EXCEPT !.a = (@ + PGSIZE) % WORD,
                                  !.pa = (@ + PGSIZE) % WORD,
                                  !.level = 2, !.at = call.pagetable]
          /\ UNCHANGED ret
  /\ UNCHANGED <<owned, roots>>

\* "mappages: remap" and "unmappages: not mapped" stop the kernel.
Panics ==
  /\ Running
  /\ call.level = 0
  /\ PTE.valid = (call.op = "mappages")
  /\ Return("panic")
  /\ UNCHANGED <<owned, table, roots, space>>

VPage == call.a \div PGSIZE

MapPage ==
  /\ Running
  /\ call.level = 0
  /\ call.op = "mappages"
  /\ ~PTE.valid
  /\ SetEntry(Leaf(RoundDown(call.pa)))
  /\ space' = [space EXCEPT ![call.pagetable] =
                 [v \in DOMAIN @ \cup {VPage} |->
                    IF v = VPage THEN RoundDown(call.pa) ELSE @[v]]]

UnmapPage ==
  /\ Running
  /\ call.level = 0
  /\ call.op = "unmappages"
  /\ PTE.valid
  /\ SetEntry(Invalid)
  /\ space' = [space EXCEPT ![call.pagetable] =
                 [v \in DOMAIN @ \ {VPage} |-> @[v]]]

SubTables(t) ==
  {table[t][i].to : i \in {j \in Indices : table[t][j].valid
                                           /\ ~table[t][j].leaf}}

\* Mutant: vm_free goes down one level only.
Freed_shallow(r) == {r} \cup SubTables(r)

\* The recursion of vm_free, from the root down to the last level, whose
\* tables point to no table.
Freed(r) ==
  {r} \cup SubTables(r) \cup UNION {SubTables(t) : t \in SubTables(r)}

\* The pages mapped by the leaves are not freed.
vm_free(r) ==
  /\ Ready
  /\ roots' = roots \ {r}
  /\ owned' = owned \ Freed(r)
  /\ table' = [t \in owned' |-> table[t]]
  /\ space' = [q \in roots' |-> space[q]]
  /\ UNCHANGED <<call, ret>>

Init ==
  /\ owned = {}
  /\ table = [t \in {} |-> EmptyTable]
  /\ roots = {}
  /\ space = [r \in {} |-> {}]
  /\ call = NULL
  /\ ret = "ok"

Walk == WalkBeyond \/ WalkDown \/ (\E p \in Pages : WalkAlloc(p)) \/ WalkFails

\* The steps of a call under way.
Work == Walk \/ Panics \/ MapPage \/ UnmapPage

Calls ==
  \/ \E p \in Pages : vm_create_user_pagetable(p)
  \/ \E r \in roots :
       \/ \E x \in MapArgs : mappages(r, x[1], x[2], x[3])
       \/ \E x \in UnmapArgs : unmappages(r, x[1], x[2])
       \/ vm_free(r)

Next == Calls \/ Work

Spec == Init /\ [][Next]_vars

-----------------------------------------------------------------------------
VPages == 0 .. (MAXVA \div PGSIZE) - 1

\* walk(pagetable, va, 0) without its side effects: the entry of a page.
Entry(t, level, v) == table[t][PX(level, v * PGSIZE)]
Mapped(r, v) ==
  /\ Entry(r, 2, v).valid
  /\ Entry(Entry(r, 2, v).to, 1, v).valid
  /\ Entry(Entry(Entry(r, 2, v).to, 1, v).to, 0, v).valid

\* walkaddr: the frame of a page that is mapped.
walkaddr(r, v) == Entry(Entry(Entry(r, 2, v).to, 1, v).to, 0, v).to

PTEs == {Invalid} \cup {PointsTo(p) : p \in Pages} \cup {Leaf(a) : a \in Address}

TypeOK ==
  /\ owned \subseteq Pages
  /\ table \in [owned -> [Indices -> PTEs]]
  /\ roots \subseteq owned
  /\ DOMAIN space = roots
  /\ ret \in {"ok", "failed", "panic"}
  /\ Running => call \in CallsUnderWay /\ call.pagetable \in roots /\ call.at \in owned

Pointers == {x \in owned \X Indices : table[x[1]][x[2]].valid
                                      /\ ~table[x[1]][x[2]].leaf}
Target(x) == table[x[1]][x[2]].to
Middle == UNION {SubTables(r) : r \in roots}
Bottom == UNION {SubTables(t) : t \in Middle}

\* The tables form trees of depth three: every page taken from the allocator
\* is a root or is entered in exactly one place one level up, the last level
\* alone has leaves, and no entry points to a page given back.  So no walk
\* leaves the tables, no two address spaces share one, and vm_free gives back
\* each table once and leaks none, also after a mappages that failed between
\* its two allocations.
TreeSound ==
  /\ owned = roots \cup Middle \cup Bottom
  /\ roots \cap Middle = {} /\ roots \cap Bottom = {} /\ Middle \cap Bottom = {}
  /\ \A x, y \in Pointers : Target(x) = Target(y) => x = y
  /\ \A t \in owned, i \in Indices :
       table[t][i].valid => (table[t][i].leaf <=> t \in Bottom)

\* The tables translate exactly the pages callers mapped, each to its frame:
\* mapping or unmapping a page changes the translation of that page in that
\* address space and of no other, whatever tables a walk allocates on the way,
\* whether it fails or not, and whichever pages the allocator reuses.
Translates ==
  \A r \in roots :
    /\ DOMAIN space[r] = {v \in VPages : Mapped(r, v)}
    /\ \A v \in DOMAIN space[r] : walkaddr(r, v) = space[r][v]

MapsTo(x, n) ==
  \A i \in 0 .. n - 1 :
    LET v == (x.va \div PGSIZE) + i
    IN /\ v \in DOMAIN space[x.pagetable]
       /\ space[x.pagetable][v] = RoundDown((x.frame + i * PGSIZE) % WORD)

ReturnOfMap(x) ==
  LET n == x.a \div PGSIZE - x.va \div PGSIZE IN
  \/ /\ ret' = "ok"
     /\ x.a \div PGSIZE = (x.va + x.size - 1) \div PGSIZE
     /\ MapsTo(x, n + 1)'
  \/ /\ ret' = "failed"
     /\ owned = Pages \/ x.a >= MAXVA
     /\ MapsTo(x, n)'
  \/ /\ ret' = "panic"
     /\ x.a \div PGSIZE \in DOMAIN space[x.pagetable]

\* When mappages returns 0, it has mapped the pages that contain a byte of
\* va .. va + size - 1, each to its frame, and ended with the last of them; when
\* it returns -1 the pages below the one it failed at stay mapped, and the
\* cause is that the allocator has no page or that the range leaves the address
\* space; it panics only at a page that is mapped already.
MapReturns ==
  [][\A x \in {call} : x # NULL /\ x.op = "mappages" /\ call' = NULL
                         => ReturnOfMap(x)]_vars

=============================================================================
