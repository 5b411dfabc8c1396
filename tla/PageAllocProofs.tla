-------------------------- MODULE PageAllocProofs --------------------------
(***************************************************************************)
(* The page allocator keeps its free list intact and implements PagePool,  *)
(* for any number of pages.                                                *)
(***************************************************************************)
EXTENDS PageAlloc, FiniteSets, TLAPS, FiniteSetTheorems

\* s lists the pages that nobody owns: FreeListSound for a given list.
Lists(s, n) ==
  /\ s \in [1 .. n -> Pages]
  /\ IsFreeList(s, n)
  /\ \A i, j \in 1 .. n : i # j => s[i] # s[j]
  /\ {s[i] : i \in 1 .. n} = Pages \ owned

\* FreeListSound of a state given by its parts.
SoundAt(n, top, w, own) ==
  \E s \in [1 .. n -> Pages] :
    /\ top = IF n = 0 THEN NULL ELSE s[1]
    /\ \A i \in 1 .. n : w[s[i]] = IF i = n THEN NULL ELSE s[i + 1]
    /\ \A i, j \in 1 .. n : i # j => s[i] # s[j]
    /\ {s[i] : i \in 1 .. n} = Pages \ own

IInv == TypeOK /\ FreeListSound

LEMMA SoundIsLists == FreeListSound <=> \E s : Lists(s, num_free_pages)
BY DEF FreeListSound, Lists

LEMMA NullNotPage == NULL \notin Pages /\ Pages \subseteq Words /\ NULL \in Words
                     /\ NULL = 0
BY NumPagesAssumption DEF NULL, Pages, Words

\* Both tests of alloc_page say the same: no page is left.
LEMMA ExhaustedMeans ==
  ASSUME IInv
  PROVE  /\ Exhausted <=> owned = Pages
         /\ ~Exhausted => free_pages \in Pages \ owned
<1>1. PICK s : Lists(s, num_free_pages)
  BY SoundIsLists DEF IInv
<1> DEFINE n == num_free_pages
<1>2. n \in Nat /\ owned \subseteq Pages
  BY DEF IInv, TypeOK
<1>3. CASE n = 0
  <2>1. {s[i] : i \in 1 .. n} = {}
    BY <1>3
  <2>2. owned = Pages
    BY <1>1, <1>2, <2>1 DEF Lists
  <2> QED BY <1>3, <2>2 DEF Exhausted
<1>4. CASE n # 0
  <2>1. 1 \in 1 .. n /\ free_pages = s[1]
    BY <1>1, <1>2, <1>4 DEF Lists, IsFreeList
  <2>2. s[1] \in Pages \ owned
    BY <1>1, <2>1 DEF Lists
  <2> QED BY <1>4, <2>1, <2>2, NullNotPage DEF Exhausted
<1> QED BY <1>3, <1>4

LEMMA InitIInv == Init => IInv
<1> SUFFICES ASSUME Init PROVE IInv
  OBVIOUS
<1>0. NUM_PAGES \in Nat /\ NUM_PAGES > 0
  BY NumPagesAssumption
<1>1. TypeOK
  BY <1>0 DEF Init, TypeOK, Words, Pages, NULL
<1>2. Lists([i \in 1 .. NUM_PAGES |-> i], NUM_PAGES)
  <2> DEFINE s == [i \in 1 .. NUM_PAGES |-> i]
  <2>1. s \in [1 .. NUM_PAGES -> Pages]
    BY DEF Pages
  <2>2. IsFreeList(s, NUM_PAGES)
    <3>1. free_pages = s[1] /\ NUM_PAGES # 0
      BY <1>0 DEF Init
    <3>2. ASSUME NEW i \in 1 .. NUM_PAGES
          PROVE  word[s[i]] = IF i = NUM_PAGES THEN NULL ELSE s[i + 1]
      <4>1. word[s[i]] = IF i < NUM_PAGES THEN i + 1 ELSE NULL
        BY DEF Init, Pages
      <4>2. i < NUM_PAGES => i + 1 \in 1 .. NUM_PAGES
        BY <1>0
      <4> QED BY <1>0, <4>1, <4>2
    <3> HIDE DEF s
    <3> QED BY <3>1, <3>2 DEF IsFreeList
  <2>3. \A i, j \in 1 .. NUM_PAGES : i # j => s[i] # s[j]
    OBVIOUS
  <2>4. {s[i] : i \in 1 .. NUM_PAGES} = Pages \ owned
    BY DEF Init, Pages
  <2> QED BY <2>1, <2>2, <2>3, <2>4 DEF Lists
<1>3. num_free_pages = NUM_PAGES
  BY DEF Init
<1> QED BY <1>1, <1>2, <1>3, SoundIsLists DEF IInv

\* Popping the top leaves the list without its first page.
LEMMA AllocIInv == IInv /\ alloc_page => IInv'
<1> SUFFICES ASSUME IInv, alloc_page PROVE IInv'
  OBVIOUS
<1>1. PICK s : Lists(s, num_free_pages)
  BY SoundIsLists DEF IInv
<1> DEFINE n == num_free_pages
           t == [i \in 1 .. n - 1 |-> s[i + 1]]
<1>2. /\ n \in Nat /\ n > 0 /\ n <= NUM_PAGES /\ NUM_PAGES \in Nat
      /\ owned \subseteq Pages /\ word \in [Pages -> Words]
      /\ free_pages # NULL
  BY NumPagesAssumption DEF IInv, TypeOK, alloc_page, Exhausted
<1>3. /\ s \in [1 .. n -> Pages]
      /\ free_pages = s[1]
      /\ \A i \in 1 .. n : word[s[i]] = IF i = n THEN NULL ELSE s[i + 1]
      /\ \A i, j \in 1 .. n : i # j => s[i] # s[j]
      /\ {s[i] : i \in 1 .. n} = Pages \ owned
  BY <1>1, <1>2 DEF Lists, IsFreeList
<1>4. /\ free_pages' = word[s[1]]
      /\ num_free_pages' = n - 1
      /\ word' = [word EXCEPT ![s[1]] = 0]
      /\ owned' = owned \cup {s[1]}
      /\ page' = s[1]
  BY <1>3 DEF alloc_page
<1> HIDE DEF n
<1>5. 1 \in 1 .. n /\ s[1] \in Pages
  BY <1>2, <1>3
<1>6. \A i \in 1 .. n - 1 : i + 1 \in 1 .. n /\ i + 1 # 1 /\ t[i] = s[i + 1]
  BY <1>2
<1>7. TypeOK'
  <2>1. word[s[1]] \in Words
    BY <1>2, <1>5
  <2>2. n - 1 \in 0 .. NUM_PAGES
    BY <1>2
  <2> QED BY <1>2, <1>4, <1>5, <2>1, <2>2, NullNotPage DEF TypeOK
<1>8. t \in [1 .. n - 1 -> Pages]
  BY <1>3, <1>6
<1>9. free_pages' = IF n - 1 = 0 THEN NULL ELSE t[1]
  <2>1. CASE n = 1
    BY <1>2, <1>3, <1>4, <1>5, <2>1
  <2>2. CASE n # 1
    <3>1. 1 \in 1 .. n - 1 /\ 1 + 1 \in 1 .. n
      BY <1>2, <2>2
    <3>2. word[s[1]] = s[1 + 1] /\ t[1] = s[1 + 1]
      BY <1>3, <1>5, <2>2, <3>1
    <3> QED BY <1>2, <1>4, <2>2, <3>2
  <2> QED BY <2>1, <2>2
<1>10. \A i \in 1 .. n - 1 : word'[t[i]] = IF i = n - 1 THEN NULL ELSE t[i + 1]
  <2> TAKE i \in 1 .. n - 1
  <2>1. i + 1 \in 1 .. n /\ t[i] = s[i + 1] /\ s[i + 1] # s[1] /\ s[i + 1] \in Pages
    BY <1>3, <1>5, <1>6
  <2>2. word'[t[i]] = word[s[i + 1]]
    BY <1>2, <1>4, <2>1
  <2>3. word[s[i + 1]] = IF i + 1 = n THEN NULL ELSE s[i + 1 + 1]
    BY <1>3, <2>1
  <2>4. CASE i = n - 1
    BY <1>2, <2>2, <2>3, <2>4
  <2>5. CASE i # n - 1
    <3>1. i + 1 \in 1 .. n - 1
      BY <1>2, <2>5
    <3>2. t[i + 1] = s[i + 1 + 1]
      BY <3>1
    <3>3. i + 1 # n
      BY <1>2, <2>5
    <3> QED BY <2>2, <2>3, <2>5, <3>2, <3>3
  <2> QED BY <2>4, <2>5
<1>11. \A i, j \in 1 .. n - 1 : i # j => t[i] # t[j]
  <2> TAKE i, j \in 1 .. n - 1
  <2> HAVE i # j
  <2>1. i + 1 # j + 1 /\ i + 1 \in 1 .. n /\ j + 1 \in 1 .. n
    BY <1>6
  <2> QED BY <1>3, <1>6, <2>1
<1>12. {t[i] : i \in 1 .. n - 1} = Pages \ owned'
  <2>1. ASSUME NEW i \in 1 .. n - 1 PROVE t[i] \in Pages \ owned'
    <3>1. t[i] = s[i + 1] /\ i + 1 \in 1 .. n /\ s[i + 1] # s[1]
      BY <1>3, <1>5, <1>6
    <3>2. s[i + 1] \in Pages \ owned
      BY <1>3, <3>1
    <3> QED BY <1>4, <3>1, <3>2
  <2>2. ASSUME NEW p \in Pages \ owned'
        PROVE  \E i \in 1 .. n - 1 : t[i] = p
    <3>1. p \in Pages \ owned /\ p # s[1]
      BY <1>4
    <3>2. PICK k \in 1 .. n : s[k] = p
      BY <1>3, <3>1
    <3>3. k # 1 /\ k - 1 \in 1 .. n - 1 /\ (k - 1) + 1 = k
      BY <1>2, <3>1, <3>2
    <3>4. t[k - 1] = p
      BY <3>2, <3>3
    <3> QED BY <3>3, <3>4
  <2> QED BY <2>1, <2>2
<1> HIDE DEF t
<1>13. FreeListSound'
  <2>1. FreeListSound' <=> SoundAt(n - 1, free_pages', word', owned')
    BY <1>4 DEF FreeListSound, IsFreeList, SoundAt, n
  <2> QED BY <1>8, <1>9, <1>10, <1>11, <1>12, <2>1 DEF SoundAt
<1> QED BY <1>7, <1>13 DEF IInv

\* Pushing a page puts it in front of the list.
LEMMA FreeIInv == ASSUME IInv, NEW p \in Pages, free_page(p) PROVE IInv'
<1>1. PICK s : Lists(s, num_free_pages)
  BY SoundIsLists DEF IInv
<1> DEFINE n == num_free_pages
           t == [i \in 1 .. n + 1 |-> IF i = 1 THEN p ELSE s[i - 1]]
<1>2. /\ n \in Nat /\ n <= NUM_PAGES /\ NUM_PAGES \in Nat
      /\ owned \subseteq Pages /\ word \in [Pages -> Words]
      /\ p \in owned /\ free_pages \in Words
  BY NumPagesAssumption DEF IInv, TypeOK, free_page
<1>3. /\ s \in [1 .. n -> Pages]
      /\ free_pages = IF n = 0 THEN NULL ELSE s[1]
      /\ \A i \in 1 .. n : word[s[i]] = IF i = n THEN NULL ELSE s[i + 1]
      /\ \A i, j \in 1 .. n : i # j => s[i] # s[j]
      /\ {s[i] : i \in 1 .. n} = Pages \ owned
  BY <1>1 DEF Lists, IsFreeList
<1>4. /\ free_pages' = p
      /\ num_free_pages' = n + 1
      /\ word' = [word EXCEPT ![p] = free_pages]
      /\ owned' = owned \ {p}
      /\ page' = page
  BY DEF free_page
<1> HIDE DEF n
<1>5. \A i \in 1 .. n : s[i] \in Pages /\ s[i] # p
  BY <1>2, <1>3
<1>6. \A i \in 1 .. n + 1 : i # 1 => i - 1 \in 1 .. n /\ t[i] = s[i - 1]
  BY <1>2
<1>7. 1 \in 1 .. n + 1 /\ t[1] = p
  BY <1>2
<1>8. t \in [1 .. n + 1 -> Pages]
  BY <1>5, <1>6, <1>7
<1> HIDE DEF t
<1>9. \A i \in 1 .. n + 1 : word'[t[i]] = IF i = n + 1 THEN NULL ELSE t[i + 1]
  <2> TAKE i \in 1 .. n + 1
  <2>0. i # n + 1 => i + 1 \in 1 .. n + 1 /\ i + 1 # 1 /\ (i + 1) - 1 = i
    BY <1>2
  <2>1. CASE i = 1
    <3>1. word'[t[i]] = free_pages
      BY <1>2, <1>4, <1>7, <2>1
    <3>2. CASE n = 0
      BY <1>3, <2>1, <3>1, <3>2
    <3>3. CASE n # 0
      <4>1. i # n + 1
        BY <1>2, <2>1, <3>3
      <4>2. t[i + 1] = s[(i + 1) - 1]
        BY <1>6, <2>0, <4>1
      <4> QED BY <1>3, <2>0, <2>1, <3>1, <3>3, <4>1, <4>2
    <3> QED BY <3>2, <3>3
  <2>2. CASE i # 1
    <3> DEFINE k == i - 1
    <3>1. k \in 1 .. n /\ t[i] = s[k] /\ k + 1 = i
      BY <1>2, <1>6, <2>2
    <3>2. word'[t[i]] = word[s[k]]
      BY <1>2, <1>4, <1>5, <3>1
    <3>3. word[s[k]] = IF k = n THEN NULL ELSE s[k + 1]
      BY <1>3, <3>1
    <3>4. i # n + 1 => t[i + 1] = s[i]
      BY <1>6, <2>0
    <3> QED BY <1>2, <3>1, <3>2, <3>3, <3>4
  <2> QED BY <2>1, <2>2
<1>10. \A i, j \in 1 .. n + 1 : i # j => t[i] # t[j]
  <2> TAKE i, j \in 1 .. n + 1
  <2> HAVE i # j
  <2>1. CASE i = 1
    BY <1>5, <1>6, <1>7, <2>1
  <2>2. CASE j = 1
    BY <1>5, <1>6, <1>7, <2>2
  <2>3. CASE i # 1 /\ j # 1
    <3>1. i - 1 # j - 1
      BY <1>2
    <3> QED BY <1>3, <1>6, <2>3, <3>1
  <2> QED BY <2>1, <2>2, <2>3
<1>11. {t[i] : i \in 1 .. n + 1} = Pages \ owned'
  <2>1. ASSUME NEW i \in 1 .. n + 1 PROVE t[i] \in Pages \ owned'
    <3>1. CASE i = 1
      BY <1>4, <1>7, <3>1
    <3>2. CASE i # 1
      <4>1. i - 1 \in 1 .. n /\ t[i] = s[i - 1]
        BY <1>6, <3>2
      <4>2. s[i - 1] \in Pages \ owned
        BY <1>3, <4>1
      <4> QED BY <1>4, <4>1, <4>2
    <3> QED BY <3>1, <3>2
  <2>2. ASSUME NEW q \in Pages \ owned'
        PROVE  \E i \in 1 .. n + 1 : t[i] = q
    <3>1. CASE q = p
      BY <1>7, <3>1
    <3>2. CASE q # p
      <4>1. q \in Pages \ owned
        BY <1>4, <3>2
      <4>2. PICK k \in 1 .. n : s[k] = q
        BY <1>3, <4>1
      <4>3. k + 1 \in 1 .. n + 1 /\ k + 1 # 1 /\ (k + 1) - 1 = k
        BY <1>2
      <4>4. t[k + 1] = q
        BY <1>6, <4>2, <4>3
      <4> QED BY <4>3, <4>4
    <3> QED BY <3>1, <3>2
  <2> QED BY <2>1, <2>2
<1>12. FreeListSound'
  <2>1. FreeListSound' <=> SoundAt(n + 1, free_pages', word', owned')
    BY <1>4 DEF FreeListSound, IsFreeList, SoundAt, n
  <2>2. n + 1 # 0
    BY <1>2
  <2> QED BY <1>4, <1>7, <1>8, <1>9, <1>10, <1>11, <2>1, <2>2 DEF SoundAt
<1>13. TypeOK'
  <2>1. n + 1 \in 0 .. NUM_PAGES
    <3>1. t \in Injection(1 .. n + 1, Pages)
      BY <1>8, <1>10 DEF Injection, IsInjective
    <3>2. /\ IsFiniteSet(1 .. n + 1) /\ Cardinality(1 .. n + 1) = n + 1
          /\ IsFiniteSet(Pages) /\ Cardinality(Pages) = NUM_PAGES
      BY <1>2, FS_Interval DEF Pages
    <3>3. Cardinality(1 .. n + 1) <= Cardinality(Pages)
      BY <3>1, <3>2, FS_Injection
    <3> QED BY <1>2, <3>2, <3>3
  <2>2. page \in Words
    BY DEF IInv, TypeOK
  <2> QED BY <1>2, <1>4, <2>1, <2>2, NullNotPage DEF TypeOK
<1> QED BY <1>12, <1>13 DEF IInv

\* A store to an owned page changes no link of the list.
LEMMA StoreIInv ==
  ASSUME IInv, NEW p \in Pages, NEW v \in Words, Store(p, v)
  PROVE  IInv'
<1>1. /\ p \in owned
      /\ word' = [word EXCEPT ![p] = v]
      /\ UNCHANGED <<free_pages, num_free_pages, owned, page>>
  BY DEF Store
<1>2. TypeOK'
  BY <1>1 DEF IInv, TypeOK
<1>3. PICK s : Lists(s, num_free_pages)
  BY SoundIsLists DEF IInv
<1>4. \A i \in 1 .. num_free_pages : s[i] \in Pages /\ s[i] \notin owned
  BY <1>3 DEF Lists
<1>5. \A i \in 1 .. num_free_pages : word'[s[i]] = word[s[i]]
  BY <1>1, <1>4 DEF IInv, TypeOK
<1>6. FreeListSound'
  <2> DEFINE n == num_free_pages
  <2>1. FreeListSound' <=> SoundAt(n, free_pages, word', owned)
    BY <1>1 DEF FreeListSound, IsFreeList, SoundAt
  <2>2. /\ s \in [1 .. n -> Pages]
        /\ free_pages = IF n = 0 THEN NULL ELSE s[1]
        /\ \A i \in 1 .. n : word'[s[i]] = IF i = n THEN NULL ELSE s[i + 1]
        /\ \A i, j \in 1 .. n : i # j => s[i] # s[j]
        /\ {s[i] : i \in 1 .. n} = Pages \ owned
    BY <1>3, <1>5 DEF Lists, IsFreeList
  <2> HIDE DEF n
  <2> QED BY <2>1, <2>2 DEF SoundAt
<1> QED BY <1>2, <1>6 DEF IInv

-----------------------------------------------------------------------------
\* The contents of the owned pages, as the pool sees them.
Data == [p \in owned |-> word[p]]

\* Every step keeps the free list and is a step of the pool.
LEMMA StepCases ==
  ASSUME IInv, [Next]_vars
  PROVE  IInv' /\ [Pool!Next]_<<owned, Data, page>>
<1>t. word \in [Pages -> Words] /\ owned \subseteq Pages
  BY DEF IInv, TypeOK
<1>1. CASE UNCHANGED vars
  BY <1>1 DEF vars, IInv, TypeOK, FreeListSound, IsFreeList, Data
<1>2. CASE alloc_page
  <2>1. IInv'
    BY <1>2, AllocIInv
  <2>2. free_pages \in Pages \ owned
    BY <1>2, ExhaustedMeans DEF alloc_page
  <2>3. /\ owned' = owned \cup {free_pages}
        /\ word' = [word EXCEPT ![free_pages] = 0]
        /\ page' = free_pages
    BY <1>2 DEF alloc_page
  <2>4. Data' = [q \in owned \cup {free_pages} |->
                  IF q = free_pages THEN 0 ELSE Data[q]]
    BY <1>t, <2>2, <2>3 DEF Data
  <2>5. Pool!Alloc
    BY <2>2, <2>3, <2>4 DEF Pool!Alloc, Data
  <2> QED BY <2>1, <2>5 DEF Pool!Next, Data
<1>3. CASE alloc_page_fails
  <2>1. owned = Pages /\ page' = NULL
        /\ UNCHANGED <<free_pages, num_free_pages, word, owned>>
    BY <1>3, ExhaustedMeans DEF alloc_page_fails
  <2>2. IInv'
    <3>1. TypeOK'
      BY <2>1 DEF IInv, TypeOK, Words
    <3>2. FreeListSound'
      <4>1. FreeListSound' <=>
              SoundAt(num_free_pages', free_pages', word', owned')
        BY DEF FreeListSound, IsFreeList, SoundAt
      <4>2. SoundAt(num_free_pages, free_pages, word, owned)
        BY DEF IInv, FreeListSound, IsFreeList, SoundAt
      <4> QED BY <2>1, <4>1, <4>2
    <3> QED BY <3>1, <3>2 DEF IInv
  <2>3. Pool!Fail
    BY <2>1 DEF Pool!Fail, Data
  <2> QED BY <2>2, <2>3 DEF Pool!Next, Data
<1>4. ASSUME NEW p \in Pages, free_page(p)
      PROVE  IInv' /\ [Pool!Next]_<<owned, Data, page>>
  <2>1. IInv'
    BY <1>4, FreeIInv
  <2>2. /\ p \in owned
        /\ owned' = owned \ {p}
        /\ word' = [word EXCEPT ![p] = free_pages]
        /\ page' = page
    BY <1>4 DEF free_page
  <2>3. Data' = [q \in owned \ {p} |-> Data[q]]
    BY <1>t, <2>2 DEF Data
  <2>4. Pool!Free(p)
    BY <2>2, <2>3 DEF Pool!Free, Data
  <2> QED BY <2>1, <2>2, <2>4 DEF Pool!Next, Data
<1>5. ASSUME NEW p \in Pages, NEW v \in Words, Store(p, v)
      PROVE  IInv' /\ [Pool!Next]_<<owned, Data, page>>
  <2>1. IInv'
    BY <1>5, StoreIInv
  <2>2. /\ p \in owned
        /\ word' = [word EXCEPT ![p] = v]
        /\ owned' = owned /\ page' = page
    BY <1>5 DEF Store
  <2>3. Data' = [Data EXCEPT ![p] = v]
    BY <1>t, <2>2 DEF Data
  <2>4. Pool!Store(p, v)
    BY <2>2, <2>3 DEF Pool!Store, Data
  <2> QED BY <2>1, <2>2, <2>4 DEF Pool!Next, Data
<1> QED BY <1>1, <1>2, <1>3, <1>4, <1>5 DEF Next

\* alloc_page, free_page and the owners' stores keep IInv.
THEOREM PageAllocIInv == Spec => []IInv
<1>1. IInv /\ [Next]_vars => IInv'
  BY StepCases
<1> QED BY <1>1, InitIInv, PTL DEF Spec

\* The list head and the words of the pages keep their types, and
\* num_free_pages never passes the number of pages.
THEOREM AllocTypeCorrect == Spec => []TypeOK
<1>1. IInv => TypeOK
  BY DEF IInv
<1> QED BY <1>1, PageAllocIInv, PTL

\* The free list stays what FreeListSound says: exactly the pages nobody
\* owns, each once, as many as num_free_pages counts, for any number of pages
\* and whatever the owners store in theirs.
THEOREM FreeListSafe == Spec => []FreeListSound
<1>1. IInv => FreeListSound
  BY DEF IInv
<1> QED BY <1>1, PageAllocIInv, PTL

\* alloc_page and free_page implement the pool: no page has two owners, a
\* page arrives cleared, its contents are left alone while it is owned, and
\* allocation fails only when every page is owned.
THEOREM AllocIsPool == Spec => ImplementsPool
<1>1. Init => Pool!Init
  BY DEF Init, Pool!Init
<1>2. IInv /\ [Next]_vars => IInv' /\ [Pool!Next]_<<owned, Data, page>>
  BY StepCases
<1> QED BY <1>1, <1>2, InitIInv, PTL DEF Spec, ImplementsPool, Pool!Spec, Data

=============================================================================
