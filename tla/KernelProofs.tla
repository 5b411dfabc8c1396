---------------------------- MODULE KernelProofs ----------------------------
(***************************************************************************)
(* The kernel's page table from kvminit on, test_vm, and the line editor   *)
(* of the shell, from the proofs about the tables.  BootInv says at each   *)
(* place of kernel_main what the address spaces hold: while kvminit runs,  *)
(* the regions before the present one and the pages of that one below the  *)
(* page mappages is at.  Since no two regions share a page, mappages finds *)
(* none of them mapped and can fail for lack of pages only.                *)
(***************************************************************************)
EXTENDS Kernel, PageTableProofs

\* Most steps are first-order; a leaf that needs arithmetic, functions or records
\* names SMT.
USE Zenon

-----------------------------------------------------------------------------
\* Regions that end below MAXVA.
LEMMA RegionFacts ==
  ASSUME NEW va \in Address, NEW size \in Address, size # 0, va + size <= MAXVA
  PROVE  /\ size <= WORD - PGSIZE
         /\ va \div PGSIZE \in Nat /\ (va + size - 1) \div PGSIZE \in Nat
         /\ va \div PGSIZE <= (va + size - 1) \div PGSIZE
         /\ Last(va, size) = ((va + size - 1) \div PGSIZE) * PGSIZE
         /\ \A v \in Nat : v <= (va + size - 1) \div PGSIZE => v * PGSIZE < MAXVA
<1>1. /\ va \in Nat /\ size \in Nat /\ PGSIZE \in Nat \ {0} /\ WORD \in Nat \ {0}
      /\ MAXVA < WORD
  BY PageTableAssumption, SMT DEF Address
<1> DEFINE b == va + size - 1
           m == MAXVA \div PGSIZE
           w == WORD \div PGSIZE
<1>2. MAXVA \in Nat  BY MaxPages
<1>3. b \in Nat /\ va <= b /\ b < MAXVA  BY <1>1, <1>2, SMT
<1>4. \A x \in Nat : /\ x \div PGSIZE \in Nat /\ PGSIZE * (x \div PGSIZE) <= x
  BY <1>1, DivBelow
<1>5. \A x, y \in Nat : x <= y => x \div PGSIZE <= y \div PGSIZE
  <2>1. SUFFICES ASSUME NEW x \in Nat, NEW y \in Nat, x <= y
                 PROVE  x \div PGSIZE <= y \div PGSIZE
    OBVIOUS
  <2> DEFINE q == x \div PGSIZE
             p == y \div PGSIZE
             r == y % PGSIZE
  <2>2. q \in Nat /\ PGSIZE * q <= x  BY <1>4
  <2>3. p \in Nat /\ r \in 0 .. PGSIZE - 1 /\ y = PGSIZE * p + r  BY <1>1, DivMod
  <2> HIDE DEF p, q, r
  <2>4. PGSIZE * q < PGSIZE * (p + 1)  BY <1>1, <2>1, <2>2, <2>3, SMT
  <2>5. q < p + 1  BY <1>1, <2>2, <2>3, <2>4, SMT
  <2>6. q <= p  BY <2>2, <2>3, <2>5, SMT
  <2> QED BY <2>6 DEF p, q
<1>6. va \div PGSIZE \in Nat /\ b \div PGSIZE \in Nat /\ va \div PGSIZE <= b \div PGSIZE
  BY <1>1, <1>3, <1>4, <1>5
<1>7. Last(va, size) = (b \div PGSIZE) * PGSIZE
  <2>1. b % WORD = b  BY <1>1, <1>2, <1>3, SMT
  <2> QED BY <2>1 DEF Last, RoundDown
<1>8. size <= WORD - PGSIZE
  <2>1. m \in Nat /\ MAXVA = PGSIZE * m  BY MaxPages
  <2>2. w \in Nat /\ WORD = PGSIZE * w  BY <1>1, DivMod, PageTableAssumption, SMT
  <2> HIDE DEF m, w
  <2>3. m < w  BY <1>1, <2>1, <2>2, SMT
  <2>4. PGSIZE * m + PGSIZE <= PGSIZE * w  BY <1>1, <2>1, <2>2, <2>3, SMT
  <2> QED BY <1>1, <1>2, <2>1, <2>2, <2>4, SMT
<1>9. \A v \in Nat : v <= b \div PGSIZE => v * PGSIZE < MAXVA
  <2>1. SUFFICES ASSUME NEW v \in Nat, v <= b \div PGSIZE PROVE v * PGSIZE < MAXVA
    OBVIOUS
  <2> DEFINE q == b \div PGSIZE
  <2>2. q \in Nat /\ PGSIZE * q <= b /\ v <= q  BY <1>3, <1>4, <2>1
  <2> HIDE DEF q
  <2>3. v * PGSIZE <= PGSIZE * q  BY <1>1, <2>2, SMT
  <2>4. v * PGSIZE \in Nat /\ PGSIZE * q \in Nat  BY <1>1, <2>2, SMT
  <2> QED BY <1>2, <1>3, <2>2, <2>3, <2>4, SMT
<1> QED BY <1>6, <1>7, <1>8, <1>9

\* A step of mappages for such a region, at a page that is not mapped.
LEMMA BootWork ==
  ASSUME PageInv, CallSound, Work, Running, call.op = "mappages",
         call.va + call.size <= MAXVA,
         VPage \in call.va \div PGSIZE .. (call.va + call.size - 1) \div PGSIZE,
         VPage \notin DOMAIN space[call.pagetable]
  PROVE  LET end == (call.va + call.size - 1) \div PGSIZE IN
         \/ Walks
         \/ Fails /\ owned = Pages
         \/ Maps /\ VPage = end /\ call' = NULL /\ ret' = "ok"
         \/ /\ Maps /\ SameCall /\ ret' = ret
            /\ VPage' = VPage + 1 /\ VPage' \in call.va \div PGSIZE .. end
<1> DEFINE end == (call.va + call.size - 1) \div PGSIZE
<1>1. Walks \/ Fails \/ Remaps \/ Maps  BY MapWork
<1>2. /\ call.va \in Address /\ call.size \in Address /\ call.size # 0
      /\ call.last = Last(call.va, call.size)
  BY WalkStands DEF CallSound, CallsUnderWay
<1>3. /\ call.va \div PGSIZE \in Nat /\ end \in Nat
      /\ call.last = end * PGSIZE
      /\ \A v \in Nat : v <= end => v * PGSIZE < MAXVA
  BY <1>2, RegionFacts
<1>4. VPage \in Nat /\ VPage <= end  BY <1>3, SMT
<1>5. call.a = VPage * PGSIZE  BY DEF PageInv, WalkSound
<1> HIDE DEF end
<1>6. CASE Fails
  <2>1. VPage * PGSIZE < MAXVA  BY <1>3, <1>4
  <2>2. MAXVA \in Nat /\ VPage * PGSIZE \in Nat
    BY <1>4, MaxPages, PageTableAssumption, SMT
  <2>3. ~(call.a >= MAXVA)  BY <1>5, <2>1, <2>2, SMT
  <2>4. owned = Pages  BY <1>6, <2>3 DEF Fails
  <2> QED BY <1>6, <2>4
<1>7. CASE Remaps
  BY <1>7 DEF Remaps
<1>8. CASE Maps /\ call.a = call.last
  <2>1. VPage = end  BY <1>3, <1>4, <1>5, <1>8, PageTableAssumption, SMT
  <2> QED BY <1>8, <2>1 DEF Maps, end
<1>9. CASE Maps /\ call.a # call.last
  <2>1. VPage # end  BY <1>3, <1>5, <1>9
  <2>2. SameCall /\ ret' = ret /\ call'.a = (VPage + 1) * PGSIZE  BY <1>9 DEF Maps
  <2>3. VPage' = VPage + 1
    <3>1. PICK q \in Nat : q = VPage + 1  BY <1>4, SMT
    <3>2. PGSIZE * q + 0 = q * PGSIZE /\ 0 \in 0 .. PGSIZE - 1  BY PageTableAssumption, SMT
    <3>3. (PGSIZE * q + 0) \div PGSIZE = q  BY <3>2, PageTableAssumption, DivUnique
    <3> QED BY <2>2, <3>1, <3>2, <3>3 DEF VPage
  <2>4. VPage' \in call.va \div PGSIZE .. end  BY <1>3, <1>4, <2>1, <2>3, SMT
  <2> QED BY <1>9, <2>2, <2>3, <2>4 DEF end
<1> QED BY <1>1, <1>6, <1>7, <1>8, <1>9

\* Identity mappings stay so: the frame of a page of such a call is the page.
LEMMA IdentityFrame ==
  ASSUME PageInv, CallSound, Running, call.op = "mappages", call.frame = call.va,
         VPage \in VPages
  PROVE  RoundDown(call.pa) = VPage * PGSIZE
<1> DEFINE first == call.va \div PGSIZE
           off == call.va % PGSIZE
           n == VPage - first
<1>1. call.va \in Nat /\ call.a \in Nat /\ PGSIZE \in Nat \ {0} /\ WORD \in Nat \ {0}
  BY WalkStands, PageTableAssumption, SMT DEF CallsUnderWay, Address
<1>2. first \in Nat /\ off \in 0 .. PGSIZE - 1 /\ call.va = PGSIZE * first + off
  BY <1>1, DivMod
<1>3. VPage \in Nat  BY PagesBelow
<1>4. n \in Nat /\ call.pa = (call.va + n * PGSIZE) % WORD  BY DEF CallSound
<1>5. VPage = first + n  BY <1>2, <1>3, SMT
<1> HIDE DEF first, off, n
<1>6. call.va + n * PGSIZE = PGSIZE * VPage + off
  <2>1. PGSIZE * VPage = PGSIZE * first + n * PGSIZE  BY <1>1, <1>2, <1>4, <1>5, SMT
  <2> QED BY <1>1, <1>2, <1>4, <2>1, SMT
<1>7. PGSIZE * VPage + off < WORD
  <2> DEFINE m == MAXVA \div PGSIZE
  <2>1. MAXVA \in Nat  BY MaxPages
  <2>2. m \in Nat /\ MAXVA = PGSIZE * m  BY MaxPages
  <2>3. VPage < m  BY <1>3, <2>2, SMT DEF VPages
  <2> HIDE DEF m
  <2>4. PGSIZE * VPage + PGSIZE <= PGSIZE * m  BY <1>1, <1>3, <2>2, <2>3, SMT
  <2> QED BY <1>1, <1>2, <1>3, <2>1, <2>2, <2>4, PageTableAssumption, SMT
<1>8. call.pa = PGSIZE * VPage + off  BY <1>1, <1>2, <1>3, <1>4, <1>6, <1>7, SMT
<1>9. call.pa \div PGSIZE = VPage  BY <1>1, <1>2, <1>3, <1>8, DivUnique
<1> QED BY <1>9 DEF RoundDown

-----------------------------------------------------------------------------
\* The pages of the first n regions, and the identity on pages.
Before(n) == UNION {PagesOf(Regions[i]) : i \in 1 .. n}
IdentityOn(S) == [v \in S |-> v * PGSIZE]

\* kvminit: the regions before the present one are mapped, and the pages of
\* the present one below the page that mappages is at.
RegionsSound ==
  /\ ret = "ok" /\ ~Running => space[kernel_pagetable] = IdentityOn(Before(mapped))
  /\ Running =>
       /\ ret = "ok" /\ mapped > 0 /\ call.op = "mappages"
       /\ call.pagetable = kernel_pagetable /\ call.va = Regions[mapped][1]
       /\ call.size = Regions[mapped][2] /\ call.frame = call.va
       /\ VPage \in PagesOf(Regions[mapped])
       /\ space[kernel_pagetable] =
            IdentityOn(Before(mapped - 1) \cup (call.va \div PGSIZE .. VPage - 1))

\* test_vm: the pages below the one that mappages is at are mapped.
TestSound ==
  LET first == TEST_VM[1] \div PGSIZE IN
  /\ ret = "ok" /\ ~Running => first \in DOMAIN space[pt] /\ space[pt][first] = TEST_VM[3]
  /\ Running =>
       /\ ret = "ok" /\ call.op = "mappages" /\ call.pagetable = pt
       /\ call.va = TEST_VM[1] /\ call.size = TEST_VM[2] /\ call.frame = TEST_VM[3]
       /\ VPage \in PagesOf(TEST_VM)
       /\ DOMAIN space[pt] = first .. VPage - 1

Early == {"clients", "kvminit", "regions"}
Late == {"run_shell", "read", "command", "exited"}

BootInv ==
  /\ main \in Early \cup {"test_vm", "mappages", "walkaddr"} \cup Late
  /\ mapped \in 0 .. Len(Regions)
  /\ main \in Early => satp = NULL
  /\ main = "kvminit" =>
       roots = {} /\ call = NULL /\ ret \in {"ok", "panic"} /\ mapped = 0
  /\ main = "regions" => roots = {kernel_pagetable} /\ RegionsSound
  /\ main \notin Early =>
       /\ satp = kernel_pagetable /\ kernel_pagetable \in roots
       /\ space[kernel_pagetable] = IdentityOn(Before(Len(Regions)))
  /\ main = "test_vm" => roots = {kernel_pagetable} /\ call = NULL /\ ret = "ok"
  /\ main \in {"mappages", "walkaddr"} =>
       roots = {kernel_pagetable, pt} /\ pt # kernel_pagetable
  /\ main = "mappages" => call = NULL /\ ret = "ok" /\ DOMAIN space[pt] = {}
  /\ main = "walkaddr" => TestSound
  /\ main \in {"kvminit", "regions", "walkaddr"} /\ ret # "ok" => owned = Pages
  /\ main \in Late => call = NULL /\ (roots = {kernel_pagetable} \/ owned = Pages)
  /\ main \in Late \ {"command"} => ret # "panic"

\* The line editor.
LineInv ==
  main \in {"read", "command"} =>
    /\ buffer \in [Places -> Chars \cup {NUL}] /\ line \in Seq(Chars)
    /\ pos = Len(line) /\ pos < SHELL_BUFFER_SIZE
    /\ \A i \in 1 .. pos : buffer[i - 1] = line[i]
    /\ main = "command" => buffer[pos] = NUL

LEMMA RegionArgs ==
  /\ Len(Regions) \in Nat
  /\ \A i \in 1 .. Len(Regions) :
       /\ Regions[i][1] \in Address /\ Regions[i][2] \in Address /\ Regions[i][2] # 0
       /\ Regions[i][1] + Regions[i][2] <= MAXVA
       /\ Regions[i][2] <= WORD - PGSIZE
  /\ TEST_VM[1] \in Address /\ TEST_VM[2] \in Address /\ TEST_VM[3] \in Address
  /\ TEST_VM[2] # 0 /\ TEST_VM[1] + TEST_VM[2] <= MAXVA /\ TEST_VM[2] <= WORD - PGSIZE
<1>1. Len(Regions) \in Nat /\ DOMAIN Regions = 1 .. Len(Regions)  BY KernelAssumption, SMT
<1>2. ASSUME NEW i \in 1 .. Len(Regions)
      PROVE  /\ Regions[i][1] \in Address /\ Regions[i][2] \in Address
             /\ Regions[i][2] # 0 /\ Regions[i][1] + Regions[i][2] <= MAXVA
  <2>1. Regions[i] \in Address \X (Address \ {0})  BY <1>1, KernelAssumption, SMT
  <2> QED BY <1>1, <2>1, KernelAssumption
<1>3. ASSUME NEW i \in 1 .. Len(Regions) PROVE Regions[i][2] <= WORD - PGSIZE
  BY <1>2, RegionFacts
<1>4. /\ TEST_VM[1] \in Address /\ TEST_VM[2] \in Address /\ TEST_VM[3] \in Address
      /\ TEST_VM[2] # 0 /\ TEST_VM[1] + TEST_VM[2] <= MAXVA
  BY KernelAssumption
<1>5. TEST_VM[2] <= WORD - PGSIZE  BY <1>4, RegionFacts
<1> QED BY <1>1, <1>2, <1>3, <1>4, <1>5

LEMMA BeforeFacts ==
  /\ Before(0) = {}
  /\ Before(Len(Regions)) = UNION {PagesOf(Regions[i]) : i \in DOMAIN Regions}
  /\ \A n \in 1 .. Len(Regions) :
       /\ Before(n) = Before(n - 1) \cup PagesOf(Regions[n])
       /\ Before(n - 1) \cap PagesOf(Regions[n]) = {}
<1>1. Len(Regions) \in Nat /\ DOMAIN Regions = 1 .. Len(Regions)  BY KernelAssumption, SMT
<1>2. Before(0) = {}
  <2>1. 1 .. 0 = {}  BY SMT
  <2> QED BY <2>1 DEF Before
<1>3. Before(Len(Regions)) = UNION {PagesOf(Regions[i]) : i \in DOMAIN Regions}
  BY <1>1 DEF Before
<1>4. ASSUME NEW n \in 1 .. Len(Regions)
      PROVE  Before(n) = Before(n - 1) \cup PagesOf(Regions[n])
  <2>1. 1 .. n = (1 .. n - 1) \cup {n}  BY SMT
  <2>2. \A x, m : x \in Before(m) <=> \E i \in 1 .. m : x \in PagesOf(Regions[i])
    BY DEF Before
  <2> QED BY <2>1, <2>2
<1>5. ASSUME NEW n \in 1 .. Len(Regions)
      PROVE  Before(n - 1) \cap PagesOf(Regions[n]) = {}
  <2>1. \A i \in 1 .. n - 1 : PagesOf(Regions[i]) \cap PagesOf(Regions[n]) = {}
    <3>1. \A i \in 1 .. n - 1 : i \in DOMAIN Regions /\ n \in DOMAIN Regions /\ i # n
      BY <1>1, SMT
    <3> QED BY <3>1, KernelAssumption
  <2> QED BY <2>1 DEF Before
<1> QED BY <1>1, <1>2, <1>3, <1>4, <1>5

\* The tables of the kernel and of test_vm are tables like any other.
LEMMA KernelPageStep ==
  ASSUME PageInv, CallSound, BootInv, KernelNext
  PROVE  PageInv' /\ CallSound'
<1>1. CASE Calls  BY <1>1, CallsStep, CallsSound
<1>2. CASE Work  BY <1>2, WorkStep, WorkSound
<1>3. CASE UNCHANGED vars  BY <1>3, StutterStep, StutterSound
<1>4. ASSUME NEW p \in Pages, vm_create_user_pagetable(p) PROVE PageInv' /\ CallSound'
  <2>1. CallSound'  BY <1>4 DEF vm_create_user_pagetable, Ready, Running, CallSound
  <2> QED BY <1>4, <2>1, CreateStep
<1>5. ASSUME Return("panic"), UNCHANGED <<owned, table, roots, space>>
      PROVE  PageInv' /\ CallSound'
  <2>1. PageInv'  BY <1>5, EndStep DEF Return
  <2> QED BY <1>5, <2>1 DEF Return, CallSound, Running
<1>6. ASSUME NEW r \in roots, NEW va \in Address, NEW size \in Address,
             NEW pa \in Address, size <= WORD - PGSIZE, mappages(r, va, size, pa)
      PROVE  PageInv' /\ CallSound'
  BY <1>6, StartStep, StartSound DEF mappages
<1>7. CASE kvminit  BY <1>4, <1>5, <1>7 DEF kvminit
<1>8. CASE kvminit_region
  <2>1. CASE ret = "failed"  BY <1>5, <1>8, <2>1 DEF kvminit_region
  <2>2. CASE ret # "failed"
    <3> DEFINE i == mapped + 1
    <3>1. i \in 1 .. Len(Regions)  BY <1>8, RegionArgs, SMT DEF kvminit_region, BootInv
    <3>2. mappages(kernel_pagetable, Regions[i][1], Regions[i][2], Regions[i][1])
      BY <1>8, <2>2 DEF kvminit_region, Identity
    <3>3. kernel_pagetable \in roots  BY <1>8 DEF kvminit_region, At, BootInv
    <3> HIDE DEF i
    <3> QED BY <1>6, <3>1, <3>2, <3>3, RegionArgs
  <2> QED BY <2>1, <2>2
<1>9. CASE kvminithart  BY <1>3, <1>5, <1>9 DEF kvminithart
<1>10. CASE test_vm  BY <1>3, <1>4, <1>10 DEF test_vm, vars
<1>11. CASE test_vm_map
  <2>1. pt \in roots  BY <1>11 DEF test_vm_map, At, BootInv
  <2> QED BY <1>6, <1>11, <2>1, RegionArgs DEF test_vm_map
<1>12. CASE test_vm_free
  <2>1. pt \in roots  BY <1>12 DEF test_vm_free, At, BootInv
  <2>2. vm_free(pt) \/ UNCHANGED vars  BY <1>12 DEF test_vm_free
  <2>3. CASE vm_free(pt)
    <3>1. CallSound'  BY <2>3 DEF vm_free, Ready, Running, CallSound
    <3> QED BY <2>1, <2>3, <3>1, FreeStep
  <2> QED BY <1>3, <2>2, <2>3
<1>13. CASE reboot  BY <1>3, <1>5, <1>13 DEF reboot
<1>14. CASE run_shell \/ (\E c \in Chars : Type(c)) \/ Backspace \/ Enter \/ Command
  <2>1. UNCHANGED vars  BY <1>14 DEF run_shell, Type, Backspace, Enter, Command, vars
  <2> QED BY <1>3, <2>1
<1> QED BY <1>1, <1>2, <1>7, <1>8, <1>9, <1>10, <1>11, <1>12, <1>13, <1>14 DEF KernelNext

-----------------------------------------------------------------------------
\* The steps of kernel_main.
LEMMA BootAtStart ==
  ASSUME KernelInit
  PROVE  BootInv /\ LineInv
<1>1. mapped \in 0 .. Len(Regions)  BY RegionArgs, SMT DEF KernelInit
<1>2. BootInv  BY <1>1 DEF KernelInit, Init, BootInv, Early, Late
<1>3. LineInv  BY DEF KernelInit, LineInv
<1> QED BY <1>2, <1>3

LEMMA BootCreate ==
  ASSUME PageInv, BootInv, kvminit
  PROVE  BootInv'
<1>1. /\ main = "kvminit" /\ call = NULL /\ ret # "panic" /\ UNCHANGED <<mapped, satp>>
  BY DEF kvminit, At, Ready, Running
<1>2. /\ satp = NULL /\ roots = {} /\ ret = "ok" /\ mapped = 0
      /\ mapped \in 0 .. Len(Regions)
  BY <1>1 DEF BootInv, Early
<1>3. CASE owned = Pages
  <2>1. call' = NULL /\ ret' = "panic" /\ UNCHANGED <<owned, roots, main>>
    BY <1>3 DEF kvminit, Return
  <2> QED BY <1>1, <1>2, <1>3, <2>1 DEF BootInv, Early, Late
<1>4. CASE owned # Pages
  <2>1. PICK p \in Pages : /\ vm_create_user_pagetable(p)
                           /\ kernel_pagetable' = p /\ main' = "regions"
    BY <1>4 DEF kvminit
  <2>2. /\ roots' = roots \cup {p} /\ UNCHANGED <<call, ret>>
        /\ space' = [q \in roots \cup {p} |->
                       IF q = p THEN [v \in {} |-> 0] ELSE space[q]]
    BY <2>1 DEF vm_create_user_pagetable
  <2>3. roots' = {kernel_pagetable'}  BY <1>2, <2>1, <2>2
  <2>4. space'[kernel_pagetable'] = IdentityOn(Before(mapped'))
    <3>1. space'[p] = [v \in {} |-> 0]  BY <2>2
    <3>2. [v \in {} |-> 0] = [v \in {} |-> v * PGSIZE]  OBVIOUS
    <3> QED BY <1>1, <1>2, <2>1, <3>1, <3>2, BeforeFacts DEF IdentityOn
  <2>5. RegionsSound'  BY <1>1, <2>2, <2>4 DEF RegionsSound, Running
  <2> QED BY <1>1, <1>2, <2>1, <2>2, <2>3, <2>5 DEF BootInv, Early, Late
<1> QED BY <1>3, <1>4

LEMMA BootRegion ==
  ASSUME PageInv, BootInv, kvminit_region
  PROVE  BootInv'
<1>1. /\ main = "regions" /\ main' = main /\ call = NULL /\ ret # "panic"
      /\ mapped < Len(Regions) /\ kernel_pagetable' = kernel_pagetable /\ satp' = satp
  BY DEF kvminit_region, At, Ready, Running
<1>2. /\ satp = NULL /\ roots = {kernel_pagetable} /\ RegionsSound
      /\ mapped \in 0 .. Len(Regions) /\ (ret # "ok" => owned = Pages)
  BY <1>1 DEF BootInv, Early
<1>3. CASE ret = "failed"
  <2>1. call' = NULL /\ ret' = "panic" /\ UNCHANGED <<owned, roots, mapped>>
    BY <1>3 DEF kvminit_region, Return
  <2>2. RegionsSound'  BY <2>1 DEF RegionsSound, Running
  <2>3. roots' = {kernel_pagetable'} /\ owned' = Pages  BY <1>1, <1>2, <1>3, <2>1
  <2> QED BY <1>1, <1>2, <2>1, <2>2, <2>3 DEF BootInv, Early, Late
<1>4. CASE ret # "failed"
  <2> DEFINE i == mapped + 1
             va == Regions[i][1]
             size == Regions[i][2]
  <2>1. i \in 1 .. Len(Regions)  BY <1>1, <1>2, RegionArgs, SMT
  <2>2. ret = "ok"  BY <1>1, <1>4 DEF PageInv, TypeOK
  <2>3. Start("mappages", kernel_pagetable, va, size, va) /\ mapped' = i
    BY <1>4 DEF kvminit_region, Identity, mappages
  <2>4. va \in Address /\ size \in Address /\ size # 0 /\ va + size <= MAXVA
    BY <2>1, RegionArgs
  <2>5. /\ call' = [op |-> "mappages", pagetable |-> kernel_pagetable, va |-> va,
                    size |-> size, frame |-> va, a |-> RoundDown(va),
                    last |-> Last(va, size), pa |-> va, level |-> 2,
                    at |-> kernel_pagetable]
        /\ ret' = ret /\ UNCHANGED <<owned, roots, space>>
    BY <2>3, <2>4 DEF Start
  <2>6. /\ call'.op = "mappages" /\ call'.pagetable = kernel_pagetable
        /\ call'.va = va /\ call'.size = size /\ call'.frame = va
        /\ call'.a = RoundDown(va)
    BY <2>5
  <2>7. VPage' = va \div PGSIZE  BY <2>4, <2>6, RoundDownFacts DEF VPage
  <2>8. /\ va \div PGSIZE \in Nat /\ (va + size - 1) \div PGSIZE \in Nat
        /\ va \div PGSIZE <= (va + size - 1) \div PGSIZE
    BY <2>4, RegionFacts
  <2>9. va \div PGSIZE \in PagesOf(Regions[i])  BY <2>8, SMT DEF PagesOf
  <2>10. space[kernel_pagetable] = IdentityOn(Before(mapped))
    BY <1>1, <1>2, <2>2 DEF RegionsSound, Running
  <2>11. va \div PGSIZE .. (va \div PGSIZE) - 1 = {} /\ i - 1 = mapped
    BY <1>2, <2>8, SMT
  <2>12. space'[kernel_pagetable] =
           IdentityOn(Before(i - 1) \cup (va \div PGSIZE .. (va \div PGSIZE) - 1))
    BY <2>5, <2>10, <2>11
  <2>13. i > 0 /\ i \in 0 .. Len(Regions)  BY <2>1, SMT
  <2>14. call' # NULL
    <3>1. kernel_pagetable \in roots  BY <1>2
    <3>2. call' \in CallsUnderWay  BY <2>3, <2>4, <3>1, StartedCall
    <3> QED BY <3>2, PageTableAssumption
  <2> HIDE DEF i, va, size
  <2>15. RegionsSound'
    BY <1>1, <2>2, <2>3, <2>5, <2>6, <2>7, <2>9, <2>12, <2>13, <2>14
    DEF RegionsSound, Running, va, size
  <2>16. roots' = {kernel_pagetable'} /\ ret' = "ok" /\ mapped' \in 0 .. Len(Regions)
    BY <1>1, <1>2, <2>2, <2>3, <2>5, <2>13
  <2> QED BY <1>1, <1>2, <2>15, <2>16 DEF BootInv, Early, Late
<1> QED BY <1>3, <1>4

\* A page more of the identity map.
LEMMA IdentityOneMore ==
  ASSUME NEW S, NEW v, NEW f, f = IdentityOn(S)
  PROVE  [w \in DOMAIN f \cup {v} |-> IF w = v THEN v * PGSIZE ELSE f[w]]
           = IdentityOn(S \cup {v})
BY DEF IdentityOn

LEMMA BootRegionWork ==
  ASSUME PageInv, CallSound, BootInv, main = "regions", Work, UNCHANGED kernel
  PROVE  BootInv'
<1> DEFINE K == kernel_pagetable
           va == Regions[mapped][1]
           size == Regions[mapped][2]
           first == va \div PGSIZE
           end == (va + size - 1) \div PGSIZE
<1>1. Running
  BY DEF Work, Walk, WalkBeyond, WalkDown, WalkAlloc, WalkFails, Panics, MapPage, UnmapPage
<1>2. /\ satp = NULL /\ roots = {K} /\ mapped \in 0 .. Len(Regions)
      /\ ret = "ok" /\ mapped > 0 /\ call.op = "mappages"
      /\ call.pagetable = K /\ call.va = va /\ call.size = size /\ call.frame = call.va
      /\ VPage \in PagesOf(Regions[mapped])
      /\ space[K] = IdentityOn(Before(mapped - 1) \cup (first .. VPage - 1))
  BY <1>1 DEF BootInv, Early, RegionsSound
<1>3. UNCHANGED <<main, kernel_pagetable, mapped, satp>>  BY DEF kernel
<1>4. mapped \in 1 .. Len(Regions)  BY <1>2, RegionArgs, SMT
<1>5. va \in Address /\ size \in Address /\ size # 0 /\ va + size <= MAXVA
  BY <1>4, RegionArgs
<1>6. first \in Nat /\ end \in Nat /\ first <= end  BY <1>5, RegionFacts
<1>7. PagesOf(Regions[mapped]) = first .. end  BY DEF PagesOf
<1>8. /\ Before(mapped) = Before(mapped - 1) \cup (first .. end)
      /\ Before(mapped - 1) \cap (first .. end) = {}
  BY <1>4, <1>7, BeforeFacts
<1>9. DOMAIN space[K] = Before(mapped - 1) \cup (first .. VPage - 1)
  BY <1>2 DEF IdentityOn
<1>10. VPage \in first .. end  BY <1>2, <1>7
<1>11. VPage \notin DOMAIN space[K]  BY <1>6, <1>8, <1>9, <1>10, SMT
<1> HIDE DEF end, first
<1>12. \/ Walks
       \/ Fails /\ owned = Pages
       \/ Maps /\ VPage = end /\ call' = NULL /\ ret' = "ok"
       \/ /\ Maps /\ SameCall /\ ret' = ret
          /\ VPage' = VPage + 1 /\ VPage' \in first .. end
  BY <1>1, <1>2, <1>5, <1>10, <1>11, BootWork DEF end, first
<1>13. ASSUME Maps PROVE roots' = roots /\
         space'[K] = IdentityOn(Before(mapped - 1) \cup (first .. VPage))
  <2>1. RoundDown(call.pa) = VPage * PGSIZE
    BY <1>1, <1>2, <1>13, IdentityFrame DEF Maps
  <2>2. K \in DOMAIN space  BY <1>2 DEF PageInv, TypeOK
  <2>3. space'[K] = [v \in DOMAIN space[K] \cup {VPage} |->
                       IF v = VPage THEN VPage * PGSIZE ELSE space[K][v]]
    BY <1>2, <1>13, <2>1, <2>2 DEF Maps
  <2>4. space'[K] = IdentityOn((Before(mapped - 1) \cup (first .. VPage - 1)) \cup {VPage})
    <3> DEFINE S == Before(mapped - 1) \cup (first .. VPage - 1)
               f == space[K]
               g == [w \in DOMAIN f \cup {VPage} |->
                       IF w = VPage THEN VPage * PGSIZE ELSE f[w]]
    <3>1. f = IdentityOn(S)  BY <1>2
    <3>2. space'[K] = g  BY <2>3
    <3> HIDE DEF S, f
    <3>3. g = IdentityOn(S \cup {VPage})  BY <3>1, IdentityOneMore, SMT
    <3> QED BY <3>2, <3>3 DEF S
  <2>5. (Before(mapped - 1) \cup (first .. VPage - 1)) \cup {VPage}
          = Before(mapped - 1) \cup (first .. VPage)
    BY <1>6, <1>10, SMT
  <2> QED BY <1>13, <2>4, <2>5 DEF Maps
<1>14. CASE Walks
  <2>1. VPage' = VPage /\ call' # NULL
    BY <1>14, PageTableAssumption DEF Walks, SameCall, VPage
  <2>2. RegionsSound'
    BY <1>2, <1>3, <1>14, <2>1 DEF Walks, SameCall, RegionsSound, Running, first
  <2> QED BY <1>2, <1>3, <1>14, <2>2 DEF Walks, BootInv, Early, Late
<1>15. CASE Fails /\ owned = Pages
  <2>1. RegionsSound'  BY <1>15 DEF Fails, RegionsSound, Running
  <2> QED BY <1>2, <1>3, <1>15, <2>1 DEF Fails, BootInv, Early, Late
<1>16. CASE Maps /\ VPage = end /\ call' = NULL /\ ret' = "ok"
  <2>1. space'[K] = IdentityOn(Before(mapped)) /\ roots' = roots
    BY <1>8, <1>13, <1>16
  <2>2. RegionsSound'  BY <1>3, <1>16, <2>1 DEF RegionsSound, Running
  <2> QED BY <1>2, <1>3, <1>16, <2>1, <2>2 DEF BootInv, Early, Late
<1>17. CASE /\ Maps /\ SameCall /\ ret' = ret
            /\ VPage' = VPage + 1 /\ VPage' \in first .. end
  <2>1. space'[K] = IdentityOn(Before(mapped - 1) \cup (first .. VPage' - 1))
        /\ roots' = roots
    <3>1. VPage' - 1 = VPage  BY <1>6, <1>10, <1>17, SMT
    <3> QED BY <1>13, <1>17, <3>1
  <2>2. call' # NULL  BY <1>17, PageTableAssumption DEF SameCall
  <2>3. RegionsSound'
    BY <1>2, <1>3, <1>7, <1>17, <2>1, <2>2 DEF SameCall, RegionsSound, Running, first
  <2> QED BY <1>2, <1>3, <1>17, <2>1, <2>3 DEF BootInv, Early, Late
<1> QED BY <1>12, <1>14, <1>15, <1>16, <1>17

LEMMA BootHart ==
  ASSUME PageInv, BootInv, kvminithart
  PROVE  BootInv'
<1>1. /\ main = "regions" /\ call = NULL /\ ret # "panic"
      /\ mapped = Len(Regions) /\ UNCHANGED <<kernel_pagetable, mapped>>
  BY DEF kvminithart, At, Ready, Running
<1>2. /\ satp = NULL /\ roots = {kernel_pagetable} /\ RegionsSound
      /\ mapped \in 0 .. Len(Regions) /\ (ret # "ok" => owned = Pages)
  BY <1>1 DEF BootInv, Early
<1>3. CASE ret = "failed"
  <2>1. call' = NULL /\ ret' = "panic" /\ UNCHANGED <<owned, roots, main, satp>>
    BY <1>3 DEF kvminithart, Return
  <2>2. RegionsSound'  BY <2>1 DEF RegionsSound, Running
  <2>3. roots' = {kernel_pagetable'} /\ owned' = Pages  BY <1>1, <1>2, <1>3, <2>1
  <2> QED BY <1>1, <1>2, <2>1, <2>2, <2>3 DEF BootInv, Early, Late
<1>4. CASE ret # "failed"
  <2>1. ret = "ok"  BY <1>1, <1>4 DEF PageInv, TypeOK
  <2>2. /\ satp' = kernel_pagetable /\ main' = "test_vm"
        /\ UNCHANGED <<owned, roots, space, call, ret>>
    BY <1>4 DEF kvminithart, vars
  <2>3. space[kernel_pagetable] = IdentityOn(Before(Len(Regions)))
    BY <1>1, <1>2, <2>1 DEF RegionsSound, Running
  <2> QED BY <1>1, <1>2, <2>1, <2>2, <2>3 DEF BootInv, Early, Late
<1> QED BY <1>3, <1>4

LEMMA BootTest ==
  ASSUME PageInv, BootInv, test_vm
  PROVE  BootInv'
<1>1. /\ main = "test_vm" /\ call = NULL /\ UNCHANGED <<kernel_pagetable, mapped, satp>>
  BY DEF test_vm, At, Ready, Running
<1>2. /\ satp = kernel_pagetable /\ roots = {kernel_pagetable} /\ ret = "ok"
      /\ mapped \in 0 .. Len(Regions)
      /\ space[kernel_pagetable] = IdentityOn(Before(Len(Regions)))
  BY <1>1 DEF BootInv, Early
<1>3. CASE owned = Pages
  <2>1. main' = "run_shell" /\ UNCHANGED <<owned, roots, space, call, ret>>
    BY <1>3 DEF test_vm, vars
  <2> QED BY <1>1, <1>2, <2>1 DEF BootInv, Early, Late
<1>4. CASE owned # Pages
  <2>1. PICK p \in Pages : vm_create_user_pagetable(p) /\ pt' = p /\ main' = "mappages"
    BY <1>4 DEF test_vm
  <2>2. /\ p \notin owned /\ roots' = roots \cup {p} /\ UNCHANGED <<call, ret>>
        /\ space' = [q \in roots \cup {p} |->
                       IF q = p THEN [v \in {} |-> 0] ELSE space[q]]
    BY <2>1 DEF vm_create_user_pagetable
  <2>3. p # kernel_pagetable  BY <1>2, <2>2 DEF PageInv, TypeOK
  <2>4. /\ space'[kernel_pagetable] = space[kernel_pagetable]
        /\ space'[p] = [v \in {} |-> 0]
    BY <1>2, <2>2, <2>3
  <2>5. DOMAIN space'[p] = {} /\ roots' = {kernel_pagetable, p}  BY <1>2, <2>2, <2>4
  <2> QED BY <1>1, <1>2, <2>1, <2>2, <2>3, <2>4, <2>5 DEF BootInv, Early, Late
<1> QED BY <1>3, <1>4

LEMMA BootTestMap ==
  ASSUME PageInv, BootInv, test_vm_map
  PROVE  BootInv'
<1> DEFINE va == TEST_VM[1]
           size == TEST_VM[2]
           frame == TEST_VM[3]
<1>1. /\ main = "mappages" /\ main' = "walkaddr"
      /\ UNCHANGED <<kernel_pagetable, mapped, satp, pt>>
      /\ Start("mappages", pt, va, size, frame)
  BY DEF test_vm_map, At, mappages
<1>2. /\ satp = kernel_pagetable /\ roots = {kernel_pagetable, pt} /\ ret = "ok"
      /\ pt # kernel_pagetable /\ DOMAIN space[pt] = {}
      /\ mapped \in 0 .. Len(Regions)
      /\ space[kernel_pagetable] = IdentityOn(Before(Len(Regions)))
  BY <1>1 DEF BootInv, Early
<1>3. va \in Address /\ size \in Address /\ frame \in Address /\ size # 0
      /\ va + size <= MAXVA
  BY RegionArgs
<1>4. /\ call' = [op |-> "mappages", pagetable |-> pt, va |-> va,
                  size |-> size, frame |-> frame, a |-> RoundDown(va),
                  last |-> Last(va, size), pa |-> frame, level |-> 2, at |-> pt]
      /\ ret' = ret /\ UNCHANGED <<owned, roots, space>>
  BY <1>1, <1>3 DEF Start
<1>5. /\ call'.op = "mappages" /\ call'.pagetable = pt /\ call'.va = va
      /\ call'.size = size /\ call'.frame = frame /\ call'.a = RoundDown(va)
  BY <1>4
<1>6. VPage' = va \div PGSIZE  BY <1>3, <1>5, RoundDownFacts DEF VPage
<1>7. /\ va \div PGSIZE \in Nat /\ (va + size - 1) \div PGSIZE \in Nat
      /\ va \div PGSIZE <= (va + size - 1) \div PGSIZE
  BY <1>3, RegionFacts
<1>8. VPage' \in PagesOf(TEST_VM)  BY <1>6, <1>7, SMT DEF PagesOf
<1>9. DOMAIN space'[pt] = va \div PGSIZE .. VPage' - 1
  <2>1. va \div PGSIZE .. (va \div PGSIZE) - 1 = {}  BY <1>7, SMT
  <2>2. DOMAIN space'[pt] = {}  BY <1>2, <1>4
  <2> QED BY <1>6, <2>1, <2>2
<1>10. call' # NULL
  <2>1. call' \in CallsUnderWay  BY <1>1, <1>2, <1>3, StartedCall
  <2> QED BY <2>1, PageTableAssumption
<1>11. TestSound'
  BY <1>1, <1>2, <1>4, <1>5, <1>8, <1>9, <1>10 DEF TestSound, Running
<1> QED BY <1>1, <1>2, <1>4, <1>11 DEF BootInv, Early, Late

LEMMA BootTestWork ==
  ASSUME PageInv, CallSound, BootInv, main = "walkaddr", Work, UNCHANGED kernel
  PROVE  BootInv'
<1> DEFINE K == kernel_pagetable
           va == TEST_VM[1]
           size == TEST_VM[2]
           first == va \div PGSIZE
           end == (va + size - 1) \div PGSIZE
<1>1. Running
  BY DEF Work, Walk, WalkBeyond, WalkDown, WalkAlloc, WalkFails, Panics, MapPage, UnmapPage
<1>2. /\ satp = K /\ roots = {K, pt} /\ pt # K /\ mapped \in 0 .. Len(Regions)
      /\ space[K] = IdentityOn(Before(Len(Regions)))
      /\ ret = "ok" /\ call.op = "mappages" /\ call.pagetable = pt
      /\ call.va = va /\ call.size = size /\ call.frame = TEST_VM[3]
      /\ VPage \in PagesOf(TEST_VM)
      /\ DOMAIN space[pt] = first .. VPage - 1
  BY <1>1 DEF BootInv, Early, TestSound
<1>3. UNCHANGED <<main, kernel_pagetable, mapped, satp, pt>>  BY DEF kernel
<1>4. va \in Address /\ size \in Address /\ size # 0 /\ va + size <= MAXVA
      /\ TEST_VM[3] \in Address
  BY RegionArgs
<1>5. first \in Nat /\ end \in Nat /\ first <= end  BY <1>4, RegionFacts
<1>6. PagesOf(TEST_VM) = first .. end  BY DEF PagesOf
<1>7. VPage \in first .. end  BY <1>2, <1>6
<1>8. VPage \notin DOMAIN space[pt]  BY <1>2, <1>5, <1>7, SMT
<1> HIDE DEF end, first
<1>9. \/ Walks
      \/ Fails /\ owned = Pages
      \/ Maps /\ VPage = end /\ call' = NULL /\ ret' = "ok"
      \/ /\ Maps /\ SameCall /\ ret' = ret
         /\ VPage' = VPage + 1 /\ VPage' \in first .. end
  BY <1>1, <1>2, <1>4, <1>7, <1>8, BootWork DEF end, first
<1>10. ASSUME Maps
       PROVE  /\ roots' = roots /\ space'[K] = space[K]
              /\ DOMAIN space'[pt] = first .. VPage
  <2>1. K \in DOMAIN space /\ pt \in DOMAIN space  BY <1>2 DEF PageInv, TypeOK
  <2>2. /\ roots' = roots
        /\ space' = [space EXCEPT ![pt] =
                       [v \in DOMAIN space[pt] \cup {VPage} |->
                          IF v = VPage THEN RoundDown(call.pa) ELSE space[pt][v]]]
    BY <1>2, <1>10 DEF Maps
  <2>3. DOMAIN space'[pt] = DOMAIN space[pt] \cup {VPage}  BY <2>1, <2>2
  <2>4. space'[K] = space[K]  BY <1>2, <2>1, <2>2
  <2>5. (first .. VPage - 1) \cup {VPage} = first .. VPage  BY <1>5, <1>7, SMT
  <2> QED BY <1>2, <2>2, <2>3, <2>4, <2>5
<1>11. CASE Walks
  <2>1. VPage' = VPage /\ call' # NULL
    BY <1>11, PageTableAssumption DEF Walks, SameCall, VPage
  <2>2. TestSound'
    BY <1>2, <1>3, <1>11, <2>1 DEF Walks, SameCall, TestSound, Running, first
  <2> QED BY <1>2, <1>3, <1>11, <2>2 DEF Walks, BootInv, Early, Late
<1>12. CASE Fails /\ owned = Pages
  <2>1. TestSound'  BY <1>12 DEF Fails, TestSound, Running
  <2> QED BY <1>2, <1>3, <1>12, <2>1 DEF Fails, BootInv, Early, Late
<1>13. CASE Maps /\ VPage = end /\ call' = NULL /\ ret' = "ok"
  <2> DEFINE n == VPage - call.va \div PGSIZE
  <2>1. /\ n + 1 \in Nat
        /\ MapsToIn(space'[pt], va, TEST_VM[3], n + 1)
    BY <1>1, <1>2, <1>13, MapsOne
  <2>2. 0 \in 0 .. (n + 1) - 1
    <3>1. n \in Nat  BY <1>2, <1>5, <1>7, SMT DEF first
    <3> HIDE DEF n
    <3> QED BY <3>1, SMT
  <2> HIDE DEF n
  <2>3. first + 0 \in DOMAIN space'[pt]
        /\ space'[pt][first + 0] = RoundDown((TEST_VM[3] + 0 * PGSIZE) % WORD)
    BY <2>1, <2>2 DEF MapsToIn, first
  <2>4. first + 0 = first  BY <1>5, SMT
  <2>5. RoundDown((TEST_VM[3] + 0 * PGSIZE) % WORD) = TEST_VM[3]
    <3>1. (TEST_VM[3] + 0 * PGSIZE) % WORD = TEST_VM[3]
      BY <1>4, PageTableAssumption, SMT DEF Address
    <3>2. TEST_VM[3] = PGSIZE * (TEST_VM[3] \div PGSIZE) + (TEST_VM[3] % PGSIZE)
          /\ TEST_VM[3] \div PGSIZE \in Nat
      <4>1. TEST_VM[3] \in Nat  BY <1>4, SMT DEF Address
      <4> QED BY <4>1, DivMod, PageTableAssumption
    <3>3. TEST_VM[3] % PGSIZE = 0  BY KernelAssumption
    <3> QED BY <3>1, <3>2, <3>3, PageTableAssumption, SMT DEF RoundDown
  <2>6. TestSound'
    BY <1>3, <1>13, <2>3, <2>4, <2>5 DEF TestSound, Running, first
  <2> QED BY <1>2, <1>3, <1>10, <1>13, <2>6 DEF BootInv, Early, Late
<1>14. CASE /\ Maps /\ SameCall /\ ret' = ret
            /\ VPage' = VPage + 1 /\ VPage' \in first .. end
  <2>1. VPage' - 1 = VPage  BY <1>5, <1>7, <1>14, SMT
  <2>2. call' # NULL  BY <1>14, PageTableAssumption DEF SameCall
  <2>3. DOMAIN space'[pt] = first .. VPage' - 1  BY <1>10, <1>14, <2>1
  <2>4. TestSound'
    BY <1>2, <1>3, <1>6, <1>14, <2>2, <2>3 DEF SameCall, TestSound, Running, first
  <2> QED BY <1>2, <1>3, <1>10, <1>14, <2>4 DEF BootInv, Early, Late
<1> QED BY <1>9, <1>11, <1>12, <1>13, <1>14

LEMMA BootTestFree ==
  ASSUME PageInv, BootInv, test_vm_free
  PROVE  BootInv'
<1> DEFINE K == kernel_pagetable
           first == TEST_VM[1] \div PGSIZE
<1>1. /\ main = "walkaddr" /\ main' = "run_shell" /\ call = NULL /\ ret # "panic"
      /\ UNCHANGED <<kernel_pagetable, mapped, satp, pt>>
  BY DEF test_vm_free, At, Ready, Running
<1>2. /\ satp = K /\ roots = {K, pt} /\ pt # K /\ mapped \in 0 .. Len(Regions)
      /\ space[K] = IdentityOn(Before(Len(Regions)))
      /\ TestSound /\ (ret # "ok" => owned = Pages)
  BY <1>1 DEF BootInv, Early
<1>3. CASE ret # "ok"
  <2>1. UNCHANGED <<owned, roots, space, call, ret>>
    BY <1>3 DEF test_vm_free, vars
  <2> QED BY <1>1, <1>2, <1>3, <2>1 DEF BootInv, Early, Late
<1>4. CASE ret = "ok"
  <2>1. first \in DOMAIN space[pt] /\ space[pt][first] = TEST_VM[3]
    BY <1>1, <1>2, <1>4 DEF TestSound, Running
  <2>2. Mapped(pt, first) /\ walkaddr(pt, first) = TEST_VM[3]
    <3>1. /\ DOMAIN space[pt] = {v \in VPages : Mapped(pt, v)}
          /\ \A v \in DOMAIN space[pt] : walkaddr(pt, v) = space[pt][v]
      BY <1>2 DEF PageInv, Translates
    <3> HIDE DEF first
    <3> QED BY <2>1, <3>1
  <2>3. vm_free(pt)  BY <1>4, <2>2 DEF test_vm_free
  <2>4. /\ roots' = roots \ {pt} /\ space' = [q \in roots' |-> space[q]]
        /\ UNCHANGED <<call, ret>>
    BY <2>3 DEF vm_free
  <2>5. roots' = {K} /\ space'[K] = space[K]  BY <1>2, <2>4
  <2> QED BY <1>1, <1>2, <1>4, <2>4, <2>5 DEF BootInv, Early, Late
<1> QED BY <1>3, <1>4

\* The shell changes no table.
LEMMA BootShell ==
  ASSUME BootInv, main \in Late, main' \in Late, UNCHANGED <<owned, roots, space, call>>,
         ret' = ret \/ (ret' = "panic" /\ main' = "command"),
         main = "command" => ret # "panic",
         UNCHANGED <<kernel_pagetable, mapped, satp>>
  PROVE  BootInv'
BY DEF BootInv, Early, Late

LEMMA BootStep ==
  ASSUME PageInv, CallSound, BootInv, KernelNext
  PROVE  BootInv'
<1>1. CASE main = "clients" /\ UNCHANGED kernel
  BY <1>1 DEF BootInv, kernel, Early, Late
<1>2. CASE Work /\ UNCHANGED kernel
  <2>1. call # NULL
    BY <1>2 DEF Work, Walk, WalkBeyond, WalkDown, WalkAlloc, WalkFails, Panics,
                MapPage, UnmapPage, Running
  <2>2. main \in {"clients", "regions", "walkaddr"}
    BY <2>1 DEF BootInv, Early, Late
  <2> QED BY <1>1, <1>2, <2>2, BootRegionWork, BootTestWork
<1>3. CASE run_shell \/ (\E c \in Chars : Type(c)) \/ Backspace \/ Enter \/ Command
  <2>1. /\ UNCHANGED vars /\ UNCHANGED <<kernel_pagetable, mapped, satp>>
        /\ main \in Late /\ main' \in Late /\ ret # "panic"
    BY <1>3 DEF run_shell, Type, Backspace, Enter, Command, Prompt, At, Ready, Late
  <2> QED BY <2>1, BootShell DEF vars
<1>4. CASE reboot
  <2>1. /\ UNCHANGED <<kernel_pagetable, mapped, satp>>
        /\ main = "command" /\ main' \in Late /\ ret # "panic" /\ call = NULL
    BY <1>4 DEF reboot, At, Ready, Running, Late
  <2>2. /\ UNCHANGED <<owned, roots, space, call>>
        /\ ret' = ret \/ (ret' = "panic" /\ main' = "command")
    BY <1>4, <2>1 DEF reboot, Return, vars
  <2> QED BY <2>1, <2>2, BootShell DEF Late
<1> QED BY <1>1, <1>2, <1>3, <1>4, BootCreate, BootRegion, BootHart, BootTest, BootTestMap,
           BootTestFree, SMT DEF KernelNext

-----------------------------------------------------------------------------
LEMMA LineStep ==
  ASSUME LineInv, KernelNext
  PROVE  LineInv'
<1>1. SHELL_BUFFER_SIZE \in Nat \ {0} /\ NUL \notin Chars  BY KernelAssumption
<1>2. CASE UNCHANGED kernel
  BY <1>2 DEF LineInv, kernel, console
<1>3. ASSUME main' \notin {"read", "command"} PROVE LineInv'
  BY <1>3 DEF LineInv
<1>4. CASE run_shell
  BY <1>1, <1>4, SMT DEF run_shell, LineInv
<1>5. ASSUME NEW c \in Chars, Type(c) PROVE LineInv'
  <2>1. /\ main = "read" /\ main' = main /\ pos < SHELL_BUFFER_SIZE - 1
        /\ buffer' = [buffer EXCEPT ![pos] = c] /\ pos' = pos + 1
        /\ line' = Append(line, c)
    BY <1>5 DEF Type, At
  <2>2. /\ buffer \in [Places -> Chars \cup {NUL}] /\ line \in Seq(Chars)
        /\ pos = Len(line) /\ pos \in Nat
        /\ \A i \in 1 .. pos : buffer[i - 1] = line[i]
    BY <2>1, SMT DEF LineInv
  <2>3. pos \in Places  BY <1>1, <2>1, <2>2, SMT DEF Places
  <2>4. buffer' \in [Places -> Chars \cup {NUL}]  BY <2>1, <2>2
  <2>5. line' \in Seq(Chars) /\ pos' = Len(line') /\ pos' < SHELL_BUFFER_SIZE
    BY <1>1, <2>1, <2>2, SMT
  <2>6. ASSUME NEW i \in 1 .. pos' PROVE buffer'[i - 1] = line'[i]
    <3>1. CASE i = pos + 1
      BY <2>1, <2>2, <2>3, <3>1, SMT
    <3>2. CASE i # pos + 1
      <4>1. i \in 1 .. pos /\ i - 1 # pos /\ i - 1 \in Places
        BY <1>1, <2>1, <2>2, <3>2, SMT DEF Places
      <4>2. buffer'[i - 1] = buffer[i - 1]  BY <2>1, <2>2, <4>1
      <4>3. line'[i] = line[i]  BY <2>1, <2>2, <4>1, SMT
      <4> QED BY <2>2, <4>1, <4>2, <4>3
    <3> QED BY <3>1, <3>2
  <2> QED BY <2>1, <2>4, <2>5, <2>6 DEF LineInv
<1>6. CASE Backspace
  <2>1. /\ main = "read" /\ main' = main /\ pos > 0 /\ buffer' = buffer
        /\ pos' = pos - 1 /\ line' = SubSeq(line, 1, Len(line) - 1)
    BY <1>6 DEF Backspace, At
  <2>2. /\ buffer \in [Places -> Chars \cup {NUL}] /\ line \in Seq(Chars)
        /\ pos = Len(line) /\ pos \in Nat /\ pos < SHELL_BUFFER_SIZE
        /\ \A i \in 1 .. pos : buffer[i - 1] = line[i]
    BY <2>1, SMT DEF LineInv
  <2>3. /\ line' \in Seq(Chars) /\ Len(line') = pos - 1
        /\ \A i \in 1 .. pos - 1 : line'[i] = line[i]
    BY <2>1, <2>2, SMT
  <2>4. \A i \in 1 .. pos' : buffer'[i - 1] = line'[i]  BY <2>1, <2>2, <2>3, SMT
  <2>5. pos' < SHELL_BUFFER_SIZE  BY <1>1, <2>1, <2>2, SMT
  <2> QED BY <2>1, <2>2, <2>3, <2>4, <2>5 DEF LineInv
<1>7. CASE Enter
  <2>1. /\ main = "read" /\ buffer' = [buffer EXCEPT ![pos] = NUL]
        /\ UNCHANGED <<pos, line>>
    BY <1>7 DEF Enter, At, Terminated
  <2>2. /\ buffer \in [Places -> Chars \cup {NUL}] /\ line \in Seq(Chars)
        /\ pos = Len(line) /\ pos \in Nat /\ pos < SHELL_BUFFER_SIZE
        /\ \A i \in 1 .. pos : buffer[i - 1] = line[i]
    BY <2>1, SMT DEF LineInv
  <2>3. pos \in Places  BY <1>1, <2>2, SMT DEF Places
  <2>4. buffer' \in [Places -> Chars \cup {NUL}] /\ buffer'[pos] = NUL
    BY <2>1, <2>2, <2>3
  <2>5. ASSUME NEW i \in 1 .. pos PROVE buffer'[i - 1] = line[i]
    <3>1. i - 1 # pos /\ i - 1 \in Places  BY <1>1, <2>2, SMT DEF Places
    <3> QED BY <2>1, <2>2, <3>1
  <2> QED BY <2>1, <2>2, <2>4, <2>5 DEF LineInv
<1>8. CASE Command
  <2>1. /\ main = "command" /\ buffer' = buffer /\ pos' = 0 /\ line' = <<>> /\ main' = "read"
    BY <1>8 DEF Command, At, Prompt
  <2>2. buffer \in [Places -> Chars \cup {NUL}]  BY <2>1 DEF LineInv
  <2> QED BY <1>1, <2>1, <2>2, SMT DEF LineInv
<1>9. CASE reboot
  <2>1. main = "command" /\ UNCHANGED <<buffer, pos, line>> /\ main' \in {"exited", "command"}
    BY <1>9 DEF reboot, At, console
  <2> QED BY <2>1 DEF LineInv
<1>10. CASE \/ kvminit
            \/ kvminit_region \/ kvminithart \/ test_vm \/ test_vm_map \/ test_vm_free
  <2>1. main' \notin {"read", "command"}
    BY <1>10 DEF kvminit, kvminit_region, kvminithart, test_vm, test_vm_map, test_vm_free, At
  <2> QED BY <1>3, <2>1
<1> QED BY <1>2, <1>4, <1>5, <1>6, <1>7, <1>8, <1>9, <1>10 DEF KernelNext

\* The comparison of the array with a word, and of the line with the word.
LEMMA CommandFacts ==
  ASSUME LineInv, main = "command", NEW w \in Seq(Chars), Len(w) < SHELL_BUFFER_SIZE
  PROVE  IsCommand(w) <=> line = w
<1> DEFINE n == Len(w)
<1>1. /\ line \in Seq(Chars) /\ pos = Len(line) /\ pos \in Nat /\ n \in Nat
      /\ \A i \in 1 .. pos : buffer[i - 1] = line[i]
      /\ buffer[pos] = NUL
  BY SMT DEF LineInv
<1>2. NUL \notin Chars  BY KernelAssumption
<1>3. ASSUME IsCommand(w) PROVE line = w
  <2>1. (\A i \in 1 .. n : buffer[i - 1] = w[i]) /\ buffer[n] = NUL
    BY <1>3 DEF IsCommand, StartsWith
  <2>2. ~(n < pos)
    <3>1. SUFFICES ASSUME n < pos PROVE FALSE  OBVIOUS
    <3>2. n + 1 \in 1 .. pos /\ (n + 1) - 1 = n  BY <1>1, <3>1, SMT
    <3>3. line[n + 1] \in Chars  BY <1>1, <3>2, SMT
    <3> QED BY <1>1, <1>2, <2>1, <3>2, <3>3
  <2>3. ~(n > pos)
    <3>1. SUFFICES ASSUME n > pos PROVE FALSE  OBVIOUS
    <3>2. pos + 1 \in 1 .. n /\ (pos + 1) - 1 = pos  BY <1>1, <3>1, SMT
    <3>3. w[pos + 1] \in Chars  BY <1>1, <3>2, SMT
    <3> QED BY <1>1, <1>2, <2>1, <3>2, <3>3
  <2>4. n = pos  BY <1>1, <2>2, <2>3, SMT
  <2>5. \A i \in 1 .. Len(line) : line[i] = w[i]  BY <1>1, <2>1, <2>4
  <2> QED BY <1>1, <2>4, <2>5, SMT
<1>4. ASSUME line = w PROVE IsCommand(w)
  BY <1>1, <1>4 DEF IsCommand, StartsWith
<1> QED BY <1>3, <1>4

LEMMA EchoFacts ==
  ASSUME LineInv, main = "command"
  PROVE  IsEcho <=> /\ Len(line) > Len(ECHO)
                    /\ SubSeq(line, 1, Len(ECHO) + 1) = Append(ECHO, SPACE)
<1> DEFINE n == Len(ECHO)
<1>1. /\ line \in Seq(Chars) /\ pos = Len(line) /\ pos \in Nat
      /\ \A i \in 1 .. pos : buffer[i - 1] = line[i]
  BY SMT DEF LineInv
<1>2. ECHO \in Seq(Chars) /\ n \in Nat /\ SPACE \in Chars  BY KernelAssumption, SMT
<1>3. SUFFICES ASSUME pos > n
               PROVE  IsEcho <=> SubSeq(line, 1, n + 1) = Append(ECHO, SPACE)
  BY <1>1 DEF IsEcho
<1> DEFINE s == SubSeq(line, 1, n + 1)
           t == Append(ECHO, SPACE)
<1>4. /\ s \in Seq(Chars) /\ Len(s) = n + 1
      /\ \A i \in 1 .. n + 1 : s[i] = line[i]
  BY <1>1, <1>2, <1>3, SMT
<1>5. /\ t \in Seq(Chars) /\ Len(t) = n + 1 /\ t[n + 1] = SPACE
      /\ \A i \in 1 .. n : t[i] = ECHO[i]
  BY <1>2, SMT
<1>6. /\ buffer[n] = line[n + 1] /\ \A i \in 1 .. n : buffer[i - 1] = line[i]
  <2>1. n + 1 \in 1 .. pos /\ (n + 1) - 1 = n  BY <1>1, <1>2, <1>3, SMT
  <2>2. \A i \in 1 .. n : i \in 1 .. pos  BY <1>1, <1>2, <1>3, SMT
  <2> QED BY <1>1, <2>1, <2>2
<1>7. IsEcho <=> (\A i \in 1 .. n : line[i] = ECHO[i]) /\ line[n + 1] = SPACE
  BY <1>3, <1>6 DEF IsEcho, StartsWith
<1> HIDE DEF s, t
<1>8. s = t <=> (\A i \in 1 .. n : line[i] = ECHO[i]) /\ line[n + 1] = SPACE
  <2>1. n + 1 \in 1 .. n + 1 /\ \A i \in 1 .. n : i \in 1 .. n + 1  BY <1>2, SMT
  <2>2. ASSUME s = t
        PROVE  (\A i \in 1 .. n : line[i] = ECHO[i]) /\ line[n + 1] = SPACE
    BY <1>4, <1>5, <2>1, <2>2
  <2>3. ASSUME \A i \in 1 .. n : line[i] = ECHO[i], line[n + 1] = SPACE
        PROVE  s = t
    <3>1. ASSUME NEW i \in 1 .. n + 1 PROVE s[i] = t[i]
      <4>1. i = n + 1 \/ i \in 1 .. n  BY <1>2, SMT
      <4> QED BY <1>4, <1>5, <2>3, <4>1
    <3> HIDE DEF n
    <3> QED BY <1>4, <1>5, <3>1, SMT
  <2> QED BY <2>2, <2>3
<1> QED BY <1>7, <1>8 DEF s, t

KernelInv == PageInv /\ CallSound /\ BootInv /\ LineInv

LEMMA KernelMapFacts ==
  ASSUME PageInv, BootInv
  PROVE  KernelMap
<1> DEFINE kernelPages == UNION {PagesOf(Regions[i]) : i \in DOMAIN Regions}
<1>1. kernelPages = Before(Len(Regions))  BY BeforeFacts
<1> HIDE DEF kernelPages
<1>2. ASSUME satp # NULL
      PROVE  /\ space[satp] = [v \in kernelPages |-> v * PGSIZE]
             /\ \A v \in kernelPages : Mapped(satp, v) /\ walkaddr(satp, v) = v * PGSIZE
  <2>1. /\ satp \in roots /\ space[satp] = IdentityOn(kernelPages)
    BY <1>1, <1>2 DEF BootInv
  <2>2. space[satp] = [v \in kernelPages |-> v * PGSIZE]  BY <2>1 DEF IdentityOn
  <2>3. /\ DOMAIN space[satp] = {v \in VPages : Mapped(satp, v)}
        /\ \A v \in DOMAIN space[satp] : walkaddr(satp, v) = space[satp][v]
    BY <2>1 DEF PageInv, Translates
  <2> QED BY <2>2, <2>3
<1>3. ret = "panic" /\ main \notin {"clients", "command"} => owned = Pages
  BY DEF BootInv, Early, Late
<1>4. ASSUME main \in {"read", "command"}
      PROVE  owned = Freed(kernel_pagetable) \/ owned = Pages
  <2>1. roots = {kernel_pagetable} \/ owned = Pages  BY <1>4 DEF BootInv, Late
  <2>2. ASSUME roots = {kernel_pagetable} PROVE owned = Freed(kernel_pagetable)
    <3>1. Middle = SubTables(kernel_pagetable)  BY <2>2 DEF Middle
    <3>2. Bottom = UNION {SubTables(t) : t \in SubTables(kernel_pagetable)}
      BY <3>1 DEF Bottom
    <3>3. owned = roots \cup Middle \cup Bottom  BY StateTree
    <3> QED BY <2>2, <3>1, <3>2, <3>3 DEF Freed
  <2> QED BY <2>1, <2>2
<1> QED BY <1>2, <1>3, <1>4 DEF KernelMap, kernelPages

LEMMA LineFacts ==
  ASSUME LineInv
  PROVE  LineIsTyped
<1>1. \A w \in Commands : w \in Seq(Chars) /\ Len(w) < SHELL_BUFFER_SIZE
  BY KernelAssumption
<1>2. main = "command" => \A w \in Commands : IsCommand(w) <=> line = w
  BY <1>1, CommandFacts
<1> QED BY <1>2, EchoFacts DEF LineInv, LineIsTyped

-----------------------------------------------------------------------------
\* The inductive invariant of the kernel's boot, of test_vm and of the shell.
THEOREM KernelIInv == KernelSpec => []KernelInv
<1>1. KernelInit => KernelInv
  <2>1. KernelInit => Init  BY DEF KernelInit
  <2>2. Init => CallSound  BY DEF Init, CallSound, Running
  <2> QED BY <2>1, <2>2, PagesAtStart, BootAtStart DEF KernelInv
<1>2. KernelInv /\ [KernelNext]_kernelVars => KernelInv'
  <2>1. CASE KernelNext  BY <2>1, KernelPageStep, BootStep, LineStep DEF KernelInv
  <2>2. ASSUME KernelInv, UNCHANGED kernelVars PROVE KernelInv'
    <3>1. UNCHANGED vars /\ UNCHANGED kernel  BY <2>2 DEF kernelVars
    <3>2. PageInv' /\ CallSound'  BY <2>2, <3>1, StutterStep, StutterSound DEF KernelInv
    <3>3. BootInv'
      BY <2>2, <3>1, SMT DEF KernelInv, BootInv, RegionsSound, TestSound, Running, VPage, vars, kernel
    <3>4. LineInv'  BY <2>2, <3>1 DEF KernelInv, LineInv, kernel, console
    <3> QED BY <3>2, <3>3, <3>4 DEF KernelInv
  <2> QED BY <2>1, <2>2
<1> QED BY <1>1, <1>2, PTL DEF KernelSpec

\* From kvminithart on the kernel runs on an identity map of exactly its regions,
\* only a lack of pages stops the boot, and test_vm leaves nothing behind but
\* when the pages ran out (kernel/mm/vm.c, kernel/main.c).
THEOREM KernelMapSafe == KernelSpec => []KernelMap
<1>1. KernelInv => KernelMap  BY KernelMapFacts DEF KernelInv
<1> QED BY <1>1, KernelIInv, PTL

\* The shell takes a line for the command that was typed (run_shell).
THEOREM LineIsTypedSafe == KernelSpec => []LineIsTyped
<1>1. KernelInv => LineIsTyped  BY LineFacts DEF KernelInv
<1> QED BY <1>1, KernelIInv, PTL

\* Page tables, calls and address spaces keep their types, whoever calls
\* kernel/mm/vm.c: in particular a walk stays in pages that hold tables.
THEOREM KernelTypeCorrect == KernelSpec => []TypeOK
<1>1. KernelInv => TypeOK  BY DEF KernelInv, PageInv
<1> QED BY <1>1, KernelIInv, PTL

\* The tables of the kernel and of test_vm stay trees, and translate what was
\* mapped; vm_free of the test's tables takes no table of the kernel.
THEOREM KernelTablesSafe == KernelSpec => [](TreeSound /\ Translates)
<1>1. KernelInv => TreeSound /\ Translates  BY DEF KernelInv, PageInv
<1> QED BY <1>1, KernelIInv, PTL

\* Every return of mappages to kvminit or test_vm says what was mapped.
THEOREM KernelMapReturns == KernelSpec => MapReturns
<1>1. ASSUME KernelInv, [KernelNext]_kernelVars
      PROVE  [\A x \in {call} : x # NULL /\ x.op = "mappages" /\ call' = NULL
                                  => ReturnOfMap(x)]_vars
  <2>1. CASE Work  BY <1>1, <2>1, WorkReturns DEF KernelInv
  <2>2. CASE ~Work
    <3>1. call = NULL \/ UNCHANGED vars
      BY <1>1, <2>2, CallsIdle DEF KernelNext, kernelVars, At, Ready, Running, kvminit,
        kvminit_region, kvminithart, test_vm, test_vm_map, test_vm_free,
        run_shell, Type, Backspace, Enter, Command, reboot
    <3> QED BY <3>1
  <2> QED BY <2>1, <2>2
<1> QED BY <1>1, KernelIInv, PTL DEF KernelSpec, MapReturns

=============================================================================
