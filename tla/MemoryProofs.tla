---------------------------- MODULE MemoryProofs ----------------------------
(***************************************************************************)
(* The virtual memory manager implements UserMemory.  What an address of   *)
(* the process holds is found through its leaf PTE, whose table the walk   *)
(* finds from the root: a critical section leaves every leaf PTE where it  *)
(* was, and changes the one the fault is about, the one whose page it      *)
(* steals, and the valid ones it makes transition PTEs.  First this is     *)
(* shown of the functions, then what follows for the cell of an address,   *)
(* then each step is shown to be one of UserMemory, or none.               *)
(***************************************************************************)
EXTENDS VmmMemory, SlotProofs, WslProofs

-----------------------------------------------------------------------------
(* The leaf PTE of an address, zero as long as a table above it is missing.*)
PteIn(s, va) ==
  LET t == FetchPte(s, va) IN IF t \in Pages THEN s.table[t][va[1]] ELSE ZeroPte

Low(s, a) == s.page[a[1]].use = "PML1"

(* The tables are at the same places, and one that comes or goes is empty. *)
SameTree(s, t) ==
  /\ Forest(s, Home(s), NoPage) /\ Forest(t, Home(t), NoPage) /\ Frozen(s, t)
  /\ \A a \in PteAddr : Low(s, a) /\ ~Low(t, a) => Entry(s, a).kind = "Zero"
  /\ \A a \in PteAddr : Low(t, a) /\ ~Low(s, a) => Entry(t, a).kind = "Zero"

(* A directory above a table is above it in the other state as well.       *)
LEMMA AboveStays ==
  ASSUME NEW s, NEW t, Frozen(s, t), NEW q \in Pages, IsTable(s, q), IsTable(t, q),
         NEW l \in 1 .. 4, Above(s, Home(s), NoPage, q, l), Above(t, Home(t), NoPage, q, l)
  PROVE  /\ Home(t)[q] = Home(s)[q] /\ Home(s)[q][1] \in Pages
         /\ IsTable(s, Home(s)[q][1]) /\ IsTable(t, Home(s)[q][1])
<1>1. Home(t)[q] = Home(s)[q]
  BY DEF Frozen, Home
<1>2. TableUse[l] \in TableUses
  BY DEF TableUse, TableUses
<1> QED
  BY <1>1, <1>2 DEF Above, IsTable

(* A PTE of a table that stays keeps its address.                          *)
LEMMA AddrStays ==
  ASSUME NEW s \in VmStates, NEW t \in VmStates, SameTree(s, t),
         NEW a \in PteAddr, Low(s, a), Low(t, a)
  PROVE  Addr(Home(t), a) = Addr(Home(s), a)
<1> DEFINE h  == Home(s)
           k  == Home(t)
           q  == a[1]
           q2 == h[q][1]
           q3 == h[q2][1]
<1>1. /\ q \in Pages \ {NoPage} /\ Levels \in 2 .. 4 /\ IsTable(s, q) /\ IsTable(t, q)
      /\ s.page[q].use = "PML1" /\ t.page[q].use = "PML1"
  BY AddrParts, VmAssumption DEF NoPage, Pages, Low, IsTable, TableUses
<1>2. /\ Above(s, h, NoPage, q, 2)
      /\ Levels > 2 => Above(s, h, NoPage, q2, 3)
      /\ Levels > 3 => Above(s, h, NoPage, q3, 4)
  BY <1>1, AllAbove DEF SameTree
<1>3. /\ Above(t, k, NoPage, q, 2)
      /\ Levels > 2 => Above(t, k, NoPage, k[q][1], 3)
      /\ Levels > 3 => Above(t, k, NoPage, k[k[q][1]][1], 4)
  BY <1>1, AllAbove DEF SameTree
<1>4. Frozen(s, t)
  BY DEF SameTree
<1>5. k[q] = h[q] /\ q2 \in Pages /\ IsTable(s, q2) /\ IsTable(t, q2)
  BY <1>1, <1>2, <1>3, <1>4, AboveStays, 2 \in 1 .. 4
<1> HIDE DEF q2
<1>6. Levels > 2 => k[q2] = h[q2] /\ q3 \in Pages /\ IsTable(s, q3) /\ IsTable(t, q3)
  <2>1. Levels > 2 => Above(t, k, NoPage, q2, 3)
    BY <1>3, <1>5 DEF q2
  <2> QED
    BY <1>2, <1>4, <1>5, <2>1, AboveStays, 3 \in 1 .. 4
<1> HIDE DEF q3
<1>7. Levels > 3 => k[q3] = h[q3]
  <2>1. Levels > 3 => Above(t, k, NoPage, q3, 4)
    BY <1>1, <1>3, <1>5, <1>6 DEF q3, q2
  <2> QED
    BY <1>1, <1>2, <1>4, <1>6, <2>1, AboveStays, 4 \in 1 .. 4
<1> HIDE DEF h, k
<1>8. \A l \in 1 .. Levels : Addr(k, a)[l] = Addr(h, a)[l]
  <2>1. ASSUME NEW l \in 1 .. Levels, l = 3
        PROVE  k[k[q][1]][2] = h[h[q][1]][2]
    BY <1>1, <1>5, <1>6, <2>1 DEF q2
  <2>2. ASSUME NEW l \in 1 .. Levels, l = 4
        PROVE  k[k[k[q][1]][1]][2] = h[h[h[q][1]][1]][2]
    BY <1>1, <1>5, <1>6, <1>7, <2>2 DEF q2, q3
  <2>3. \A l \in 1 .. Levels : l = 1 \/ l = 2 \/ l = 3 \/ l = 4
    BY <1>1
  <2> QED
    BY <1>5, <2>1, <2>2, <2>3 DEF Addr, q
<1> QED
  BY <1>8 DEF Addr, h, k

(* The leaf PTE of an address is one of a table that stays, or there is    *)
(* nothing in it before and after.                                         *)
LEMMA PteStays ==
  ASSUME NEW s \in VmStates, NEW t \in VmStates, SameTree(s, t), NEW va \in VAddr
  PROVE  \/ PteIn(s, va).kind = "Zero" /\ PteIn(t, va).kind = "Zero"
         \/ \E a \in PteAddr :
              /\ Low(s, a) /\ Low(t, a) /\ Addr(Home(s), a) = va
              /\ PteIn(s, va) = Entry(s, a) /\ PteIn(t, va) = Entry(t, a)
<1> DEFINE a == << FetchPte(s, va), va[1] >>
           b == << FetchPte(t, va), va[1] >>
<1>1. ZeroPte.kind = "Zero" /\ \A c \in PteAddr : c[1] # NoPage
  BY AddrParts DEF ZeroPte, NoPage, Pages
<1>2. FetchPte(s, va) \in Pages =>
        a \in PteAddr /\ Low(s, a) /\ Addr(Home(s), a) = va /\ PteIn(s, va) = Entry(s, a)
  BY WalkAddr DEF SameTree, Low, PteIn, Entry
<1>3. FetchPte(t, va) \in Pages =>
        b \in PteAddr /\ Low(t, b) /\ Addr(Home(t), b) = va /\ PteIn(t, va) = Entry(t, b)
  BY WalkAddr DEF SameTree, Low, PteIn, Entry
<1>4. FetchPte(s, va) \notin Pages => PteIn(s, va).kind = "Zero"
  BY <1>1 DEF PteIn
<1>5. FetchPte(t, va) \notin Pages => PteIn(t, va).kind = "Zero"
  BY <1>1 DEF PteIn
<1>6. ASSUME FetchPte(s, va) \in Pages, Low(t, a)
      PROVE  PteIn(t, va) = Entry(t, a)
  <2>1. a \in PteAddr /\ Low(s, a) /\ Addr(Home(s), a) = va
    BY <1>2, <1>6
  <2>2. Addr(Home(t), a) = va
    BY <1>6, <2>1, AddrStays
  <2>3. FetchPte(t, va) = a[1]
    BY <1>1, <1>6, <2>1, <2>2, AddrWalk DEF SameTree, Low
  <2>4. a[1] \in Pages /\ a[2] = va[1]
    BY <1>6
  <2> QED
    BY <2>3, <2>4 DEF PteIn, Entry
<1>7. ASSUME FetchPte(t, va) \in Pages, Low(s, b)
      PROVE  FetchPte(s, va) \in Pages /\ a = b
  <2>1. b \in PteAddr /\ Low(t, b) /\ Addr(Home(t), b) = va
    BY <1>3, <1>7
  <2>2. Addr(Home(s), b) = va
    BY <1>7, <2>1, AddrStays
  <2>3. FetchPte(s, va) = b[1]
    BY <1>1, <1>7, <2>1, <2>2, AddrWalk DEF SameTree, Low
  <2> QED
    BY <1>7, <2>3
<1> HIDE DEF a, b
<1>8. FetchPte(s, va) \in Pages /\ ~Low(t, a) => PteIn(s, va).kind = "Zero"
  BY <1>2 DEF SameTree
<1>9. FetchPte(t, va) \in Pages /\ ~Low(s, b) => PteIn(t, va).kind = "Zero"
  BY <1>3 DEF SameTree
<1>10. CASE FetchPte(s, va) \in Pages /\ Low(t, a)
  BY <1>2, <1>6, <1>10
<1>11. CASE FetchPte(s, va) \notin Pages \/ ~Low(t, a)
  <2>1. PteIn(s, va).kind = "Zero"
    BY <1>4, <1>8, <1>11
  <2>2. PteIn(t, va).kind = "Zero"
    BY <1>3, <1>5, <1>7, <1>9, <1>11
  <2> QED
    BY <2>1, <2>2
<1> QED
  BY <1>10, <1>11

-----------------------------------------------------------------------------
(* What becomes of the PTE at b when page x is allocated: the page was its *)
(* own, on the standby queue, and it names the page's slot, ...            *)
Stolen(s, t, x, b) ==
  /\ x \in Pages /\ Entry(s, b).kind = "Trans" /\ Entry(s, b).page = x /\ Clean(s, x)
  /\ Entry(t, b) = SwapPte(s.page[x].drumslot)

(* ... or it stays, or becomes a transition PTE of the page it maps.       *)
Alters(s, t, x, b) ==
  \/ Entry(t, b) = Entry(s, b)
  \/ Entry(s, b).kind = "Valid" /\ Entry(t, b) = TransPte(Entry(s, b).page)
  \/ Stolen(s, t, x, b)

(* Of every PTE but those of A and those in page x.                        *)
Evolved(s, t, x, A) == \A b \in PteAddr \ A : b[1] # x => Alters(s, t, x, b)

(* A page is found first, and nothing is stolen after it.                  *)
LEMMA EvolvedThen ==
  ASSUME NEW s, NEW t, NEW u, NEW x, NEW A, Evolved(s, t, x, A), Evolved(t, u, NoPage, A)
  PROVE  Evolved(s, u, x, A)
<1> SUFFICES ASSUME NEW b \in PteAddr \ A, b[1] # x PROVE Alters(s, u, x, b)
  BY DEF Evolved
<1>1. NoPage \notin Pages /\ b[1] # NoPage
  BY AddrParts DEF NoPage, Pages
<1>2. Alters(s, t, x, b) /\ Alters(t, u, NoPage, b)
  BY <1>1 DEF Evolved
<1>3. \/ Entry(u, b) = Entry(t, b)
      \/ Entry(t, b).kind = "Valid" /\ Entry(u, b) = TransPte(Entry(t, b).page)
  BY <1>1, <1>2 DEF Alters, Stolen
<1>4. \A p : TransPte(p).kind = "Trans" /\ \A n : SwapPte(n).kind \in {"Zero", "Swap"}
  BY DEF TransPte, SwapPte, ZeroPte
<1> QED
  BY <1>2, <1>3, <1>4 DEF Alters, Stolen

(* Functions that leave the tables alone, set one PTE or evict.            *)
LEMMA EvolvedSteps ==
  ASSUME NEW s, NEW t, NEW A
  PROVE  /\ t.table = s.table => Evolved(s, t, NoPage, A)
         /\ \A p, r, n, m : Adjusted(s, t, p, r, n, m) => Evolved(s, t, NoPage, A)
         /\ \A p, n : Refd(s, t, p, n) => Evolved(s, t, NoPage, A)
         /\ \A p, a : Referred(s, t, p, a) => Evolved(s, t, NoPage, A)
         /\ \A a \in A : \A y : Entered(s, t, a, y) => Evolved(s, t, NoPage, A)
         /\ Trimmed(s, t) => Evolved(s, t, NoPage, A)
<1>1. t.table = s.table => Evolved(s, t, NoPage, A)
  BY DEF Evolved, Alters, Entry
<1>2. \A a \in A : \A y : Entered(s, t, a, y) => Evolved(s, t, NoPage, A)
  BY DEF Entered, Evolved, Alters
<1>3. Trimmed(s, t) => Evolved(s, t, NoPage, A)
  <2>1. Same(s, t) => t.table = s.table
    BY DEF Same
  <2>2. ASSUME NEW a \in PteAddr, EvictedAt(s, t, a) PROVE Evolved(s, t, NoPage, A)
    BY <2>2 DEF EvictedAt, Evolved, Alters
  <2> QED
    BY <1>1, <2>1, <2>2 DEF Trimmed
<1> QED
  BY <1>1, <1>2, <1>3 DEF Adjusted, Refd, Referred

(* A wider exception.                                                      *)
LEMMA EvolvedBut ==
  ASSUME NEW s, NEW t, NEW x, NEW A, NEW B, Evolved(s, t, x, A), A \subseteq B
  PROVE  Evolved(s, t, x, B)
BY DEF Evolved

(* A page from the free queue is nobody's.                                 *)
LEMMA TakeFreeEvolved ==
  ASSUME NEW s \in VmStates, NEW use \in TableUses \cup {"AnonPrivate"}, s.free # << >>,
         TakeFree(s, use).panic = NoPanic
  PROVE  Evolved(s, TakeFree(s, use), Head(s.free), {})
<1> DEFINE p == Head(s.free)
           v == TakePage(s, p, use)
           u == [v EXCEPT !.free = Tail(@), !.stat.nfree = @ - 1]
           ok == s.page[p].refcnt = 0 /\ s.page[p].nonzero = 0
           k == Kassert(s, s.page[p].referent = NullRef, "resident.c:124", u)
           k2 == Kassert(s, ok, "resident.c:122", k)
<1>1. use \in PageUse
  BY DEF TableUses, PageUse
<1>2. p \in Pages
  BY Parts DEF Queue
<1> HIDE DEF p
<1>3. v \in VmStates
  BY <1>1, <1>2, TakePageType
<1>4. u.page = v.page /\ u.table = v.table
  BY <1>3 DEF VmStates
<1>5. TakeFree(s, use) = k2
  BY DEF TakeFree, p
<1> HIDE DEF v, u
<1>6. k.panic = NoPanic => k = u
  BY PanicSeen DEF Kassert, Then, NoPanic
<1> HIDE DEF k
<1>7. k2.panic = NoPanic => k2 = k
  BY PanicSeen DEF Kassert, Then, NoPanic
<1> HIDE DEF k2
<1>8. TakeFree(s, use) = u
  BY <1>5, <1>6, <1>7
<1>9. Taken(s, u, p, use)
  BY <1>1, <1>2, <1>4, TakePageEffect DEF v
<1>10. Evolved(s, u, p, {})
  BY <1>9 DEF Taken, Evolved, Alters
<1> QED
  BY <1>8, <1>10 DEF p

(* A page on no queue but the standby queue is clean, and its PTE is in    *)
(* transition.                                                             *)
LEMMA StandbyClean ==
  ASSUME NEW s \in VmStates, Orderly(s), s.standby # << >>
  PROVE  LET p   == Head(s.standby)
             ref == s.page[p].referent
         IN  /\ p \in Pages /\ ref \in PteAddr /\ Clean(s, p) /\ IsTable(s, ref[1])
             /\ Entry(s, ref).kind = "Trans" /\ Entry(s, ref).page = p
<1> DEFINE p   == Head(s.standby)
           ref == s.page[p].referent
<1>1. PICK busy, pins, uses, refs : Owed(s, busy, pins, uses, refs)
  BY DEF Orderly
<1>2. p \in Pages /\ IsAnon(s, p) /\ s.page[p].refcnt = 0 /\ ~s.page[p].dirty
  <2>1. s.standby \in Seq(Pages)
    BY Parts DEF Queue
  <2> DEFINE S == StandbySet(s) \ {NoPage}
  <2>2. Lists(s.standby, S)
    BY <1>1 DEF Owed, Placed
  <2> HIDE DEF S
  <2>3. p \in S
    BY ONLY <2>1, <2>2, s.standby # << >>, ListsTail
  <2> QED
    BY <2>3 DEF S, StandbySet, IsAnon
<1> HIDE DEF p
<1>3. /\ ref \in PteAddr /\ Entry(s, ref).kind = "Trans" /\ IsTable(s, ref[1])
  BY <1>1, <1>2, StandbyTrans DEF Owed, IsAnon
<1>4. /\ PagesLinked(s, Home(s), NoPage, busy) /\ BusyLinked(s, Home(s), NoPage, busy)
      /\ s.page[Root].use = TableUse[Levels]
  BY <1>1 DEF Owed, Maps, Linked
<1>5. p \in Pages \ {Root, NoPage}
  BY <1>2, <1>4, UseFacts
<1>6. Home(s)[p] = ref
  BY <1>2 DEF Home
<1>7. Entry(s, ref).page = p
  BY <1>2, <1>3, <1>4, <1>5, <1>6 DEF PagesLinked, BusyLinked
<1> QED
  BY <1>2, <1>3, <1>7 DEF Clean, p

(* A stolen page leaves its slot in its PTE.                               *)
LEMMA StealPageEvolved ==
  ASSUME NEW s \in VmStates, Orderly(s), NEW use \in TableUses \cup {"AnonPrivate"},
         s.standby # << >>, StealPage(s, use).panic = NoPanic
  PROVE  Evolved(s, StealPage(s, use), Head(s.standby), {})
<1> DEFINE p   == Head(s.standby)
           ref == s.page[p].referent
           x   == SwapPte(s.page[p].drumslot)
           b   == [s EXCEPT !.standby = Tail(@), !.table[ref[1]][ref[2]] = x]
           t   == PteBecameSwap(b, ref[1])
           v   == TakePage(t, p, use)
           u   == [v EXCEPT !.stat.nstandby = @ - 1]
<1>1. use \in PageUse
  BY DEF TableUses, PageUse
<1>2. /\ p \in Pages /\ ref \in PteAddr /\ Clean(s, p) /\ IsTable(s, ref[1])
      /\ Entry(s, ref).kind = "Trans" /\ Entry(s, ref).page = p
  BY StandbyClean
<1> HIDE DEF p
<1>3. ref[1] \in Pages /\ ref[2] \in Idx
  BY <1>2, AddrParts
<1>4. x \in Pte
  BY <1>2, PagePart, PteTypes
<1> HIDE DEF ref, x
<1>5. b \in VmStates
  <2>1. Tail(s.standby) \in Queue
    BY Parts DEF Queue
  <2>2. [s.table EXCEPT ![ref[1]][ref[2]] = x] \in TableMem
    BY <1>3, <1>4, Parts DEF TableMem
  <2> QED
    BY <2>1, <2>2 DEF VmStates
<1>6. b.page = s.page /\ \A c \in PteAddr : Entry(b, c) = IF c = ref THEN x ELSE Entry(s, c)
  <2>1. b.page = s.page /\ b.table = [s.table EXCEPT ![ref[1]][ref[2]] = x]
        /\ s.table \in TableMem
    BY Parts DEF VmStates
  <2> HIDE DEF b
  <2>2. \A e \in Pages, j \in Idx :
          b.table[e][j] = IF e = ref[1] /\ j = ref[2] THEN x ELSE s.table[e][j]
    BY <1>3, <2>1 DEF TableMem
  <2>3. \A c \in PteAddr : Entry(b, c) = IF c = ref THEN x ELSE Entry(s, c)
    BY <1>2, <1>3, <2>2, AddrParts DEF Entry
  <2> QED
    BY <2>1, <2>3
<1> HIDE DEF b
<1>7. t \in VmStates
  BY <1>3, <1>5, PteBecameSwapType
<1>8. v \in VmStates
  BY <1>1, <1>2, <1>7, TakePageType
<1>9. u.page = v.page /\ u.table = v.table
  BY <1>8 DEF VmStates
<1> HIDE DEF v, u, t
<1>10. /\ \A site : site # NoPanic => [s EXCEPT !.panic = site].panic # NoPanic
       /\ \A site : site # NoPanic => [t EXCEPT !.panic = site].panic # NoPanic
  BY <1>7, PanicSeen
<1>11. StealPage(s, use) = Kassert(s, s.page[p].use = "AnonPrivate", "resident.c:78",
                             Kassert(t, t.page[p].refcnt = 0 /\ t.page[p].nonzero = 0,
                                     "resident.c:81", u))
  BY Zenon DEF StealPage, u, v, t, b, x, ref, p
<1>12. StealPage(s, use) = u /\ t.panic = NoPanic
  BY ONLY StealPage(s, use).panic = NoPanic, <1>10, <1>11 DEF Kassert, Then, NoPanic
<1>13. Adjusted(b, t, ref[1], -1, 0, -1)
  <2>1. b.page[ref[1]].use # "Deleted"
    BY <1>2, <1>6 DEF IsTable, TableUses
  <2> QED
    BY <1>3, <1>5, <1>12, <2>1, PteBecameSwapEffect DEF t
<1>14. Taken(t, u, p, use)
  BY <1>1, <1>2, <1>7, <1>9, TakePageEffect DEF v
<1>15. \A c \in PteAddr : Entry(t, c) = Entry(b, c)
  BY <1>13 DEF Adjusted, Entry
<1>16. ASSUME NEW c \in PteAddr, c[1] # p PROVE Alters(s, u, p, c)
  <2>1. Entry(u, c) = IF c = ref THEN x ELSE Entry(s, c)
    BY <1>6, <1>14, <1>15, <1>16 DEF Taken
  <2> QED
    BY <1>2, <2>1 DEF Alters, Stolen, x
<1> QED
  BY <1>12, <1>16 DEF Evolved, p

(* vmp_page_alloc_locked().                                                *)
LEMMA PageAllocEvolved ==
  ASSUME NEW s \in VmStates, Orderly(s), NEW use \in TableUses \cup {"AnonPrivate"}, CanAlloc(s),
         PageAlloc(s, use).panic = NoPanic
  PROVE  Evolved(s, PageAlloc(s, use), AllocatedPage(s), {})
<1>1. s.panic = NoPanic
  BY ThenPassed DEF PageAlloc
<1>2. PageAlloc(s, use) = IF s.free # << >> THEN TakeFree(s, use) ELSE StealPage(s, use)
  BY <1>1 DEF PageAlloc, Then
<1> QED
  BY <1>2, TakeFreeEvolved, StealPageEvolved DEF AllocatedPage, CanAlloc

-----------------------------------------------------------------------------
(* From s to t only page x changes its use.  As a table it has no PTEs, as *)
(* a page of the process it is mapped by a PTE of A, and all other PTEs    *)
(* evolve.                                                                 *)
Reshaped(s, t, x, A) ==
  /\ \A q \in Pages \ {x} : t.page[q].use = s.page[q].use
  /\ x \in Pages => /\ IsTable(s, x) => Blank(s, x)
                    /\ IsTable(t, x) => Blank(t, x)
                    /\ IsAnon(t, x)  => t.page[x].referent \in A
  /\ Evolved(s, t, x, A)

(* No page changes its use.                                                *)
LEMMA SteadyReshaped ==
  ASSUME NEW s, NEW t, NEW A, Steady(s, t), Evolved(s, t, NoPage, A)
  PROVE  Reshaped(s, t, NoPage, A)
BY DEF Reshaped, Steady, NoPage, Pages

(* A demand-zero fault.                                                    *)
LEMMA ZeroFillReshaped ==
  ASSUME NEW s \in VmStates, Orderly(s), CanAlloc(s), NEW a \in PteAddr, NEW w \in BOOLEAN,
         NEW k \in WsKey, ZeroFill(s, a, k, w).panic = NoPanic
  PROVE  /\ Reshaped(s, ZeroFill(s, a, k, w), AllocatedPage(s), {a})
         /\ \/ Entry(ZeroFill(s, a, k, w), a) = HwPte(AllocatedPage(s), w)
            \/ Entry(ZeroFill(s, a, k, w), a) = TransPte(AllocatedPage(s))
<1> DEFINE p  == AllocatedPage(s)
           x  == HwPte(p, w)
           s1 == PageAlloc(s, "AnonPrivate")
           s2 == SetPte(s1, a, x)
           s3 == NonswapPteCreated(s2, a[1], TRUE)
           s4 == WslInsert(s3, k, FALSE)
           s5 == SetReferent(s4, p, a)
           d == a[1]
<1>1. s5 = ZeroFill(s, a, k, w)
  BY DEF ZeroFill
<1>2. d \in Pages
  BY AddrParts
<1>3. "AnonPrivate" \in PageUse /\ "AnonPrivate" \in TableUses \cup {"AnonPrivate"}
  BY DEF PageUse
<1>4. s1 \in VmStates /\ p \in Pages
  BY <1>3, PageAllocType
<1>5. x \in Pte /\ x.kind = "Valid" /\ x.page = p
  <2>1. 0 \in Nat \cup {NoSlot}
    OBVIOUS
  <2>2. x \in Pte
    BY ONLY <1>4, <2>1, w \in BOOLEAN, PteTypes
  <2> QED
    BY <2>2 DEF HwPte, ZeroPte
<1> HIDE DEF x
<1>6. s2 \in VmStates
  BY <1>4, <1>5, SetPteType
<1>7. s3 \in VmStates
  BY <1>2, <1>6, TRUE \in BOOLEAN, NonswapPteCreatedType
<1>8. s4 \in VmStates
  BY <1>7, FALSE \in BOOLEAN, WslInsertType
<1>9. s5.panic = NoPanic => s4.panic = NoPanic /\ Referred(s4, s5, p, a)
  BY <1>4, <1>8, SetReferentEffect
<1>10. s4.panic = NoPanic => s3.panic = NoPanic /\ Trimmed(s3, s4)
  BY <1>7, FALSE \in BOOLEAN, WslInsertEffect
<1>11. s3.panic = NoPanic => s2.panic = NoPanic /\ Adjusted(s2, s3, d, 1, 1, 1)
  BY <1>2, <1>6, TRUE \in BOOLEAN, NonswapPteCreatedEffect
<1>12. s2.panic = NoPanic => s1.panic = NoPanic /\ Entered(s1, s2, a, x)
  BY <1>4, SetPteEffect
<1>13. /\ s1.panic = NoPanic /\ s2.panic = NoPanic /\ s3.panic = NoPanic /\ s4.panic = NoPanic
       /\ s5.panic = NoPanic
  BY <1>1, <1>9, <1>10, <1>11, <1>12
<1>14. Ready(s, s1, p, "AnonPrivate") /\ Evolved(s, s1, p, {})
  BY <1>3, <1>13, PageAllocReady, PageAllocEvolved
<1> HIDE DEF p, s1
<1>15. /\ ~IsTable(s, p) /\ s1.page[p].use = "AnonPrivate"
       /\ \A q \in Pages \ {p} : s1.page[q].use = s.page[q].use
  BY <1>14 DEF Ready, Allocated
<1>16. Steady(s1, s2) /\ Steady(s2, s3) /\ Steady(s3, s4)
       /\ \A b \in PteAddr : Entry(s3, b) = Entry(s2, b)
  <2> HIDE DEF s2, s3, s4
  <2> QED
    BY <1>4, <1>6, <1>7, <1>10, <1>11, <1>12, <1>13, SteadySteps
<1>17. Entry(s2, a) = x
  BY <1>12, <1>13 DEF Entered
<1>18. /\ Evolved(s1, s2, NoPage, {a}) /\ Evolved(s2, s3, NoPage, {a})
       /\ Evolved(s3, s4, NoPage, {a}) /\ Evolved(s4, s5, NoPage, {a})
  <2>1. a \in {a}
    OBVIOUS
  <2> HIDE DEF s2, s3, s4, s5
  <2> QED
    BY <2>1, <1>9, <1>10, <1>11, <1>12, <1>13, EvolvedSteps
<1> HIDE DEF s2, s3
<1>19. Entry(s4, a) = x \/ Entry(s4, a) = TransPte(p)
  <2> HIDE DEF s4
  <2>1. Evolved(s3, s4, NoPage, {})
    BY <1>10, <1>13, EvolvedSteps
  <2>2. Alters(s3, s4, NoPage, a)
    BY <1>2, <2>1 DEF Evolved, NoPage, Pages
  <2> QED
    BY <1>5, <1>16, <1>17, <2>2 DEF Alters, Stolen, NoPage, Pages
<1> HIDE DEF s4
<1>20. /\ \A q \in Pages : s5.page[q].use = s4.page[q].use
       /\ s5.page[p].referent = a /\ Entry(s5, a) = Entry(s4, a)
  BY <1>9, <1>13 DEF Referred, SameRec, Entry
<1> HIDE DEF s5
<1>21. Steady(s1, s4)
  BY <1>16, SteadyThen
<1>22. \A q \in Pages : s5.page[q].use = s1.page[q].use
  BY <1>20, <1>21 DEF Steady
<1>23. Evolved(s, s5, p, {a})
  <2>1. Evolved(s, s1, p, {a})
    BY <1>14, EvolvedBut
  <2> QED
    BY <1>18, <2>1, EvolvedThen
<1>24. ~IsTable(s5, p)
  BY <1>4, <1>15, <1>22 DEF IsTable, TableUses
<1>25. Reshaped(s, s5, p, {a})
  BY <1>15, <1>20, <1>22, <1>23, <1>24 DEF Reshaped
<1> QED
  BY <1>1, <1>19, <1>20, <1>25 DEF p, x

(* The first half of a swap-in.                                            *)
LEMMA StartReadReshaped ==
  ASSUME NEW s \in VmStates, Orderly(s), CanAlloc(s), NEW a \in PteAddr, NEW k \in WsKey,
         StartRead(s, a, k).panic = NoPanic
  PROVE  /\ Reshaped(s, StartRead(s, a, k), AllocatedPage(s), {a})
         /\ Entry(StartRead(s, a, k), a) = BusyPte
<1> DEFINE p  == AllocatedPage(s)
           s1 == PageAlloc(s, "AnonPrivate")
           s2 == SetReferent(s1, p, a)
           s3 == SetPte(s2, a, BusyPte)
           s4 == NonswapPteCreated(s3, a[1], FALSE)
           s5 == WslInsert(s4, k, TRUE)
           d == a[1]
<1>1. s5 = StartRead(s, a, k)
  BY DEF StartRead
<1>2. d \in Pages
  BY AddrParts
<1>3. "AnonPrivate" \in PageUse /\ "AnonPrivate" \in TableUses \cup {"AnonPrivate"}
  BY DEF PageUse
<1>4. s1 \in VmStates /\ p \in Pages
  BY <1>3, PageAllocType
<1>5. s2 \in VmStates
  BY <1>4, SetReferentType
<1>6. s3 \in VmStates
  <2>1. 0 \in Nat \cup {NoSlot} /\ FALSE \in BOOLEAN
    OBVIOUS
  <2>2. BusyPte \in Pte
    BY ONLY <1>4, <2>1, PteTypes
  <2> QED
    BY <1>5, <2>2, SetPteType
<1>7. s4 \in VmStates
  BY <1>2, <1>6, FALSE \in BOOLEAN, NonswapPteCreatedType
<1>8. s5.panic = NoPanic => s4.panic = NoPanic /\ Trimmed(s4, s5)
  BY <1>7, TRUE \in BOOLEAN, WslInsertEffect
<1>9. s4.panic = NoPanic => s3.panic = NoPanic /\ Adjusted(s3, s4, d, 1, 0, 1)
  BY <1>2, <1>6, FALSE \in BOOLEAN, NonswapPteCreatedEffect
<1>10. s3.panic = NoPanic => s2.panic = NoPanic /\ Entered(s2, s3, a, BusyPte)
  BY <1>5, SetPteEffect
<1>11. s2.panic = NoPanic => s1.panic = NoPanic /\ Referred(s1, s2, p, a)
  BY <1>4, SetReferentEffect
<1>12. /\ s1.panic = NoPanic /\ s2.panic = NoPanic /\ s3.panic = NoPanic /\ s4.panic = NoPanic
       /\ s5.panic = NoPanic
  BY <1>1, <1>8, <1>9, <1>10, <1>11
<1>13. Ready(s, s1, p, "AnonPrivate") /\ Evolved(s, s1, p, {})
  BY <1>3, <1>12, PageAllocReady, PageAllocEvolved
<1> HIDE DEF p, s1
<1>14. /\ ~IsTable(s, p) /\ s1.page[p].use = "AnonPrivate"
       /\ \A q \in Pages \ {p} : s1.page[q].use = s.page[q].use
  BY <1>13 DEF Ready, Allocated
<1>15. Steady(s2, s3) /\ Steady(s3, s4) /\ Steady(s4, s5)
       /\ \A b \in PteAddr : Entry(s4, b) = Entry(s3, b)
  <2> HIDE DEF s2, s3, s4, s5
  <2> QED
    BY <1>5, <1>6, <1>7, <1>8, <1>9, <1>10, <1>12, SteadySteps
<1>16. Entry(s3, a) = BusyPte
  BY <1>10, <1>12 DEF Entered
<1>17. /\ Evolved(s1, s2, NoPage, {a}) /\ Evolved(s2, s3, NoPage, {a})
       /\ Evolved(s3, s4, NoPage, {a}) /\ Evolved(s4, s5, NoPage, {a})
  <2>1. a \in {a}
    OBVIOUS
  <2> HIDE DEF s2, s3, s4, s5
  <2> QED
    BY <2>1, <1>8, <1>9, <1>10, <1>11, <1>12, EvolvedSteps
<1>18. /\ \A q \in Pages : s2.page[q].use = s1.page[q].use
       /\ s2.page[p].referent = a
  BY <1>11, <1>12 DEF Referred, SameRec
<1> HIDE DEF s2, s3
<1>19. Entry(s5, a) = BusyPte
  <2> HIDE DEF s4, s5
  <2>1. Evolved(s4, s5, NoPage, {})
    BY <1>8, <1>12, EvolvedSteps
  <2>2. Alters(s4, s5, NoPage, a)
    BY <1>2, <2>1 DEF Evolved, NoPage, Pages
  <2>3. BusyPte.kind = "Busy"
    BY DEF BusyPte, ZeroPte
  <2> QED
    BY <1>15, <1>16, <2>2, <2>3 DEF Alters, Stolen, NoPage, Pages
<1> HIDE DEF s4, s5
<1>20. Steady(s2, s5)
  BY <1>15, SteadyThen
<1>21. /\ \A q \in Pages : s5.page[q].use = s1.page[q].use
       /\ s5.page[p].referent = a
  BY <1>4, <1>18, <1>20 DEF Steady
<1>22. Evolved(s, s5, p, {a})
  <2>1. Evolved(s, s1, p, {a})
    BY <1>13, EvolvedBut
  <2> QED
    BY <1>17, <2>1, EvolvedThen
<1>23. ~IsTable(s5, p)
  BY <1>4, <1>14, <1>21 DEF IsTable, TableUses
<1>24. Reshaped(s, s5, p, {a})
  BY <1>14, <1>21, <1>22, <1>23 DEF Reshaped
<1> QED
  BY <1>1, <1>19, <1>24 DEF p

(* A transition fault.                                                     *)
LEMMA ReclaimReshaped ==
  ASSUME NEW s \in VmStates, NEW a \in PteAddr, NEW p \in Pages, NEW k \in WsKey,
         Reclaim(s, a, k, p).panic = NoPanic
  PROVE  /\ Reshaped(s, Reclaim(s, a, k, p), NoPage, {a})
         /\ \/ Entry(Reclaim(s, a, k, p), a) = HwPte(p, FALSE)
            \/ Entry(Reclaim(s, a, k, p), a) = TransPte(p)
<1> DEFINE x  == HwPte(p, FALSE)
           s1 == PageRetain(s, p)
           s2 == SetPte(s1, a, x)
           s3 == WslInsert(s2, k, FALSE)
<1>1. s3 = Reclaim(s, a, k, p)
  BY DEF Reclaim
<1>2. x \in Pte /\ x.kind = "Valid" /\ x.page = p /\ a[1] \in Pages
  <2>1. 0 \in Nat \cup {NoSlot} /\ FALSE \in BOOLEAN
    OBVIOUS
  <2>2. x \in Pte
    BY ONLY <2>1, p \in Pages, PteTypes
  <2> QED
    BY <2>2, AddrParts DEF HwPte, ZeroPte
<1> HIDE DEF x
<1>3. s1 \in VmStates
  BY PageRetainType
<1>4. s2 \in VmStates
  BY <1>2, <1>3, SetPteType
<1>5. s3.panic = NoPanic => s2.panic = NoPanic /\ Trimmed(s2, s3)
  BY <1>4, FALSE \in BOOLEAN, WslInsertEffect
<1>6. s2.panic = NoPanic => s1.panic = NoPanic /\ Entered(s1, s2, a, x)
  BY <1>3, SetPteEffect
<1>7. s1.panic = NoPanic => Refd(s, s1, p, 1)
  BY PageRetainEffect
<1>8. s1.panic = NoPanic /\ s2.panic = NoPanic /\ s3.panic = NoPanic /\ Refd(s, s1, p, 1)
  BY <1>1, <1>5, <1>6, <1>7
<1>9. Steady(s, s1)
  <2>1. Adjusted(s, s1, p, 1, 0, 0)
    BY <1>8, RefdAdjusted, 1 \in Int
  <2> QED
    BY <2>1, SteadySteps
<1> HIDE DEF s1
<1>10. Steady(s1, s2) /\ Steady(s2, s3)
  <2> HIDE DEF s2, s3
  <2> QED
    BY <1>3, <1>4, <1>5, <1>6, <1>8, SteadySteps
<1>11. Entry(s2, a) = x
  BY <1>6, <1>8 DEF Entered
<1>12. Evolved(s, s1, NoPage, {a}) /\ Evolved(s1, s2, NoPage, {a}) /\ Evolved(s2, s3, NoPage, {a})
  <2>1. a \in {a}
    OBVIOUS
  <2> HIDE DEF s2, s3
  <2> QED
    BY <2>1, <1>5, <1>6, <1>8, EvolvedSteps
<1> HIDE DEF s2, s3
<1>13. Entry(s3, a) = x \/ Entry(s3, a) = TransPte(p)
  <2>1. Evolved(s2, s3, NoPage, {})
    BY <1>5, <1>8, EvolvedSteps
  <2>2. Alters(s2, s3, NoPage, a)
    BY <1>2, <2>1 DEF Evolved, NoPage, Pages
  <2> QED
    BY <1>2, <1>11, <2>2 DEF Alters, Stolen, NoPage, Pages
<1>14. Reshaped(s, s3, NoPage, {a})
  BY <1>9, <1>10, <1>12, SteadyThen, EvolvedThen, SteadyReshaped
<1> QED
  BY <1>1, <1>13, <1>14 DEF x

(* A table is entered in its directory.                                    *)
LEMMA EnterTableEvolved ==
  ASSUME NEW s \in VmStates, NEW dir \in Pages, NEW i \in Idx, NEW p \in Pages, NEW a,
         a = << dir, i >>, NewEntry(s, dir, i, p).panic = NoPanic
  PROVE  /\ s.panic = NoPanic /\ Evolved(s, NewEntry(s, dir, i, p), NoPage, {a})
         /\ \A q \in Pages : NewEntry(s, dir, i, p).page[q].use = s.page[q].use
<1> DEFINE x  == HwPte(p, TRUE)
           c  == OneWiring(s, p)
           s1 == Then(s, c)
           k  == TableKey(p)
           s2 == WslInsert(s1, k, TRUE)
           s3 == NonswapPteCreated(s2, dir, TRUE)
           s4 == SetPte(s3, a, x)
<1>1. s4 = NewEntry(s, dir, i, p)
  BY DEF NewEntry, EnterTable, OneWiring
<1>2. a \in PteAddr /\ a \in {a} /\ k \in WsKey
  BY TableKeyType DEF PteAddr
<1>3. x \in Pte
  <2>1. 0 \in Nat \cup {NoSlot} /\ TRUE \in BOOLEAN
    OBVIOUS
  <2> QED
    BY ONLY <2>1, p \in Pages, PteTypes
<1> HIDE DEF x
<1>4. c \in VmStates /\ Adjusted(s, c, p, 0, 1, 1)
  BY TableCounted
<1> HIDE DEF c
<1>5. s1 \in VmStates
  BY <1>4 DEF Then
<1>6. s2 \in VmStates
  BY <1>2, <1>5, TRUE \in BOOLEAN, WslInsertType
<1>7. s3 \in VmStates
  BY <1>6, TRUE \in BOOLEAN, NonswapPteCreatedType
<1>8. s4.panic = NoPanic => s3.panic = NoPanic /\ Entered(s3, s4, a, x)
  BY <1>2, <1>7, SetPteEffect
<1>9. s3.panic = NoPanic => s2.panic = NoPanic /\ Adjusted(s2, s3, dir, 1, 1, 1)
  BY <1>6, TRUE \in BOOLEAN, NonswapPteCreatedEffect
<1>10. s2.panic = NoPanic => s1.panic = NoPanic /\ Trimmed(s1, s2)
  BY <1>2, <1>5, TRUE \in BOOLEAN, WslInsertEffect
<1>11. s1.panic = NoPanic => s.panic = NoPanic /\ s1 = c
  BY ThenPassed
<1>12. /\ s.panic = NoPanic /\ Entered(s3, s4, a, x) /\ Adjusted(s2, s3, dir, 1, 1, 1)
       /\ Trimmed(s1, s2) /\ Adjusted(s, s1, p, 0, 1, 1)
  BY <1>1, <1>4, <1>8, <1>9, <1>10, <1>11
<1> HIDE DEF s1, s2, s3, s4
<1>13. Steady(s, s1) /\ Steady(s1, s2) /\ Steady(s2, s3) /\ Steady(s3, s4)
  BY <1>5, <1>6, <1>7, <1>12, SteadySteps
<1>14. /\ Evolved(s, s1, NoPage, {a}) /\ Evolved(s1, s2, NoPage, {a})
       /\ Evolved(s2, s3, NoPage, {a}) /\ Evolved(s3, s4, NoPage, {a})
  BY <1>2, <1>12, EvolvedSteps
<1>15. Steady(s, s4) /\ Evolved(s, s4, NoPage, {a})
  BY <1>13, <1>14, SteadyThen, EvolvedThen
<1> QED
  BY <1>1, <1>12, <1>15 DEF Steady

(* A table is made.                                                        *)
LEMMA NewTableReshaped ==
  ASSUME NEW s \in VmStates, Orderly(s), NEW dir \in Pages, NEW i \in Idx, NEW use \in TableUses,
         NewTable(s, dir, i, use).panic = NoPanic, IsTable(s, dir)
  PROVE  Reshaped(s, NewTable(s, dir, i, use), AllocatedPage(s), {<< dir, i >>})
<1> DEFINE a  == << dir, i >>
           p  == AllocatedPage(s)
           s1 == PageAlloc(s, use)
           s2 == PageRetain(s1, p)
           s3 == SetReferent(s2, p, a)
           s4 == NewEntry(s3, dir, i, p)
           r == NewTable(s, dir, i, use)
<1>1. r = Kassert(s, CanAlloc(s), "tables.c:226", s4)
  BY DEF NewTable, NewEntry
<1> HIDE DEF s4
<1>2. s.panic = NoPanic /\ CanAlloc(s) /\ r = s4
  BY <1>1, PanicSeen DEF Kassert, Then, NoPanic
<1> HIDE DEF r
<1>3. use \in PageUse /\ use \in TableUses \cup {"AnonPrivate"}
  BY DEF PageUse, TableUses
<1>4. s1 \in VmStates /\ p \in Pages /\ a \in PteAddr /\ a[1] = dir
  BY <1>2, <1>3, PageAllocType DEF PteAddr
<1> HIDE DEF p, a
<1>5. s2 \in VmStates
  BY <1>4, PageRetainType
<1>6. s3 \in VmStates
  BY <1>4, <1>5, SetReferentType
<1>7. /\ s3.panic = NoPanic /\ Evolved(s3, s4, NoPage, {a})
      /\ \A q \in Pages : s4.page[q].use = s3.page[q].use
  <2>1. s4 = NewEntry(s3, dir, i, p) /\ s4.panic = NoPanic /\ a = << dir, i >>
    BY <1>2, Zenon DEF s4, r, a
  <2> HIDE DEF s3
  <2> QED
    BY <1>4, <1>6, <2>1, EnterTableEvolved
<1>8. s2.panic = NoPanic /\ Referred(s2, s3, p, a)
  BY <1>4, <1>5, <1>7, SetReferentEffect
<1>9. s1.panic = NoPanic /\ Refd(s1, s2, p, 1)
  BY <1>4, <1>8, PageRetainEffect
<1>10. Ready(s, s1, p, use) /\ Evolved(s, s1, p, {})
  BY <1>2, <1>3, <1>9, PageAllocReady, PageAllocEvolved DEF p
<1> HIDE DEF s1, s2, s3
<1>11. /\ p \in Pages \ {Root} /\ ~IsTable(s, p) /\ s1.page[p].use = use /\ Blank(s1, p)
       /\ \A q \in Pages \ {p} : s1.page[q].use = s.page[q].use
  BY <1>10, Zenon DEF Ready, Allocated
<1>12. \A q \in Pages : s4.page[q].use = s1.page[q].use
  <2>1. \A q \in Pages : s3.page[q].use = s2.page[q].use
    BY <1>8 DEF Referred, SameRec
  <2>2. \A q \in Pages : s2.page[q].use = s1.page[q].use
    BY <1>9 DEF Refd, SameRec
  <2> QED
    BY <1>7, <2>1, <2>2
<1>13. Evolved(s1, s4, NoPage, {a})
  <2>1. Evolved(s1, s2, NoPage, {a}) /\ Evolved(s2, s3, NoPage, {a})
    BY <1>8, <1>9, EvolvedSteps
  <2> QED
    BY <1>7, <2>1, EvolvedThen
<1>14. Evolved(s, s4, p, {a})
  <2>1. Evolved(s, s1, p, {a})
    BY <1>10, EvolvedBut
  <2> QED
    BY <1>13, <2>1, EvolvedThen
<1>15. Blank(s4, p)
  <2> SUFFICES ASSUME NEW b \in PteAddr, b[1] = p PROVE Entry(s4, b).kind = "Zero"
    BY DEF Blank
  <2>1. b # a /\ b[1] # NoPage /\ NoPage \notin Pages
    BY <1>4, <1>11 DEF NoPage, Pages
  <2>2. Alters(s1, s4, NoPage, b) /\ Entry(s1, b).kind = "Zero"
    BY <1>11, <1>13, <2>1 DEF Evolved, Blank
  <2> QED
    BY <2>1, <2>2 DEF Alters, Stolen
<1>16. ~IsAnon(s4, p)
  BY <1>11, <1>12 DEF IsAnon, TableUses
<1> QED
  BY <1>2, <1>11, <1>12, <1>14, <1>15, <1>16 DEF Reshaped, r, p, a

(* vmp_wire_pte(), one level.                                              *)
LEMMA WireTableReshaped ==
  ASSUME NEW s \in VmStates, Orderly(s), NEW dir \in Pages, NEW i \in Idx, NEW use \in TableUses,
         WireTable(s, dir, i, use).panic = NoPanic,
         IsTable(s, dir), use = Below(s.page[dir].use)
  PROVE  IF Entry(s, << dir, i >>).kind = "Valid"
         THEN /\ WireTable(s, dir, i, use)
                   = NonswapPteCreated(s, Entry(s, << dir, i >>).page, TRUE)
              /\ Reshaped(s, WireTable(s, dir, i, use), NoPage, {<< dir, i >>})
         ELSE /\ Entry(s, << dir, i >>).kind = "Zero"
              /\ WireTable(s, dir, i, use) = NewTable(s, dir, i, use)
              /\ Reshaped(s, WireTable(s, dir, i, use), AllocatedPage(s), {<< dir, i >>})
<1> DEFINE a == << dir, i >>
           p == Entry(s, a).page
           t == WireTable(s, dir, i, use)
<1>1. a \in PteAddr /\ a[1] = dir /\ Entry(s, a) = s.table[dir][i]
  BY DEF PteAddr, Entry
<1>2. p \in Pages /\ Entry(s, a).kind \in PteKind
  BY <1>1, EntryPart
<1>3. CASE Entry(s, a).kind = "Valid"
  <2>1. t = NonswapPteCreated(s, p, TRUE)
    BY <1>1, <1>3 DEF WireTable
  <2> HIDE DEF p, t
  <2>2. Adjusted(s, t, p, 1, 1, 1)
    BY <1>2, <2>1, TRUE \in BOOLEAN, NonswapPteCreatedEffect DEF t
  <2>3. Steady(s, t) /\ Evolved(s, t, NoPage, {a})
    BY <2>2, SteadySteps, EvolvedSteps
  <2> QED
    BY <1>3, <2>1, <2>3, SteadyReshaped DEF t, p
<1>4. CASE Entry(s, a).kind = "Trans"
  <2>1. s.page[p].use = use /\ s.page[dir].use = "PML1"
    BY <1>1, <1>4, Zenon DEF Orderly, Owed, Maps, Linked, PtesLinked
  <2>2. use = "AnonPrivate"
    BY <2>1 DEF Below
  <2> QED
    BY <2>2 DEF TableUses
<1>5. CASE Entry(s, a).kind = "Zero"
  <2>1. t = NewTable(s, dir, i, use)
    BY <1>1, <1>5 DEF WireTable
  <2> HIDE DEF t
  <2>2. NewTable(s, dir, i, use).panic = NoPanic
    BY <2>1 DEF t
  <2> QED
    BY <1>5, <2>1, <2>2, NewTableReshaped DEF t
<1>6. CASE Entry(s, a).kind \in {"Busy", "Swap"}
  <2>1. t = Kfatal(s, "tables.c:203") \/ t = Kfatal(s, "tables.c:216")
    BY <1>1, <1>6 DEF WireTable
  <2> QED
    BY <2>1, KfatalPassed DEF NoPanic
<1> QED
  BY <1>2, <1>3, <1>4, <1>5, <1>6 DEF PteKind

(* vmp_pagetable_page_pte_deleted() of a table that a thread has wired:    *)
(* one that is freed is empty, and its entry is no leaf PTE.               *)
LEMMA PteDeletedReshaped ==
  ASSUME NEW s \in VmStates, NEW p \in Pages, IsTable(s, p), PteDeleted(s, p).panic = NoPanic,
         NEW wired \in Ledger, wired[p] >= 1, NEW refs \in Ledger, NEW busy,
         \A q \in Pages : refs[q] >= 0, \A q \in Pages : refs[q] > 0 => IsAnon(s, q),
         Maps(s, Home(s), NoPage, busy, wired, wired, refs)
  PROVE  \/ Reshaped(s, PteDeleted(s, p), NoPage, {})
         \/ /\ Reshaped(s, PteDeleted(s, p), p, {s.page[p].referent})
            /\ s.page[p].referent \in PteAddr /\ ~Low(s, s.page[p].referent)
<1> DEFINE home == Home(s)
<1>1. Counted(s, wired, wired) /\ PtesLinked(s, home, NoPage)
  BY DEF Maps, Linked
<1>2. s.panic = NoPanic
  BY DEF PteDeleted, Then
<1>3. CASE LastPte(s, p)
  <2> DEFINE ref == s.page[p].referent
             dir == ref[1]
             t   == FreeTable(s, p)
  <2>1. PteDeleted(s, p) = t
    BY <1>2, <1>3 DEF PteDeleted, Then
  <2>2. /\ p # Root /\ s.page[p].refcnt = 2 /\ s.page[p].nonzero = 1
        /\ ref \in PteAddr /\ dir \in Pages /\ dir # p /\ IsTable(s, dir)
        /\ Entry(s, ref).kind \in {"Valid", "Trans"} /\ Entry(s, ref).page = p
    BY <1>3, LastTable
  <2>3. s.page[p].nonswap = 1 /\ \A j \in Idx : s.table[p][j].kind = "Zero"
    BY <1>1, <2>2, LastWiring
  <2> HIDE DEF t, ref, dir
  <2>4. Blank(s, p)
    BY <2>3, AddrParts DEF Blank, Entry
  <2>5. s.page[p].use = Below(s.page[dir].use)
    BY <1>1, <2>2 DEF PtesLinked, dir
  <2>6. ~Low(s, ref)
    BY <2>5 DEF IsTable, TableUses, Below, Low, dir
  <2>7. Retired(s, t, p, ref)
    <3>1. s.page[dir].use # "Deleted"
      BY <2>2 DEF IsTable, TableUses
    <3> QED
      BY <2>1, <2>2, <3>1, FreeTableEffect DEF t, ref, dir
  <2>8. \A q \in Pages \ {p} : t.page[q].use = s.page[q].use
    <3> TAKE q \in Pages \ {p}
    <3>1. CASE q = dir
      BY <2>7, <3>1 DEF Retired, dir
    <3>2. CASE q # dir
      <4>1. SameRec(s, t, q)
        BY <2>7, <3>2 DEF Retired, dir
      <4> QED
        BY <4>1 DEF SameRec
    <3> QED
      BY <3>1, <3>2
  <2>9. ~IsTable(t, p) /\ ~IsAnon(t, p)
    BY <2>7 DEF Retired, IsTable, IsAnon, TableUses
  <2>10. Evolved(s, t, p, {ref})
    BY <2>7 DEF Retired, Evolved, Alters
  <2>11. Reshaped(s, t, p, {ref})
    BY <2>4, <2>8, <2>9, <2>10 DEF Reshaped
  <2> QED
    BY <2>1, <2>2, <2>6, <2>11 DEF ref
<1>4. CASE ~LastPte(s, p)
  <2> DEFINE t == PteUncounted(s, p)
  <2>1. PteDeleted(s, p) = t
    BY <1>2, <1>4 DEF PteDeleted, Then
  <2>2. s.page[p].use # "Deleted"
    BY DEF IsTable, TableUses
  <2>3. Adjusted(s, t, p, -1, -1, -1)
    BY <2>1, <2>2, PteUncountedEffect
  <2> HIDE DEF t
  <2>4. Steady(s, t) /\ Evolved(s, t, NoPage, {})
    BY <2>3, SteadySteps, EvolvedSteps
  <2> QED
    BY <2>1, <2>4, SteadyReshaped
<1> QED
  BY <1>3, <1>4

(* One PTE is set, or one page is evicted.                                 *)
LEMMA PlainReshaped ==
  ASSUME NEW s \in VmStates, NEW t, NEW A
  PROVE  /\ Same(s, t) => Reshaped(s, t, NoPage, A)
         /\ \A p, r, n, m : Adjusted(s, t, p, r, n, m) => Reshaped(s, t, NoPage, A)
         /\ \A a \in A : \A x : Entered(s, t, a, x) => Reshaped(s, t, NoPage, A)
         /\ Trimmed(s, t) => Reshaped(s, t, NoPage, A)
<1>1. Same(s, t) => Trimmed(s, t)
  BY DEF Trimmed
<1>2. \A p, r, n, m : Adjusted(s, t, p, r, n, m) => Reshaped(s, t, NoPage, A)
  BY SteadySteps, EvolvedSteps, SteadyReshaped
<1>3. \A a \in A : \A x : Entered(s, t, a, x) => Reshaped(s, t, NoPage, A)
  BY SteadySteps, EvolvedSteps, SteadyReshaped
<1>4. Trimmed(s, t) => Reshaped(s, t, NoPage, A)
  BY SteadySteps, EvolvedSteps, SteadyReshaped
<1> QED
  BY <1>1, <1>2, <1>3, <1>4

-----------------------------------------------------------------------------
(* CellOf of any state.                                                    *)
DiskIn(d, s) == IF s \in Slots THEN d[s] ELSE 0

ReaderSlot(x, va) ==
  LET f == CHOOSE g \in Faulters : x[g].page # NoPage /\ x[g].va = va IN x[f].slot

CellIn(s, d, x, va) ==
  LET pte == PteIn(s, va)
  IN  CASE pte.kind = "Zero" -> [where |-> "nowhere", data |-> 0, slot |-> NoSlot]
        [] pte.kind \in {"Valid", "Trans"} ->
             [where |-> "core", data |-> s.data[pte.page], slot |-> s.page[pte.page].drumslot]
        [] pte.kind = "Swap" ->
             [where |-> "drum", data |-> DiskIn(d, pte.slot), slot |-> pte.slot]
        [] pte.kind = "Busy" ->
             [where |-> "reading", data |-> DiskIn(d, ReaderSlot(x, va)),
              slot |-> ReaderSlot(x, va)]

(* The cells are those of the mapping, before and after a step.            *)
LEMMA CellsAre ==
  /\ \A va : CellOf(va) = CellIn(vm, disk, flt, va)
  /\ [va \in VAddrs |-> CellOf(va)]' = [va \in VAddrs |-> CellIn(vm', disk', flt', va)]
<1>1. ASSUME NEW va PROVE CellOf(va) = CellIn(vm, disk, flt, va)
  <2>1. PteOf(va) = PteIn(vm, va)
    BY DEF PteOf, PteIn, LeafTable
  <2>2. SlotRead(va) = ReaderSlot(flt, va)
    BY DEF SlotRead, ReaderSlot
  <2>3. \A s : DiskAt(s) = DiskIn(disk, s)
    BY DEF DiskAt, DiskIn
  <2> QED
    BY <2>1, <2>2, <2>3, Zenon DEF CellOf, CellIn
<1>2. ASSUME NEW va \in VAddrs PROVE CellOf(va)' = CellIn(vm', disk', flt', va)
  <2>1. PteOf(va)' = PteIn(vm', va)
    BY DEF PteOf, PteIn, LeafTable, FetchPte, Walk
  <2>2. SlotRead(va)' = ReaderSlot(flt', va)
    BY DEF SlotRead, ReaderSlot
  <2>3. \A s : DiskAt(s)' = DiskIn(disk', s)
    BY DEF DiskAt, DiskIn
  <2> QED
    BY <2>1, <2>2, <2>3, Zenon DEF CellOf, CellIn
<1> QED
  BY <1>1, <1>2

-----------------------------------------------------------------------------
(* What is known of the tables and the reads between two steps.            *)
Sane(s, x) ==
  /\ s \in VmStates /\ x \in [Faulters -> FaultLocals] /\ Forest(s, Home(s), NoPage)
  /\ \E w \in WriterLocals : Owing(s, x, w)
  /\ \A f \in Faulters : x[f].page \in Pages => Addr(Home(s), x[f].pte) = x[f].va

(* Pages other than z keep their contents and drum slots.                  *)
SamePages(s, t, z) ==
  \A q \in Pages \ {z} : t.page[q].drumslot = s.page[q].drumslot /\ t.data[q] = s.data[q]

Turned(s, t, z, A) == Frozen(s, t) /\ Reshaped(s, t, z, A) /\ SamePages(s, t, z)

(* The reads that are not through a PTE of A go on.                        *)
Reads(x, y, A) ==
  \A g \in Faulters :
    \/ x[g].page \in Pages /\ x[g].pte \notin A
    \/ y[g].page \in Pages /\ y[g].pte \notin A
    => y[g].page = x[g].page /\ y[g].pte = x[g].pte /\ y[g].slot = x[g].slot

(* None of the PTEs A is that of va.                                       *)
Elsewhere(s, A, va) == \A a \in A : ~(Low(s, a) /\ Addr(Home(s), a) = va)

(* The thread that reads a page in through a busy PTE is the one whose     *)
(* slot its address has.                                                   *)
LEMMA BusyAt ==
  ASSUME NEW s, NEW x, Sane(s, x), NEW b \in PteAddr, Entry(s, b).kind = "Busy"
  PROVE  /\ s.page[b[1]].use = "PML1"
         /\ \E g \in Faulters : x[g].page \in Pages /\ x[g].pte = b
         /\ \A g \in Faulters :
              x[g].page \in Pages /\ x[g].pte = b =>
                ReaderSlot(x, Addr(Home(s), b)) = x[g].slot
<1> DEFINE va == Addr(Home(s), b)
<1>1. PICK w \in WriterLocals : Owing(s, x, w)
  BY DEF Sane
<1>2. /\ BusyLinked(s, Home(s), NoPage, BusyOf(x)) /\ ReadAlone(x, w)
      /\ s \in VmStates /\ x \in [Faulters -> FaultLocals] /\ NoPage \notin Pages
  BY <1>1 DEF Owing, Maps, Linked, Sane, NoPage, Pages
<1>3. PICK q \in Pages : << b, q >> \in BusyOf(x)
  BY <1>2 DEF BusyLinked
<1>4. PICK g \in Faulters : << b, q >> = << x[g].pte, x[g].page >>
  BY <1>3 DEF BusyOf
<1>5. x[g].page = q /\ x[g].pte = b
  BY <1>4
<1>6. s.page[b[1]].use = "PML1" /\ \A r \in Pages : << b, r >> \in BusyOf(x) => r = q
  BY <1>2, <1>3, Zenon DEF BusyLinked
<1>7. x[g].page # NoPage /\ x[g].va = va
  BY <1>2, <1>5 DEF Sane
<1>8. ASSUME NEW h \in Faulters, x[h].page # NoPage, x[h].va = va
      PROVE  h = g
  <2>1. x[h].page \in Pages
    BY <1>2, <1>8 DEF FaultLocals
  <2>2. /\ << x[h].pte, x[h].page >> \in BusyOf(x) /\ x[h].pte \in PteAddr
        /\ s.page[x[h].pte[1]].use = "PML1"
    BY <1>1, <1>2, <2>1, ReadRefd
  <2>3. Addr(Home(s), x[h].pte) = va
    BY <1>8, <2>1 DEF Sane
  <2> DEFINE home == Home(s)
             a == x[h].pte
  <2>4. /\ Forest(s, home, NoPage) /\ Addr(home, a) = Addr(home, b)
        /\ a \in PteAddr /\ s.page[a[1]].use = "PML1" /\ a[1] # NoPage /\ b[1] # NoPage
    BY <1>2, <2>2, <2>3, AddrParts DEF Sane
  <2> HIDE DEF home, a
  <2>5. a = b
    BY <1>2, <1>6, <2>4, AddrOnce
  <2>6. x[h].page = q
    BY <1>6, <2>1, <2>2, <2>5 DEF a
  <2> QED
    BY <1>2, <1>5, <2>1, <2>6 DEF ReadAlone
<1> HIDE DEF va
<1>9. (CHOOSE h \in Faulters : x[h].page # NoPage /\ x[h].va = va) = g
  BY <1>7, <1>8, Zenon
<1>10. ReaderSlot(x, va) = x[g].slot
  BY <1>9 DEF ReaderSlot
<1>11. ASSUME NEW h \in Faulters, x[h].page \in Pages, x[h].pte = b
       PROVE  h = g
  <2>1. x[h].page # NoPage /\ x[h].va = Addr(Home(s), b)
    BY <1>2, <1>11 DEF Sane
  <2> QED
    BY <1>8, <2>1 DEF va
<1> QED
  BY <1>3, <1>5, <1>6, <1>10, <1>11 DEF va

(* The tables stay where they are.                                         *)
LEMMA TurnedTree ==
  ASSUME NEW s \in VmStates, NEW t \in VmStates, Forest(s, Home(s), NoPage),
         Forest(t, Home(t), NoPage), Frozen(s, t), NEW z, NEW A, Reshaped(s, t, z, A)
  PROVE  SameTree(s, t)
<1>1. \A a \in PteAddr : a[1] \in Pages
  BY AddrParts
<1>2. \A a \in PteAddr : (Low(s, a) /\ ~Low(t, a)) \/ (Low(t, a) /\ ~Low(s, a)) => a[1] = z
  BY <1>1, Zenon DEF Reshaped, Low
<1>3. \A a \in PteAddr : Low(s, a) /\ ~Low(t, a) => Entry(s, a).kind = "Zero"
  BY <1>1, <1>2 DEF Reshaped, Blank, Low, IsTable, TableUses
<1>4. \A a \in PteAddr : Low(t, a) /\ ~Low(s, a) => Entry(t, a).kind = "Zero"
  BY <1>1, <1>2 DEF Reshaped, Blank, Low, IsTable, TableUses
<1> QED
  BY <1>3, <1>4 DEF SameTree

(* What becomes of the leaf PTE of an address.                             *)
LEMMA PteTurns ==
  ASSUME NEW s \in VmStates, NEW t \in VmStates, SameTree(s, t), NEW z, NEW A,
         Reshaped(s, t, z, A), NEW va \in VAddr, Elsewhere(s, A, va)
  PROVE  \/ PteIn(s, va).kind = "Zero" /\ PteIn(t, va).kind = "Zero"
         \/ \E b \in PteAddr \ A :
              /\ Low(s, b) /\ Low(t, b) /\ Addr(Home(s), b) = va /\ Alters(s, t, z, b)
              /\ PteIn(s, va) = Entry(s, b) /\ PteIn(t, va) = Entry(t, b)
<1>1. CASE PteIn(s, va).kind = "Zero" /\ PteIn(t, va).kind = "Zero"
  BY <1>1
<1>2. ASSUME NEW b \in PteAddr, Low(s, b), Low(t, b), Addr(Home(s), b) = va,
             PteIn(s, va) = Entry(s, b), PteIn(t, va) = Entry(t, b),
             ~(PteIn(s, va).kind = "Zero" /\ PteIn(t, va).kind = "Zero")
      PROVE  b \notin A /\ Alters(s, t, z, b)
  <2>1. b \notin A
    BY <1>2 DEF Elsewhere
  <2>2. b[1] \in Pages /\ IsTable(s, b[1]) /\ IsTable(t, b[1])
    BY <1>2, AddrParts DEF Low, IsTable, TableUses
  <2>3. CASE b[1] = z
    <3>1. Entry(s, b).kind = "Zero" /\ Entry(t, b).kind = "Zero"
      BY <2>2, <2>3 DEF Reshaped, Blank
    <3> QED
      BY <1>2, <3>1
  <2>4. CASE b[1] # z
    BY <2>1, <2>4 DEF Reshaped, Evolved
  <2> QED
    BY <2>1, <2>3, <2>4
<1> QED
  BY <1>1, <1>2, PteStays

(* One address moves, the others may lose their pages.                     *)
Obeys(c, d, full1, full2) ==
  /\ \E a \in VAddrs :
       /\ c[a] = d[a] \/ Memory!Moves(c[a], d[a])
       /\ \A b \in VAddrs \ {a} : c[b] = d[b] \/ Memory!LosesPage(c[b], d[b])
  /\ full1 => full2

(* That is a step of UserMemory.                                           *)
LEMMA StepObeys ==
  ASSUME NEW c, NEW d, c = [va \in VAddrs |-> CellIn(vm, disk, flt, va)],
         d = [va \in VAddrs |-> CellIn(vm', disk', flt', va)],
         \/ c = d /\ pf'.free_slots = pf.free_slots
         \/ Obeys(c, d, pf.free_slots = 0, pf'.free_slots = 0)
  PROVE  Memory!MemNext \/ UNCHANGED Memory!memVars
<1>1. [va \in VAddrs |-> CellOf(va)] = c /\ [va \in VAddrs |-> CellOf(va)]' = d
  BY CellsAre
<1>2. CASE c = d /\ pf'.free_slots = pf.free_slots
  BY <1>1, <1>2 DEF Memory!memVars
<1>3. CASE Obeys(c, d, pf.free_slots = 0, pf'.free_slots = 0)
  BY <1>1, <1>3 DEF Memory!MemNext, Obeys
<1> QED
  BY <1>2, <1>3

-----------------------------------------------------------------------------
(* The contents of an address that stays resident, in the page it is in.   *)
Stays(s, t, va) ==
  Resident(s, va) /\ Resident(t, va) =>
    Frame(t, va) = Frame(s, va) /\ t.data[Frame(t, va)] = s.data[Frame(s, va)]

(* Page z is on the standby queue, and backed.                             *)
Stealable(s, d, n, z) ==
  z \in Pages /\ Clean(s, z) =>
    Backed(s, d, n, z) /\ s.page[z].drumslot \in Slots \cup {NoSlot}

(* What becomes of an address other than the one a step is about.          *)
Spared(s, t, x, y, d, full, z, va) ==
  /\ Stays(s, t, va)
  /\ \/ CellIn(t, d, y, va) = CellIn(s, d, x, va)
     \/ /\ z \in Pages /\ Clean(s, z)
        /\ LET c == CellIn(s, d, x, va)
               e == CellIn(t, d, y, va)
           IN  \/ Memory!SwapOut(c, e) \/ Memory!Forget(c, e)
               \/ /\ c.where = "core" /\ c.slot = NoSlot /\ (c.data = 0 \/ full)
                  /\ e = Memory!Cell("drum", 0, NoSlot)

(* The leaf PTE of a resident address.                                     *)
LEMMA ResidentPte ==
  ASSUME NEW s, NEW va
  PROVE  /\ Resident(s, va) <=> PteIn(s, va).kind \in {"Valid", "Trans"}
         /\ Resident(s, va) => Frame(s, va) = PteIn(s, va).page
<1>1. ZeroPte.kind = "Zero"
  BY DEF ZeroPte
<1> QED
  BY <1>1 DEF Resident, Frame, PteIn

(* The PTE through which a page of the process is mapped, at either end.   *)
LEMMA LinkedAt ==
  ASSUME NEW s, NEW x, Sane(s, x), NEW b \in PteAddr, Entry(s, b).kind \in {"Valid", "Trans"}
  PROVE  /\ IsTable(s, b[1]) /\ Entry(s, b).page \in Pages
         /\ s.page[Entry(s, b).page].referent = b
         /\ Low(s, b) => IsAnon(s, Entry(s, b).page)
<1>1. PICK w \in WriterLocals : Owing(s, x, w)
  BY DEF Sane
<1>2. PtesLinked(s, Home(s), NoPage) /\ s \in VmStates
  BY <1>1 DEF Owing, Maps, Linked, Sane
<1>3. Entry(s, b).page \in Pages
  BY <1>2, EntryPart
<1>4. Home(s)[Entry(s, b).page] = b /\ IsTable(s, b[1])
      /\ s.page[Entry(s, b).page].use = Below(s.page[b[1]].use)
  BY <1>2 DEF PtesLinked
<1> QED
  BY <1>3, <1>4 DEF Home, Low, IsAnon, Below

(* The cell of an address in a page that stays.                            *)
LEMMA CoreKept ==
  ASSUME NEW s, NEW t, NEW x, NEW y, Sane(s, x), Sane(t, y), NEW z, NEW A, Turned(s, t, z, A),
         NEW d, NEW va, NEW b \in PteAddr \ A, Low(s, b), Low(t, b),
         PteIn(s, va) = Entry(s, b), PteIn(t, va) = Entry(t, b),
         Entry(s, b).kind \in {"Valid", "Trans"}, Entry(t, b).kind \in {"Valid", "Trans"},
         Entry(t, b).page = Entry(s, b).page
  PROVE  CellIn(t, d, y, va) = CellIn(s, d, x, va) /\ Stays(s, t, va)
<1> DEFINE q == Entry(s, b).page
<1>1. q \in Pages /\ t.page[q].referent = b /\ IsAnon(t, q)
  BY LinkedAt
<1>2. q # z
  BY <1>1 DEF Turned, Reshaped
<1>3. t.page[q].drumslot = s.page[q].drumslot /\ t.data[q] = s.data[q]
  BY <1>1, <1>2 DEF Turned, SamePages
<1>4. CellIn(t, d, y, va) = CellIn(s, d, x, va)
  BY <1>3 DEF CellIn
<1> QED
  BY <1>3, <1>4, ResidentPte DEF Stays

(* The cell of an address whose page is being read in.                     *)
LEMMA ReadingKept ==
  ASSUME NEW s, NEW t, NEW x, NEW y, Sane(s, x), Sane(t, y), SameTree(s, t),
         NEW A, Reads(x, y, A), NEW d, NEW va, NEW b \in PteAddr \ A, Addr(Home(s), b) = va,
         PteIn(s, va) = Entry(s, b), PteIn(t, va) = Entry(t, b),
         Entry(s, b).kind = "Busy", Entry(t, b).kind = "Busy"
  PROVE  CellIn(t, d, y, va) = CellIn(s, d, x, va) /\ Stays(s, t, va)
<1>1. s \in VmStates /\ t \in VmStates
  BY DEF Sane
<1>2. Low(s, b) /\ Low(t, b)
  BY BusyAt DEF Low
<1>3. Addr(Home(t), b) = va
  BY <1>1, <1>2, AddrStays
<1>4. PICK g \in Faulters : x[g].page \in Pages /\ x[g].pte = b
  BY BusyAt
<1>5. y[g].page \in Pages /\ y[g].pte = b /\ y[g].slot = x[g].slot
  BY <1>4 DEF Reads
<1>6. ReaderSlot(x, va) = x[g].slot
  BY <1>4, BusyAt
<1>7. ReaderSlot(y, va) = y[g].slot
  BY <1>3, <1>5, BusyAt
<1>8. CellIn(t, d, y, va) = CellIn(s, d, x, va)
  BY <1>5, <1>6, <1>7 DEF CellIn
<1> QED
  BY <1>8, ResidentPte DEF Stays

(* The cell of an address whose page is stolen.                            *)
LEMMA StolenCell ==
  ASSUME NEW s, NEW t, NEW x, NEW y, NEW d, NEW n \in Nat, NEW z, NEW va, NEW b,
         PteIn(s, va) = Entry(s, b), PteIn(t, va) = Entry(t, b), Stolen(s, t, z, b),
         Stealable(s, d, n, z)
  PROVE  Spared(s, t, x, y, d, n = 0, z, va)
<1> DEFINE slot == s.page[z].drumslot
           c    == CellIn(s, d, x, va)
           e    == CellIn(t, d, y, va)
<1>1. /\ z \in Pages /\ Clean(s, z) /\ slot \in Slots \cup {NoSlot} /\ Backed(s, d, n, z)
      /\ Entry(s, b).kind = "Trans" /\ Entry(s, b).page = z /\ Entry(t, b) = SwapPte(slot)
  BY DEF Stolen, Stealable
<1>2. c = [where |-> "core", data |-> s.data[z], slot |-> slot]
  BY <1>1 DEF CellIn
<1>3. Entry(t, b).kind \in {"Zero", "Swap"}
  BY <1>1 DEF SwapPte, ZeroPte
<1>4. Stays(s, t, va)
  BY <1>3, ResidentPte DEF Stays
<1>5. CASE slot = 0
  <2>1. e = [where |-> "nowhere", data |-> 0, slot |-> NoSlot]
    BY <1>1, <1>5 DEF CellIn, SwapPte, ZeroPte
  <2>2. Memory!Forget(c, e)
    BY <1>2, <1>5, <2>1 DEF Memory!Forget, Memory!Nowhere, Memory!Cell, Memory!NoDrumSlot, NoSlot
  <2> QED
    BY <1>1, <1>4, <2>2 DEF Spared
<1>6. CASE slot # 0
  <2>1. Entry(t, b).kind = "Swap" /\ Entry(t, b).slot = slot
    BY <1>1, <1>6 DEF SwapPte, ZeroPte
  <2>2. e = [where |-> "drum", data |-> DiskIn(d, slot), slot |-> slot]
    BY <2>1 DEF CellIn
  <2>3. CASE slot \in Slots
    <3>1. DiskIn(d, slot) = s.data[z]
      BY <1>1, <2>3 DEF Backed, DiskIn
    <3>2. e = [c EXCEPT !.where = "drum"] /\ c.where = "core" /\ c.slot \in Slots \ {0}
      BY <1>2, <1>6, <2>2, <2>3, <3>1
    <3>3. Memory!SwapOut(c, e)
      BY <3>2 DEF Memory!SwapOut
    <3> QED
      BY <1>1, <1>4, <3>3 DEF Spared
  <2>4. CASE slot \notin Slots
    <3>1. slot = NoSlot /\ DiskIn(d, slot) = 0
      BY <1>1, <2>4 DEF DiskIn
    <3>2. s.data[z] = 0 \/ n = 0
      BY <1>1, <2>4 DEF Backed
    <3>3. e = Memory!Cell("drum", 0, NoSlot)
      BY <2>2, <3>1 DEF Memory!Cell
    <3> HIDE DEF e
    <3>4. c.where = "core" /\ c.slot = NoSlot /\ (c.data = 0 \/ n = 0)
      BY <1>2, <3>1, <3>2
    <3> QED
      BY <1>1, <1>4, <3>3, <3>4 DEF Spared, e
  <2> QED
    BY <2>3, <2>4
<1> QED
  BY <1>5, <1>6

(* No step changes another address but by stealing its page.               *)
LEMMA CellKept ==
  ASSUME NEW s, NEW t, NEW x, NEW y, Sane(s, x), Sane(t, y), NEW z, NEW A, Turned(s, t, z, A),
         Reads(x, y, A), NEW d, NEW n \in Nat, Stealable(s, d, n, z),
         NEW va \in VAddr, Elsewhere(s, A, va)
  PROVE  Spared(s, t, x, y, d, n = 0, z, va)
<1>1. s \in VmStates /\ t \in VmStates /\ SameTree(s, t)
  BY TurnedTree DEF Sane, Turned
<1>2. CASE PteIn(s, va).kind = "Zero" /\ PteIn(t, va).kind = "Zero"
  <2>1. CellIn(t, d, y, va) = CellIn(s, d, x, va)
    BY <1>2 DEF CellIn
  <2>2. Stays(s, t, va)
    BY <1>2, ResidentPte DEF Stays
  <2> QED
    BY <2>1, <2>2 DEF Spared
<1>3. ASSUME NEW b \in PteAddr \ A, Low(s, b), Low(t, b), Addr(Home(s), b) = va,
             Alters(s, t, z, b), PteIn(s, va) = Entry(s, b), PteIn(t, va) = Entry(t, b)
      PROVE  Spared(s, t, x, y, d, n = 0, z, va)
  <2>1. CASE Stolen(s, t, z, b)
    BY <1>3, <2>1, StolenCell
  <2>2. CASE Entry(s, b).kind = "Valid" /\ Entry(t, b) = TransPte(Entry(s, b).page)
    <3>1. Entry(t, b).kind = "Trans" /\ Entry(t, b).page = Entry(s, b).page
      BY <2>2 DEF TransPte, ZeroPte
    <3>2. CellIn(t, d, y, va) = CellIn(s, d, x, va) /\ Stays(s, t, va)
      BY <1>3, <2>2, <3>1, CoreKept
    <3> QED
      BY <3>2 DEF Spared
  <2>3. CASE Entry(t, b) = Entry(s, b)
    <3>1. Entry(s, b).kind \in PteKind
      BY <1>1, EntryPart
    <3>2. CASE Entry(s, b).kind \in {"Valid", "Trans"}
      <4>1. CellIn(t, d, y, va) = CellIn(s, d, x, va) /\ Stays(s, t, va)
        BY <1>3, <2>3, <3>2, CoreKept
      <4> QED
        BY <4>1 DEF Spared
    <3>3. CASE Entry(s, b).kind = "Busy"
      <4>1. CellIn(t, d, y, va) = CellIn(s, d, x, va) /\ Stays(s, t, va)
        BY <1>1, <1>3, <2>3, <3>3, ReadingKept
      <4> QED
        BY <4>1 DEF Spared
    <3>4. CASE Entry(s, b).kind \in {"Zero", "Swap"}
      <4>1. CellIn(t, d, y, va) = CellIn(s, d, x, va)
        BY <1>3, <2>3, <3>4 DEF CellIn
      <4>2. Stays(s, t, va)
        BY <1>3, <3>4, ResidentPte DEF Stays
      <4> QED
        BY <4>1, <4>2 DEF Spared
    <3> QED
      BY <3>1, <3>2, <3>3, <3>4 DEF PteKind
  <2> QED
    BY <1>3, <2>1, <2>2, <2>3 DEF Alters
<1>4. Reshaped(s, t, z, A)
  BY DEF Turned
<1> QED
  BY <1>1, <1>2, <1>3, <1>4, PteTurns

-----------------------------------------------------------------------------
(* ResidentKeepsData of one address.                                       *)
Remains(va) ==
  (Resident(vm, va) /\ Resident(vm', va)) =>
    /\ Frame(vm', va) = Frame(vm, va)
    /\ vm'.data[Frame(vm', va)] # vm.data[Frame(vm, va)] =>
         \E f \in Faulters : pc[f] = "translate" /\ flt[f].va = va /\ flt[f].write

(* What is to be shown of every step.                                      *)
MemStep ==
  /\ Memory!MemNext \/ UNCHANGED Memory!memVars
  /\ \A va \in VAddrs : Remains(va)

(* The cells of all addresses.                                             *)
CellsNow  == [va \in VAddrs |-> CellIn(vm, disk, flt, va)]
CellsNext == [va \in VAddrs |-> CellIn(vm', disk', flt', va)]

(* A page that is being read in is as it was when it was allocated: it has *)
(* no slot, so nothing is read, and the slot of the PTE is nobody's.       *)
ReadFresh(s, r, B) ==
  r.page \in Pages =>
    /\ s.data[r.page] = 0 /\ s.page[r.page].drumslot = NoSlot
    /\ r.slot \in B \cup {NoSlot}
    /\ \A p \in Pages : PageSlot(s, p) = r.slot => r.slot = NoSlot

ReadsFresh(s, x, B) == \A g \in Faulters : ReadFresh(s, x[g], B)

(* A page belongs to the process because an address was accessed.          *)
Peopled(s) == (\E p \in Pages : IsAnon(s, p)) => VAddrs # {}

MemInv ==
  /\ WslInv /\ SlotCountExact /\ Owned(vm, pf.bitmap) /\ CleanBacked
  /\ ReadsFresh(vm, flt, pf.bitmap) /\ Peopled(vm)

(* An address that stays satisfies the property.                           *)
LEMMA StaysRemains ==
  ASSUME NEW va, Stays(vm, vm', va)
  PROVE  Remains(va)
BY DEF Stays, Remains

(* A step in which nothing happens to the memory.                          *)
LEMMA StillStep ==
  ASSUME CellsNext = CellsNow, pf'.free_slots = pf.free_slots,
         \A va \in VAddrs : Stays(vm, vm', va)
  PROVE  MemStep
<1>1. \A va \in VAddrs : Remains(va)
  BY StaysRemains
<1>2. Memory!MemNext \/ UNCHANGED Memory!memVars
  BY StepObeys DEF CellsNow, CellsNext
<1> QED
  BY <1>1, <1>2 DEF MemStep

(* An address that is spared is the same, or loses its page.               *)
LEMMA SparedLoses ==
  ASSUME NEW z, NEW va, Spared(vm, vm', flt, flt', disk, pf.free_slots = 0, z, va)
  PROVE  \/ CellIn(vm', disk, flt', va) = CellIn(vm, disk, flt, va)
         \/ Memory!LosesPage(CellIn(vm, disk, flt, va), CellIn(vm', disk, flt', va))
<1>1. NoSlot = Memory!NoDrumSlot
  BY DEF NoSlot, Memory!NoDrumSlot
<1> QED
  BY <1>1 DEF Spared, Memory!LosesPage, Memory!DropUnsaved

(* A step of one address.                                                  *)
LEMMA OneMoves ==
  ASSUME NEW w \in VAddrs, NEW z, disk' = disk, pf.free_slots = 0 => pf'.free_slots = 0,
         \A va \in VAddrs \ {w} : Spared(vm, vm', flt, flt', disk, pf.free_slots = 0, z, va),
         Remains(w),
         \/ CellIn(vm', disk, flt', w) = CellIn(vm, disk, flt, w)
         \/ Memory!Moves(CellIn(vm, disk, flt, w), CellIn(vm', disk, flt', w))
  PROVE  MemStep
<1> DEFINE c == CellsNow
           e == CellsNext
<1>1. \A va \in VAddrs : /\ c[va] = CellIn(vm, disk, flt, va)
                         /\ e[va] = CellIn(vm', disk, flt', va)
  BY DEF CellsNow, CellsNext
<1>2. c[w] = e[w] \/ Memory!Moves(c[w], e[w])
  BY <1>1
<1>3. \A b \in VAddrs \ {w} : c[b] = e[b] \/ Memory!LosesPage(c[b], e[b])
  BY <1>1, SparedLoses
<1>4. Obeys(c, e, pf.free_slots = 0, pf'.free_slots = 0)
  BY <1>2, <1>3 DEF Obeys
<1>5. Memory!MemNext \/ UNCHANGED Memory!memVars
  BY <1>4, StepObeys DEF CellsNow, CellsNext
<1>6. \A va \in VAddrs : Remains(va)
  BY StaysRemains DEF Spared
<1> QED
  BY <1>5, <1>6 DEF MemStep

(* The invariants of the tables suffice.                                   *)
LEMMA SaneFrom ==
  ASSUME NEW s \in VmStates, NEW x \in [Faulters -> FaultLocals], NEW w \in WriterLocals,
         Owing(s, x, w), NEW c, Listed(s, c, x), s.panic = NoPanic
  PROVE  Sane(s, x)
<1>1. Maps(s, Home(s), NoPage, BusyOf(x), WiredOf(x), WiredOf(x), HeldOf(w))
  BY DEF Owing
<1>2. Home(s) \in [Pages -> PteAddr]
  BY DEF Home, VmStates, PageDb, PageRec
<1>3. \A a \in PteAddr : a[1] # NoPage
  BY AddrParts DEF NoPage, Pages
<1>4. Forest(s, Home(s), NoPage)
  BY <1>1, <1>2, <1>3, MapsForest
<1>5. \A f \in Faulters : x[f].page \in Pages => Addr(Home(s), x[f].pte) = x[f].va
  BY DEF Listed, Walks
<1> QED
  BY <1>4, <1>5 DEF Sane

(* They hold now, ...                                                      *)
LEMMA SaneNow ==
  ASSUME WslInv, vm.panic = NoPanic
  PROVE  Sane(vm, flt)
<1>1. /\ vm \in VmStates /\ flt \in [Faulters -> FaultLocals] /\ wr \in WriterLocals
      /\ Owing(vm, flt, wr) /\ Listed(vm, pc, flt)
  BY DEF WslInv, MapInv, TypeInv, TypeOK
<1> QED
  BY <1>1, SaneFrom

(* ... and after a step that keeps them.                                   *)
LEMMA SaneNext ==
  ASSUME WslInv', vm'.panic = NoPanic
  PROVE  Sane(vm', flt')
<1>1. /\ vm' \in VmStates /\ flt' \in [Faulters -> FaultLocals] /\ wr' \in WriterLocals
      /\ Owing(vm', flt', wr') /\ Listed(vm', pc', flt')
  BY DEF WslInv, MapInv, TypeInv, TypeOK
<1> QED
  BY <1>1, SaneFrom

(* The number of free slots does not go below zero.                        *)
LEMMA SlotsLeft ==
  ASSUME pf \in PagefileStates, SlotCountExact
  PROVE  pf.free_slots \in Nat
<1>1. pf.bitmap \subseteq Slots
  BY DEF PagefileStates
<1>2. NSlots - 1 \in Int /\ NSlots \in Nat \ {0}
  BY PagefileAssumption
<1>3. IsFiniteSet(Slots) /\ Cardinality(Slots) = NSlots
  BY <1>2, FS_Interval, 0 \in Int DEF Slots
<1>4. Cardinality(pf.bitmap) \in Nat /\ Cardinality(pf.bitmap) <= NSlots
  BY <1>1, <1>3, FS_Subset, FS_CardinalityType
<1> QED
  BY <1>2, <1>4 DEF SlotCountExact

(* Standby pages are backed when they are stolen.                          *)
LEMMA BackedSteals ==
  ASSUME MemInv, NEW z, z \in Pages => z # wr.page \/ ~Clean(vm, z)
  PROVE  /\ Stealable(vm, disk, pf.free_slots, z)
         /\ pf.free_slots \in Nat /\ pf.bitmap \subseteq Slots
<1>1. pf \in PagefileStates
  BY DEF MemInv, WslInv, MapInv, TypeInv, TypeOK
<1>2. pf.bitmap \subseteq Slots
  BY <1>1 DEF PagefileStates
<1>3. pf.free_slots \in Nat
  BY <1>1, SlotsLeft DEF MemInv
<1>4. z \in Pages => vm.page[z].drumslot \in Slots \cup {NoSlot}
  BY <1>2 DEF MemInv, Owned, PageSlot
<1>5. z \in Pages /\ Clean(vm, z) => Backed(vm, disk, pf.free_slots, z)
  BY DEF MemInv, CleanBacked, AllBacked
<1> QED
  BY <1>2, <1>3, <1>4, <1>5 DEF Stealable

(* CellKept of a step.                                                     *)
LEMMA StepSpares ==
  ASSUME MemInv, WslInv', vm.panic = NoPanic, vm'.panic = NoPanic,
         NEW z, z \in Pages => z # wr.page \/ ~Clean(vm, z),
         NEW A, Turned(vm, vm', z, A), Reads(flt, flt', A),
         NEW va \in VAddrs, Elsewhere(vm, A, va)
  PROVE  Spared(vm, vm', flt, flt', disk, pf.free_slots = 0, z, va)
<1>1. Sane(vm, flt)
  BY SaneNow DEF MemInv
<1>2. Sane(vm', flt')
  BY SaneNext
<1>3. va \in VAddr
  BY VmmAssumption
<1> QED
  BY <1>1, <1>2, <1>3, BackedSteals, CellKept

-----------------------------------------------------------------------------
(* What is to be shown of every step, and of the state it leaves.          *)
Obeyed == MemStep /\ ReadsFresh(vm', flt', pf'.bitmap) /\ Peopled(vm')

(* The reads of the threads are the same.                                  *)
SameReaders(x, y) ==
  \A g \in Faulters :
    /\ y[g].page = x[g].page
    /\ x[g].page # NoPage => y[g].va = x[g].va /\ y[g].pte = x[g].pte /\ y[g].slot = x[g].slot

(* Each address has the same reader.                                       *)
LEMMA SameReaderSlot ==
  ASSUME NEW x, NEW y, SameReaders(x, y), NEW g \in Faulters, NEW va,
         x[g].page # NoPage, x[g].va = va
  PROVE  ReaderSlot(y, va) = ReaderSlot(x, va)
<1> DEFINE h == CHOOSE f \in Faulters : x[f].page # NoPage /\ x[f].va = va
<1>1. h \in Faulters /\ x[h].page # NoPage
  OBVIOUS
<1>2. \A f \in Faulters : x[f].page # NoPage /\ x[f].va = va <=> y[f].page # NoPage /\ y[f].va = va
  BY DEF SameReaders
<1>3. (CHOOSE f \in Faulters : y[f].page # NoPage /\ y[f].va = va) = h
  BY <1>2
<1>4. y[h].slot = x[h].slot
  BY <1>1 DEF SameReaders
<1> QED
  BY <1>3, <1>4 DEF ReaderSlot

(* A state with the same tables and pages has the same cells.              *)
LEMMA SameCells ==
  ASSUME NEW s, NEW x, Sane(s, x), NEW t, NEW y, t.table = s.table, t.page = s.page,
         t.data = s.data, SameReaders(x, y), NEW d, NEW va \in VAddr
  PROVE  CellIn(t, d, y, va) = CellIn(s, d, x, va) /\ Stays(s, t, va)
<1>1. FetchPte(t, va) = FetchPte(s, va)
  BY DEF FetchPte, Walk
<1>2. PteIn(t, va) = PteIn(s, va)
  BY <1>1 DEF PteIn
<1>3. Stays(s, t, va)
  BY <1>1 DEF Stays, Resident, Frame
<1>4. ASSUME PteIn(s, va).kind = "Busy" PROVE ReaderSlot(y, va) = ReaderSlot(x, va)
  <2> DEFINE b == << FetchPte(s, va), va[1] >>
  <2>1. FetchPte(s, va) \in Pages /\ PteIn(s, va) = Entry(s, b)
    BY <1>4 DEF PteIn, ZeroPte, Entry
  <2>2. b \in PteAddr /\ Addr(Home(s), b) = va /\ s \in VmStates
    BY <2>1, WalkAddr DEF Sane
  <2> HIDE DEF b
  <2>3. PICK g \in Faulters : x[g].page \in Pages /\ x[g].pte = b
    BY <1>4, <2>1, <2>2, BusyAt
  <2>4. x[g].page # NoPage /\ x[g].va = va
    BY <2>2, <2>3 DEF Sane, NoPage, Pages
  <2> QED
    BY <2>4, SameReaderSlot
<1>5. CellIn(t, d, y, va) = CellIn(s, d, x, va)
  <2> DEFINE pte == PteIn(s, va)
             r == ReaderSlot(x, va)
             k == ReaderSlot(y, va)
  <2>1. PteIn(t, va) = pte /\ (pte.kind = "Busy" => k = r)
    BY <1>2, <1>4
  <2> HIDE DEF pte, r, k
  <2> QED
    BY <2>1 DEF CellIn, pte, r, k
<1> QED
  BY <1>3, <1>5

(* A step that leaves the memory alone.                                    *)
LEMMA QuietStep ==
  ASSUME MemInv, vm.panic = NoPanic, vm'.table = vm.table, vm'.page = vm.page,
         vm'.data = vm.data, SameReaders(flt, flt'), disk' = disk, pf' = pf
  PROVE  Obeyed
<1>1. Sane(vm, flt) /\ VAddrs \subseteq VAddr
  BY SaneNow, VmmAssumption DEF MemInv
<1>2. \A va \in VAddrs :
        CellIn(vm', disk, flt', va) = CellIn(vm, disk, flt, va) /\ Stays(vm, vm', va)
  BY <1>1, SameCells
<1>3. MemStep
  BY <1>2, StillStep DEF CellsNow, CellsNext
<1>4. ReadsFresh(vm', flt', pf'.bitmap)
  BY DEF MemInv, ReadsFresh, ReadFresh, SameReaders, PageSlot, NoPage, Pages
<1>5. Peopled(vm')
  BY DEF MemInv, Peopled, IsAnon
<1> QED
  BY <1>3, <1>4, <1>5 DEF Obeyed

(* A page that is being read in is left alone.                             *)
LEMMA ReadStaysFresh ==
  ASSUME NEW s, NEW t, NEW y, NEW B, NEW C, B \subseteq C,
         Sane(t, y), NEW z, NEW A, Reshaped(s, t, z, A), SamePages(s, t, z),
         \A p \in Pages : t.page[p].drumslot \in {s.page[p].drumslot, NoSlot},
         NEW g \in Faulters, NEW r, ReadFresh(s, r, B),
         y[g].page \in Pages => y[g].page = r.page /\ y[g].slot = r.slot /\ y[g].pte \notin A
  PROVE  ReadFresh(t, y[g], C)
<1> SUFFICES ASSUME y[g].page \in Pages
             PROVE  /\ t.data[y[g].page] = 0 /\ t.page[y[g].page].drumslot = NoSlot
                    /\ y[g].slot \in C \cup {NoSlot}
                    /\ \A p \in Pages : PageSlot(t, p) = y[g].slot => y[g].slot = NoSlot
  BY DEF ReadFresh
<1> DEFINE q == y[g].page
<1>1. PICK w \in WriterLocals : Owing(t, y, w)
  BY DEF Sane
<1>2. IsAnon(t, q) /\ t.page[q].referent = y[g].pte
  BY <1>1, ReadRefd DEF Sane
<1>3. q # z
  BY <1>2 DEF Reshaped
<1>4. t.data[q] = s.data[q] /\ t.page[q].drumslot = s.page[q].drumslot
  BY <1>3 DEF SamePages
<1>5. q = r.page /\ y[g].slot = r.slot
  OBVIOUS
<1>6. /\ s.data[q] = 0 /\ s.page[q].drumslot = NoSlot /\ r.slot \in B \cup {NoSlot}
      /\ \A p \in Pages : PageSlot(s, p) = r.slot => r.slot = NoSlot
  BY <1>5 DEF ReadFresh
<1>7. ASSUME NEW p \in Pages, PageSlot(t, p) = y[g].slot PROVE y[g].slot = NoSlot
  BY <1>5, <1>6, <1>7 DEF PageSlot
<1> QED
  BY <1>4, <1>5, <1>6, <1>7

(* The pages that are being read in are left alone.                        *)
LEMMA ReadsStayFresh ==
  ASSUME NEW s, NEW t, NEW x, NEW y, NEW B, ReadsFresh(s, x, B), NEW C, B \subseteq C,
         Sane(t, y), NEW z, NEW A, Reshaped(s, t, z, A), SamePages(s, t, z),
         \A p \in Pages : t.page[p].drumslot \in {s.page[p].drumslot, NoSlot},
         \A g \in Faulters :
           y[g].page \in Pages =>
             y[g].page = x[g].page /\ y[g].slot = x[g].slot /\ y[g].pte \notin A
  PROVE  ReadsFresh(t, y, C)
<1>1. \A g \in Faulters : ReadFresh(s, x[g], B)
  BY DEF ReadsFresh
<1> SUFFICES ASSUME NEW g \in Faulters PROVE ReadFresh(t, y[g], C)
  BY DEF ReadsFresh
<1> QED
  BY <1>1, ReadStaysFresh

(* No page becomes one of the process.                                     *)
LEMMA StayPeopled ==
  ASSUME NEW s, NEW t, Peopled(s), \A q \in Pages : IsAnon(t, q) => IsAnon(s, q) \/ VAddrs # {}
  PROVE  Peopled(t)
BY DEF Peopled

(* A failed assertion leaves the memory alone.                             *)
LEMMA PanicStep ==
  ASSUME MemInv, vm.panic = NoPanic, NEW s, NEW y, NEW v, NEW pf1, Commit(s, y, v, pf1),
         s.panic # NoPanic, disk' = disk
  PROVE  Obeyed
<1>1. vm' = [vm EXCEPT !.panic = s.panic] /\ flt' = flt /\ pf' = pf
  BY DEF Commit
<1>2. vm \in VmStates
  BY DEF MemInv, WslInv, MapInv, TypeInv, TypeOK
<1>3. vm'.table = vm.table /\ vm'.page = vm.page /\ vm'.data = vm.data
  BY <1>1, <1>2 DEF VmStates
<1>4. SameReaders(flt, flt')
  BY <1>1 DEF SameReaders
<1> QED
  BY <1>1, <1>3, <1>4, QuietStep

(* Readers' PTEs are leaf PTEs.                                            *)
LEMMA ReaderPte ==
  ASSUME NEW s, NEW x, Sane(s, x), NEW g \in Faulters, x[g].page \in Pages
  PROVE  /\ x[g].pte \in PteAddr /\ Low(s, x[g].pte) /\ Entry(s, x[g].pte).kind = "Busy"
         /\ IsAnon(s, x[g].page) /\ s.page[x[g].page].referent = x[g].pte
<1>1. PICK w \in WriterLocals : Owing(s, x, w)
  BY DEF Sane
<1> QED
  BY <1>1, ReadRefd DEF Sane, Low

(* No leaf PTE is written, and no thread begins or ends a read.            *)
UpperStep(s, t, z, A) ==
  /\ Turned(s, t, z, A)
  /\ \A a \in A : a \in PteAddr /\ ~Low(s, a) /\ Entry(t, a).kind # "Busy"
  /\ \A p \in Pages : t.page[p].drumslot \in {s.page[p].drumslot, NoSlot}

(* A step that writes no leaf PTE.  If it steals a page the thread that    *)
(* needs it accesses an address that is nowhere.                           *)
LEMMA SteadyStep ==
  ASSUME MemInv, WslInv', vm.panic = NoPanic, NEW s, NEW y, NEW v, Commit(s, y, v, pf),
         disk' = disk, SameReaders(flt, y), NEW z, NEW A,
         s.panic = NoPanic =>
           /\ UpperStep(vm, s, z, A)
           /\ z \in Pages /\ Clean(vm, z) =>
                z # wr.page /\ \E w \in VAddrs : PteIn(vm, w).kind = "Zero"
           /\ \A q \in Pages : IsAnon(s, q) => IsAnon(vm, q) \/ VAddrs # {}
  PROVE  Obeyed
<1>1. CASE s.panic # NoPanic
  BY <1>1, PanicStep
<1>2. CASE s.panic = NoPanic
  <2>1. vm' = s /\ flt' = y /\ pf' = pf
    BY <1>2 DEF Commit
  <2>2. /\ UpperStep(vm, vm', z, A) /\ vm'.panic = NoPanic
        /\ z \in Pages => z # wr.page \/ ~Clean(vm, z)
    BY <1>2, <2>1
  <2>3. Sane(vm, flt) /\ Sane(vm', flt')
    BY <2>2, SaneNow, SaneNext DEF MemInv
  <2>4. \A va \in VAddrs : Elsewhere(vm, A, va)
    BY <2>2 DEF UpperStep, Elsewhere
  <2>5. \A g \in Faulters : flt[g].page \in Pages => flt[g].pte \notin A
    BY <2>2, <2>3, ReaderPte DEF UpperStep
  <2>6. \A g \in Faulters :
          flt'[g].page \in Pages =>
            /\ flt'[g].page = flt[g].page /\ flt'[g].pte = flt[g].pte
            /\ flt'[g].slot = flt[g].slot
    BY <2>1 DEF SameReaders, NoPage, Pages
  <2>7. Reads(flt, flt', A)
    BY <2>1, <2>6 DEF Reads, SameReaders, NoPage, Pages
  <2>8. Turned(vm, vm', z, A)
    BY <2>2 DEF UpperStep
  <2>9. \A va \in VAddrs : Spared(vm, vm', flt, flt', disk, pf.free_slots = 0, z, va)
    BY <2>2, <2>4, <2>7, <2>8, StepSpares
  <2>10. ReadsFresh(vm', flt', pf'.bitmap)
    <3>1. pf.bitmap \subseteq pf'.bitmap
      BY <2>1
    <3>2. \A g \in Faulters :
            flt'[g].page \in Pages =>
              flt'[g].page = flt[g].page /\ flt'[g].slot = flt[g].slot /\ flt'[g].pte \notin A
      BY <2>5, <2>6
    <3> QED
      BY <2>2, <2>3, <2>8, <3>1, <3>2, ReadsStayFresh DEF MemInv, UpperStep, Turned
  <2>11. Peopled(vm')
    BY <1>2, <2>1, StayPeopled DEF MemInv
  <2>12. MemStep
    <3>1. CASE z \in Pages /\ Clean(vm, z)
      <4>1. PICK w \in VAddrs : PteIn(vm, w).kind = "Zero"
        BY <1>2, <3>1
      <4>2. CellIn(vm, disk, flt, w).where = "nowhere"
        BY <4>1 DEF CellIn
      <4>3. CellIn(vm', disk, flt', w) = CellIn(vm, disk, flt, w)
        BY <2>9, <4>2 DEF Spared, Memory!SwapOut, Memory!Forget
      <4>4. Remains(w)
        BY <2>9, StaysRemains DEF Spared
      <4> QED
        BY <2>1, <2>9, <4>3, <4>4, OneMoves
    <3>2. CASE ~(z \in Pages /\ Clean(vm, z))
      <4>1. \A va \in VAddrs :
              CellIn(vm', disk, flt', va) = CellIn(vm, disk, flt, va) /\ Stays(vm, vm', va)
        BY <2>9, <3>2 DEF Spared
      <4> QED
        BY <2>1, <4>1, StillStep DEF CellsNow, CellsNext
    <3> QED
      BY <3>1, <3>2
  <2> QED
    BY <2>10, <2>11, <2>12 DEF Obeyed
<1> QED
  BY <1>1, <1>2

(* The leaf PTE a step is about is that of its address, before and after.  *)
LEMMA OwnPte ==
  ASSUME NEW s, NEW t, NEW x, NEW y, Sane(s, x), Sane(t, y), NEW z, NEW A, Turned(s, t, z, A),
         NEW a \in PteAddr, Low(s, a), NEW va \in VAddr, Addr(Home(s), a) = va,
         Entry(t, a).kind \in {"Valid", "Trans", "Busy"}
  PROVE  PteIn(s, va) = Entry(s, a) /\ PteIn(t, va) = Entry(t, a) /\ Low(t, a)
<1>1. s \in VmStates /\ t \in VmStates /\ SameTree(s, t)
  BY TurnedTree DEF Sane, Turned
<1>2. a[1] \in Pages /\ a[1] # NoPage /\ a[2] = va[1] /\ IsTable(s, a[1])
  <2>1. a[1] \in Pages /\ a[1] # NoPage
    BY AddrParts DEF NoPage, Pages
  <2>2. 1 \in 1 .. Levels
    BY VmAssumption
  <2>3. va[1] = a[2]
    BY <2>2 DEF Addr
  <2> QED
    BY <2>1, <2>3 DEF Low, IsTable, TableUses
<1>3. Low(t, a)
  <2>1. IsTable(t, a[1])
    BY LinkedAt, BusyAt DEF IsTable, TableUses
  <2>2. a[1] # z
    BY <1>2, <2>1 DEF Turned, Reshaped, Blank
  <2> QED
    BY <1>2, <2>2 DEF Turned, Reshaped, Low
<1>4. Addr(Home(t), a) = va
  BY <1>1, <1>3, AddrStays
<1>5. FetchPte(s, va) = a[1] /\ FetchPte(t, va) = a[1]
  BY <1>1, <1>2, <1>3, <1>4, AddrWalk DEF SameTree, Low
<1> QED
  BY <1>2, <1>3, <1>5 DEF PteIn, Entry

(* What is the same for every step that writes the leaf PTE a of address   *)
(* w: the other addresses are spared.                                      *)
LEMMA LeafStep ==
  ASSUME MemInv, WslInv', vm.panic = NoPanic, vm'.panic = NoPanic, disk' = disk,
         pf.free_slots = 0 => pf'.free_slots = 0,
         NEW z, z \in Pages => z # wr.page \/ ~Clean(vm, z),
         NEW a \in PteAddr, NEW w \in VAddrs, Addr(Home(vm), a) = w,
         Turned(vm, vm', z, {a}), Reads(flt, flt', {a}), Remains(w),
         \/ CellIn(vm', disk, flt', w) = CellIn(vm, disk, flt, w)
         \/ Memory!Moves(CellIn(vm, disk, flt, w), CellIn(vm', disk, flt', w))
  PROVE  MemStep
<1>1. \A va \in VAddrs \ {w} : Elsewhere(vm, {a}, va)
  BY DEF Elsewhere
<1>2. \A va \in VAddrs \ {w} : Spared(vm, vm', flt, flt', disk, pf.free_slots = 0, z, va)
  BY <1>1, StepSpares
<1> QED
  BY <1>2, OneMoves

(* The reads go on when the PTE that is written is not busy before or      *)
(* after.                                                                  *)
LEMMA ReadsGoOn ==
  ASSUME NEW s, NEW t, NEW x, NEW y, Sane(s, x), Sane(t, y), SameReaders(x, y), NEW a,
         Entry(t, a).kind # "Busy",
         NEW z, Turned(s, t, z, {a}), NEW B, NEW C, B \subseteq C, ReadsFresh(s, x, B),
         \A p \in Pages : t.page[p].drumslot \in {s.page[p].drumslot, NoSlot}
  PROVE  Reads(x, y, {a}) /\ ReadsFresh(t, y, C)
<1>1. \A g \in Faulters : y[g].page \in Pages => y[g].pte # a
  BY ReaderPte
<1>2. \A g \in Faulters :
        y[g].page \in Pages =>
          y[g].page = x[g].page /\ y[g].slot = x[g].slot /\ y[g].pte \notin {a}
  BY <1>1 DEF SameReaders, NoPage, Pages
<1>3. ReadsFresh(t, y, C)
  BY <1>2, ReadsStayFresh DEF Turned
<1>4. Reads(x, y, {a})
  BY DEF Reads, SameReaders, NoPage, Pages
<1> QED
  BY <1>3, <1>4

-----------------------------------------------------------------------------
(* The steps that read nothing in and change no PTE.                       *)
LEMMA PassMem ==
  ASSUME MemInv, NEW f \in Faulters,
         \/ AccessHit(f) \/ AccessFault(f) \/ LockVad(f) \/ LockWs(f) \/ Awake(f)
         \/ SendRead(f) \/ RelockVad(f) \/ RelockWs(f)
         \/ \E va \in VAddrs, write \in Writes : Pick(f, va, write)
  PROVE  Obeyed
<1>1. vm.panic = NoPanic /\ disk' = disk /\ pf' = pf
  BY Zenon DEF AccessHit, AccessFault, LockVad, LockWs, Awake, SendRead, RelockVad, RelockWs,
               Pick, Goto
<1>2. MapInv /\ flt \in [Faulters -> FaultLocals]
  BY DEF MemInv, WslInv, MapInv, TypeInv, TypeOK
<1>3. ASSUME pc[f] \in {"user", "ws"} PROVE flt[f].page = NoPage
  <2>1. LocalMap(pc[f], flt[f])
    BY <1>1, <1>2, MapFacts
  <2> QED
    BY <1>3, <2>1 DEF LocalMap
<1>4. vm' = vm
  <2>1. CASE SendRead(f)
    <3>1. flt[f].page \in Pages
      BY <1>2, <2>1 DEF MapInv, LocalMaps, SendRead, Goto
    <3>2. vm.page[flt[f].page].drumslot = NoSlot
      BY <3>1 DEF MemInv, ReadsFresh, ReadFresh
    <3>3. NoSlot \notin Slots
      BY DEF NoSlot, Slots
    <3> QED
      BY <2>1, <3>2, <3>3 DEF SendRead
  <2>2. CASE ~SendRead(f)
    BY <2>2, Zenon DEF AccessHit, AccessFault, LockVad, LockWs, Awake, RelockVad, RelockWs, Pick
  <2> QED
    BY <2>1, <2>2
<1>5. SameReaders(flt, flt')
  <2>1. CASE flt' = flt
    BY <2>1 DEF SameReaders
  <2>2. CASE LockWs(f)
    <3> DEFINE x == [flt[f] EXCEPT !.level = Levels + 1]
    <3>1. flt' = [flt EXCEPT ![f] = x] /\ flt[f].page = NoPage
      BY <1>3, <2>2 DEF LockWs, Goto
    <3>2. x.page = flt[f].page
      BY <1>2 DEF FaultLocals
    <3> HIDE DEF x
    <3> QED
      BY <1>2, <3>1, <3>2 DEF SameReaders
  <2>3. ASSUME NEW va \in VAddrs, NEW write \in Writes, Pick(f, va, write)
        PROVE  SameReaders(flt, flt')
    <3> DEFINE x == [flt[f] EXCEPT !.va = va, !.write = write]
    <3>1. flt' = [flt EXCEPT ![f] = x] /\ flt[f].page = NoPage
      BY <1>2, <1>3, <2>3, Zenon DEF Pick, Goto
    <3>2. x.page = flt[f].page
      BY <1>2 DEF FaultLocals
    <3> HIDE DEF x
    <3> QED
      BY <1>2, <3>1, <3>2 DEF SameReaders
  <2> QED
    BY <2>1, <2>2, <2>3 DEF AccessHit, AccessFault, LockVad, Awake, SendRead, RelockVad, RelockWs
<1> QED
  BY <1>1, <1>4, <1>5, QuietStep

(* do_fault() that finds the PTE valid or busy, or no page.                *)
LEMMA IdleLeafMem ==
  ASSUME MemInv, NEW f \in Faulters, ValidFault(f) \/ AllocFails(f) \/ BusyFault(f)
  PROVE  Obeyed
<1>1. /\ flt \in [Faulters -> FaultLocals] /\ vm \in VmStates
  BY DEF MemInv, WslInv, MapInv, TypeInv, TypeOK
<1>2. vm.panic = NoPanic
  BY DEF ValidFault, AllocFails, BusyFault, FaultsOn
<1>3. ASSUME NEW s, NEW r, Handled(f, s, Result(f, r)), s.panic = NoPanic,
             s.table = vm.table, s.page = vm.page, s.data = vm.data
      PROVE  Obeyed
  <2> DEFINE x == Result(f, r)
  <2>1. vm' = s /\ flt' = [flt EXCEPT ![f] = x] /\ pf' = pf /\ disk' = disk
    BY <1>3 DEF Handled, CommitFault, Commit
  <2>2. x.page = flt[f].page /\ x.va = flt[f].va /\ x.pte = flt[f].pte /\ x.slot = flt[f].slot
    BY <1>1 DEF Result, FaultLocals
  <2> HIDE DEF x
  <2>3. SameReaders(flt, flt')
    BY <1>1, <2>1, <2>2 DEF SameReaders
  <2> QED
    BY <1>2, <1>3, <2>1, <2>3, QuietStep
<1>4. CASE ValidFault(f)
  BY <1>2, <1>3, <1>4 DEF ValidFault
<1>5. CASE AllocFails(f)
  <2>1. Handled(f, PageAlloc(vm, "AnonPrivate"), Result(f, "again")) /\ ~CanAlloc(vm)
    BY <1>5 DEF AllocFails
  <2>2. PageAlloc(vm, "AnonPrivate") = CheckShortage(vm)
    BY <1>2, <2>1 DEF PageAlloc, Then
  <2>3. /\ CheckShortage(vm).table = vm.table /\ CheckShortage(vm).page = vm.page
        /\ CheckShortage(vm).data = vm.data /\ CheckShortage(vm).panic = vm.panic
    BY <1>1 DEF CheckShortage, VmStates
  <2> QED
    BY <1>2, <1>3, <2>1, <2>2, <2>3
<1>6. CASE BusyFault(f)
  <2>1. Handled(f, Kfatal(vm, "fault.c:170"), Result(f, "ok"))
    BY <1>6 DEF BusyFault
  <2>2. Kfatal(vm, "fault.c:170").panic # NoPanic
    BY <1>1, KfatalPassed DEF NoPanic
  <2> HIDE DEF Kfatal
  <2> QED
    BY <1>2, <2>1, <2>2, PanicStep DEF Handled, CommitFault
<1> QED
  BY <1>4, <1>5, <1>6

(* The steps of the page writer and the balancer that touch no page.       *)
LEMMA IdleDaemonMem ==
  ASSUME MemInv, WriterIdle \/ BalancerWake \/ BalancerUnlock \/ BalancerCheck
  PROVE  Obeyed
<1>1. vm \in VmStates
  BY DEF MemInv, WslInv, MapInv, TypeInv, TypeOK
<1>2. /\ vm.panic = NoPanic /\ disk' = disk /\ pf' = pf /\ flt' = flt
      /\ vm' \in {vm, [vm EXCEPT !.ev.pgwriter = FALSE], [vm EXCEPT !.ev.balancer = FALSE]}
  BY DEF WriterIdle, BalancerWake, BalancerUnlock, BalancerCheck, Goto
<1>3. vm'.table = vm.table /\ vm'.page = vm.page /\ vm'.data = vm.data
  BY <1>1, <1>2 DEF VmStates
<1>4. SameReaders(flt, flt')
  BY <1>2 DEF SameReaders
<1> QED
  BY <1>2, <1>3, <1>4, QuietStep

-----------------------------------------------------------------------------
(* A critical section in which the pages keep contents and slots.          *)
LEMMA StillUpper ==
  ASSUME NEW s, NEW t, Frozen(s, t), Tidied(s, t, NoPage), NEW z, NEW A, Reshaped(s, t, z, A),
         \A a \in A : a \in PteAddr /\ ~Low(s, a) /\ Entry(t, a).kind # "Busy"
  PROVE  UpperStep(s, t, z, A) /\ \A q \in Pages : IsAnon(t, q) => IsAnon(s, q)
<1>1. \A q \in Pages : t.page[q].drumslot = s.page[q].drumslot /\ t.data[q] = s.data[q]
  BY DEF Tidied
<1>2. SamePages(s, t, z)
  BY <1>1 DEF SamePages
<1>3. \A q \in Pages : IsAnon(t, q) => IsAnon(s, q)
  BY DEF Tidied, NoPage, Pages
<1> QED
  BY <1>1, <1>2, <1>3 DEF UpperStep, Turned

(* ... and no leaf PTE is written.                                         *)
LEMMA PlainStep ==
  ASSUME MemInv, WslInv', vm.panic = NoPanic, NEW s, NEW y, NEW v, Commit(s, y, v, pf),
         disk' = disk, SameReaders(flt, y),
         s.panic = NoPanic => Frozen(vm, s) /\ Still(vm, s) /\ Reshaped(vm, s, NoPage, {})
  PROVE  Obeyed
<1>1. s.panic = NoPanic =>
        UpperStep(vm, s, NoPage, {}) /\ \A q \in Pages : IsAnon(s, q) => IsAnon(vm, q)
  BY StillUpper DEF Still
<1>2. NoPage \notin Pages
  BY DEF NoPage, Pages
<1> QED
  BY <1>1, <1>2, SteadyStep

(* A thread with other tables wired reads in what it read in before.       *)
LEMMA ThreadReads ==
  ASSUME flt \in [Faulters -> FaultLocals], NEW f \in Faulters, NEW x,
         x.page = flt[f].page, x.va = flt[f].va, x.pte = flt[f].pte, x.slot = flt[f].slot
  PROVE  SameReaders(flt, [flt EXCEPT ![f] = x])
BY DEF SameReaders

(* vmp_wire_pte() begins.                                                  *)
LEMMA WireRootMem ==
  ASSUME MemInv, WslInv', NEW f \in Faulters, WireRoot(f)
  PROVE  Obeyed
<1> DEFINE s == NonswapPteCreated(vm, Root, TRUE)
           x == [flt[f] EXCEPT !.level = Levels, !.pages[Levels] = Root]
<1>1. /\ vm.panic = NoPanic /\ CommitFault(f, s, x) /\ disk' = disk
  BY DEF WireRoot, Goto
<1>2. /\ vm \in VmStates /\ Orderly(vm) /\ flt \in [Faulters -> FaultLocals]
      /\ Forest(vm, Home(vm), NoPage)
  BY WslFacts DEF MemInv
<1>3. Levels \in 1 .. Levels /\ Root \in Pages
  BY VmAssumption, ConstantTypes
<1>4. IsTable(vm, Root)
  BY <1>2, <1>3, LevelUse DEF Forest, IsTable
<1>5. /\ x.page = flt[f].page /\ x.va = flt[f].va /\ x.pte = flt[f].pte
      /\ x.slot = flt[f].slot
  BY <1>2 DEF FaultLocals
<1> HIDE DEF x
<1>6. SameReaders(flt, [flt EXCEPT ![f] = x])
  BY <1>2, <1>5, ThreadReads
<1>7. ASSUME s.panic = NoPanic
      PROVE  Frozen(vm, s) /\ Still(vm, s) /\ Reshaped(vm, s, NoPage, {})
  <2>1. Frozen(vm, s)
    BY <1>2, <1>3, <1>4, <1>7, WiredSound DEF Sound
  <2>2. Still(vm, s)
    BY <1>2, <1>3, NonswapPteCreatedKept
  <2>3. Adjusted(vm, s, Root, 1, 1, 1)
    BY <1>2, <1>3, <1>7, NonswapPteCreatedEffect
  <2> HIDE DEF s
  <2>4. Reshaped(vm, s, NoPage, {})
    BY <1>2, <2>3, PlainReshaped
  <2> QED
    BY <2>1, <2>2, <2>4
<1> HIDE DEF s
<1> QED
  BY <1>1, <1>6, <1>7, PlainStep DEF CommitFault

(* The page writer is done with a page.                                    *)
LEMMA WriterReleaseMem ==
  ASSUME MemInv, WslInv', WriterRelease
  PROVE  Obeyed
<1> DEFINE p == Head(wr.iops)
           s == PageRelease(vm, p)
           w == [wr EXCEPT !.iops = Tail(@)]
<1>1. /\ vm \in VmStates /\ wr \in WriterLocals /\ Owing(vm, flt, wr)
      /\ LocalMaps /\ Good(vm, Home(vm), {}, NoPage)
  BY DaemonFacts, WslFacts DEF MemInv, WslInv
<1>2. /\ vm.panic = NoPanic /\ pc["pgwriter"] = "drain" /\ disk' = disk
      /\ wr.iops # << >> /\ Commit(s, flt, w, pf)
  BY DEF WriterRelease, Goto
<1>3. wr.page = NoPage /\ w.iops = Tail(wr.iops) /\ w.page = wr.page
  <2>1. wr.page = NoPage
    BY <1>1, <1>2 DEF LocalMaps
  <2> QED
    BY <1>1, <2>1 DEF WriterLocals
<1>4. w \in WriterLocals
  <2>1. wr.iops \in Seq(Pages) /\ Tail(wr.iops) \in Seq(Pages)
    BY <1>1, <1>2 DEF WriterLocals
  <2> QED
    BY <1>1, <2>1 DEF WriterLocals
<1>5. p \in Pages /\ vm.page[p].use # "Deleted"
  <2> HIDE DEF w
  <2>1. p \in Pages /\ HeldOf(w) = Plus(HeldOf(wr), p, -1)
    BY <1>1, <1>2, <1>3, <1>4, HeldLess
  <2>2. HeldOf(w)[p] >= 0 /\ HeldOf(wr) \in Ledger /\ -1 \in Int
    <3>1. -1 \in Int
      OBVIOUS
    <3> HIDE DEF p
    <3> QED
      BY <1>1, <1>4, <2>1, <3>1, HeldType
  <2> HIDE DEF p
  <2>3. Plus(HeldOf(wr), p, -1)[p] = HeldOf(wr)[p] + (-1) /\ HeldOf(wr)[p] \in Int
    BY <2>1, <2>2, PlusAt
  <2>4. HeldOf(wr)[p] > 0
    BY <2>1, <2>2, <2>3
  <2> QED
    BY <1>1, <2>1, <2>4 DEF Owing, AnonHeld, IsAnon
<1> DEFINE home == Home(vm)
<1> HIDE DEF p, w
<1>6. ASSUME s.panic = NoPanic
      PROVE  Frozen(vm, s) /\ Still(vm, s) /\ Reshaped(vm, s, NoPage, {})
  <2>1. Refd(vm, s, p, -1) /\ -1 \in Int
    BY <1>1, <1>5, <1>6, PageReleaseEffect
  <2>2. Steady(vm, s)
    BY <2>1 DEF Refd, Steady, SameRec
  <2>3. Good(s, home, {}, NoPage)
    <3>1. Good(vm, home, {}, NoPage)
      BY <1>1
    <3> HIDE DEF home
    <3> QED
      BY <1>1, <1>5, <1>6, <2>2, <3>1, ReleaseGood
  <2>4. Still(vm, s)
    BY <1>1, <1>5, PageReleaseKept
  <2> HIDE DEF s
  <2>5. Frozen(vm, s)
    BY <2>2, <2>3, SteadySound DEF Sound
  <2>6. Reshaped(vm, s, NoPage, {})
    <3>1. Evolved(vm, s, NoPage, {})
      BY <2>1, EvolvedSteps
    <3> QED
      BY <2>2, <3>1, SteadyReshaped
  <2> QED
    BY <2>4, <2>5, <2>6
<1>7. SameReaders(flt, flt)
  BY DEF SameReaders
<1> HIDE DEF s
<1> QED
  BY <1>2, <1>6, <1>7, PlainStep

(* The balancer evicts a page.                                             *)
LEMMA BalancerTrimMem ==
  ASSUME MemInv, WslInv', BalancerTrim
  PROVE  Obeyed
<1> DEFINE s == WslTrim1(vm)
<1>1. /\ vm \in VmStates /\ Good(vm, Home(vm), {}, NoPage) /\ Forest(vm, Home(vm), NoPage)
  BY WslFacts DEF MemInv
<1>2. vm.panic = NoPanic /\ vm.wsl.queue # << >> /\ Commit(s, flt, wr, pf) /\ disk' = disk
  BY DEF BalancerTrim, Goto
<1>3. ASSUME s.panic = NoPanic
      PROVE  Frozen(vm, s) /\ Still(vm, s) /\ Reshaped(vm, s, NoPage, {})
  <2>1. Frozen(vm, s)
    BY <1>1, <1>2, <1>3, TrimGood DEF Sound
  <2>2. Still(vm, s)
    BY <1>1, <1>2, WslTrim1Kept
  <2>3. Trimmed(vm, s)
    BY <1>1, <1>2, <1>3, WslTrim1Effect
  <2> HIDE DEF s
  <2> QED
    BY <1>1, <2>1, <2>2, <2>3, PlainReshaped
<1>4. SameReaders(flt, flt)
  BY DEF SameReaders
<1> HIDE DEF s
<1> QED
  BY <1>2, <1>3, <1>4, PlainStep

(* A PTE above the leaves is not busy afterwards.                          *)
LEMMA UpperEntry ==
  ASSUME NEW s, NEW t, NEW y, Sane(t, y), NEW z, NEW A, Reshaped(s, t, z, A),
         NEW a \in PteAddr, ~Low(s, a)
  PROVE  Entry(t, a).kind # "Busy"
<1> SUFFICES ASSUME Entry(t, a).kind = "Busy" PROVE FALSE
  OBVIOUS
<1>1. t.page[a[1]].use = "PML1" /\ a[1] \in Pages
  BY BusyAt, AddrParts
<1>2. CASE a[1] = z
  <2>1. IsTable(t, a[1])
    BY <1>1 DEF IsTable, TableUses
  <2>2. Entry(t, a).kind = "Zero"
    BY <1>1, <1>2, <2>1 DEF Reshaped, Blank
  <2> QED
    BY <2>2
<1>3. CASE a[1] # z
  BY <1>1, <1>3 DEF Reshaped, Low
<1> QED
  BY <1>2, <1>3

(* The fault handler unpins a page table, which may free it.               *)
LEMMA UnwireMem ==
  ASSUME MemInv, WslInv', NEW f \in Faulters, Unwire(f)
  PROVE  Obeyed
<1> DEFINE l == flt[f].level
           p == flt[f].pages[l]
           n == IF l = Levels THEN l ELSE l + 1
           s == PteDeleted(vm, p)
           x == [flt[f] EXCEPT !.level = n, !.pages[l] = NoPage]
           y == [flt EXCEPT ![f] = x]
<1>1. vm.panic = NoPanic /\ pc[f] = "unwire" /\ CommitFault(f, s, x) /\ disk' = disk
  BY DEF Unwire, Goto
<1>2. /\ vm \in VmStates /\ flt \in [Faulters -> FaultLocals] /\ wr \in WriterLocals
      /\ Owing(vm, flt, wr) /\ LocalOK(pc[f], flt[f]) /\ NoPage \notin Pages
      /\ WiredOf(flt) \in Ledger /\ HeldOf(wr) \in Ledger
      /\ \A q \in Pages : HeldOf(wr)[q] >= 0
      /\ Maps(vm, Home(vm), NoPage, BusyOf(flt), WiredOf(flt), WiredOf(flt), HeldOf(wr))
      /\ Placed(vm, NoPage)
  BY <1>1, MapFacts DEF MemInv, WslInv
<1>3. /\ Good(vm, Home(vm), {}, NoPage)
      /\ \A q \in Pages : WiredOf(flt)[q] >= 0
  BY <1>1, WslFacts DEF MemInv
<1>4. l \in 1 .. Levels /\ Levels \in Nat
  BY <1>1, <1>2, VmAssumption, SMTT(60) DEF LocalOK
<1>5. p \in Pages
  BY <1>1, <1>2, <1>4 DEF LocalOK
<1>6. IsTable(vm, p) /\ WiredOf(flt)[p] >= 1
  <2>1. vm.page[p].use = TableUse[l]
    BY <1>2, <1>4, <1>5 DEF Owing, TablesWired
  <2> QED
    BY <1>2, <1>4, <1>5, <2>1, LevelUse, WiredType DEF IsTable
<1>7. /\ x.page = flt[f].page /\ x.pte = flt[f].pte /\ x.va = flt[f].va
      /\ x.slot = flt[f].slot
  BY <1>2 DEF FaultLocals
<1> HIDE DEF x
<1>8. SameReaders(flt, y)
  BY <1>2, <1>7, ThreadReads
<1>9. Commit(s, y, wr, pf)
  BY <1>1 DEF CommitFault
<1> HIDE DEF y, p
<1>10. ~Clean(vm, p)
  BY <1>6 DEF Clean, IsAnon, IsTable, TableUses
<1>11. ASSUME s.panic = NoPanic
       PROVE  /\ Frozen(vm, s) /\ Tidied(vm, s, NoPage)
              /\ \/ Reshaped(vm, s, NoPage, {})
                 \/ \E a \in PteAddr : Reshaped(vm, s, p, {a}) /\ ~Low(vm, a)
  <2>1. \A q \in Pages : HeldOf(wr)[q] > 0 => IsAnon(vm, q)
    BY <1>2 DEF Owing, AnonHeld
  <2>2. Frozen(vm, s)
    BY <1>2, <1>3, <1>5, <1>6, <1>11, <2>1, PteDeletedSound DEF Sound
  <2>3. Tidied(vm, s, NoPage)
    BY <1>2, <1>5, PteDeletedKept DEF Still
  <2>4. \/ Reshaped(vm, s, NoPage, {})
        \/ /\ Reshaped(vm, s, p, {vm.page[p].referent})
           /\ vm.page[p].referent \in PteAddr /\ ~Low(vm, vm.page[p].referent)
    BY <1>2, <1>3, <1>5, <1>6, <1>11, <2>1, PteDeletedReshaped
  <2> QED
    BY <2>2, <2>3, <2>4
<1> HIDE DEF s
<1>12. CASE s.panic = NoPanic => Reshaped(vm, s, NoPage, {})
  <2>1. s.panic = NoPanic =>
          UpperStep(vm, s, NoPage, {}) /\ \A q \in Pages : IsAnon(s, q) => IsAnon(vm, q)
    BY <1>11, <1>12, StillUpper
  <2> QED
    BY <1>1, <1>2, <1>8, <1>9, <2>1, SteadyStep
<1>13. ASSUME s.panic = NoPanic, NEW a \in PteAddr, Reshaped(vm, s, p, {a}), ~Low(vm, a)
       PROVE  Obeyed
  <2>1. vm' = s /\ flt' = y
    BY <1>9, <1>13 DEF Commit
  <2>2. Sane(s, y)
    BY <1>13, <2>1, SaneNext
  <2>3. Entry(s, a).kind # "Busy"
    BY <1>13, <2>2, UpperEntry
  <2>4. UpperStep(vm, s, p, {a}) /\ \A q \in Pages : IsAnon(s, q) => IsAnon(vm, q)
    BY <1>11, <1>13, <2>3, StillUpper
  <2> QED
    BY <1>1, <1>8, <1>9, <1>10, <2>4, SteadyStep
<1> QED
  BY <1>11, <1>12, <1>13

(* The walk goes from a table to the one its PTE names.                    *)
LEMMA DownTo ==
  ASSUME NEW s, Forest(s, Home(s), NoPage), NEW q \in Pages \ {Root}, IsTable(s, q),
         NEW d, NEW va, NEW l, s.page[q].referent = << d, va[l] >>
  PROVE  Down(s, va, d, l) = q
<1>1. NoPage \notin Pages
  BY DEF NoPage, Pages
<1>2. /\ Home(s)[q] = << d, va[l] >> /\ Home(s)[q] \in PteAddr
      /\ Entry(s, Home(s)[q]).kind = "Valid" /\ Entry(s, Home(s)[q]).page = q
  BY <1>1 DEF Forest, Home
<1>3. d \in Pages
  BY <1>2, AddrParts
<1> QED
  BY <1>1, <1>2, <1>3 DEF Down, Entry

(* The walk comes to the table that a thread has pinned last.              *)
LEMMA PinnedWalk ==
  ASSUME NEW s \in VmStates, Forest(s, Home(s), NoPage), NEW x, Chain(s, x),
         NEW l \in 2 .. Levels,
         \A k \in l .. Levels : x.pages[k] \in Pages /\ s.page[x.pages[k]].use = TableUse[k]
  PROVE  Walk(s, x.va)[l] = x.pages[l]
<1> DEFINE W(k) == Walk(s, x.va)[k]
           home == Home(s)
<1>1. Levels \in 2 .. 4 /\ NoPage \notin Pages /\ s.page[Root].use = TableUse[Levels]
      /\ Forest(s, home, NoPage)
  BY VmAssumption DEF NoPage, Pages, Forest
<1>2. W(Levels) = Root /\ \A k \in 1 .. Levels - 1 : W(k) = Down(s, x.va, W(k + 1), k + 1)
  BY WalkDown
<1> HIDE DEF W, home
<1>3. W(Levels) = x.pages[Levels]
  <2> SUFFICES ASSUME x.pages[Levels] # Root PROVE FALSE
    BY <1>2
  <2> DEFINE q == x.pages[Levels]
  <2>1. Levels \in l .. Levels /\ Levels \in 1 .. 4
    BY <1>1
  <2>2. q \in Pages \ {Root, NoPage} /\ s.page[q].use = TableUse[Levels]
    BY <1>1, <2>1
  <2> HIDE DEF q
  <2>3. Levels < Levels
    BY <1>1, <2>1, <2>2, RootHighest
  <2> QED
    BY <1>1, <2>3
<1>4. ASSUME NEW k \in l .. Levels - 1, W(k + 1) = x.pages[k + 1]
      PROVE  W(k) = x.pages[k]
  <2> DEFINE q == x.pages[k]
  <2>1. k \in 1 .. Levels - 1 /\ k \in l .. Levels /\ k \in 1 .. 3
    BY <1>1
  <2>2. q \in Pages /\ s.page[q].use = TableUse[k]
    BY <2>1
  <2>3. TableUse[k] # TableUse[Levels] /\ TableUse[k] \in TableUses
    BY <1>1, <2>1 DEF TableUse, TableUses
  <2>4. s.page[q].referent = << x.pages[k + 1], x.va[k + 1] >>
    BY <2>1, <2>2 DEF Chain
  <2> HIDE DEF q
  <2>5. q \in Pages \ {Root} /\ IsTable(s, q)
    BY <1>1, <2>2, <2>3 DEF IsTable
  <2>6. Down(s, x.va, x.pages[k + 1], k + 1) = q
    BY <2>4, <2>5, DownTo
  <2> QED
    BY <1>2, <1>4, <2>1, <2>6 DEF q
<1>5. Levels - 1 >= l => W(Levels - 1) = x.pages[Levels - 1]
  BY <1>1, <1>3, <1>4, Levels - 1 >= l => Levels - 1 \in l .. Levels - 1, (Levels - 1) + 1 = Levels
<1>6. Levels - 2 >= l => W(Levels - 2) = x.pages[Levels - 2]
  BY <1>1, <1>4, <1>5, Levels - 2 >= l => Levels - 2 \in l .. Levels - 1 /\ Levels - 1 >= l,
     (Levels - 2) + 1 = Levels - 1
<1>7. l = Levels \/ l = Levels - 1 \/ l = Levels - 2
  BY <1>1
<1>8. W(l) = x.pages[l]
  <2>1. CASE l = Levels
    BY <1>3, <2>1
  <2>2. CASE l = Levels - 1
    BY <1>1, <1>5, <2>2
  <2>3. CASE l = Levels - 2
    BY <1>1, <1>6, <2>3
  <2> QED
    BY <1>7, <2>1, <2>2, <2>3
<1> QED
  BY <1>8 DEF W

(* Below a PTE that is not valid it comes to nothing.                      *)
LEMMA MissingLeaf ==
  ASSUME NEW s, NEW va, NEW l \in 2 .. Levels,
         Walk(s, va)[l] = NoPage \/ s.table[Walk(s, va)[l]][va[l]].kind # "Valid"
  PROVE  PteIn(s, va).kind = "Zero"
<1> DEFINE W(k) == Walk(s, va)[k]
<1>1. Levels \in 2 .. 4
  BY VmAssumption
<1>2. \A k \in 1 .. Levels - 1 : W(k) = Down(s, va, W(k + 1), k + 1)
  BY WalkDown
<1>3. W(l - 1) = NoPage
  <2>1. l - 1 \in 1 .. Levels - 1 /\ (l - 1) + 1 = l
    BY <1>1
  <2> QED
    BY <1>2, <2>1 DEF Down
<1> HIDE DEF W
<1>4. ASSUME NEW k \in 1 .. Levels - 1, W(k + 1) = NoPage PROVE W(k) = NoPage
  BY <1>2, <1>4 DEF Down
<1>5. l = 2 \/ l = 3 \/ l = 4
  BY <1>1
<1>6. W(1) = NoPage
  <2>1. CASE l = 2
    BY <1>3, <2>1
  <2>2. CASE l = 3
    BY <1>1, <1>3, <1>4, <2>2, 1 \in 1 .. Levels - 1
  <2>3. CASE l = 4
    <3>1. W(3) = NoPage /\ 2 \in 1 .. Levels - 1 /\ 1 \in 1 .. Levels - 1
      BY <1>1, <1>3, <2>3
    <3>2. W(2) = NoPage
      BY <1>4, <3>1, 2 + 1 = 3
    <3> QED
      BY <1>4, <3>1, <3>2, 1 + 1 = 2
  <2> QED
    BY <1>5, <2>1, <2>2, <2>3
<1>7. FetchPte(s, va) = NoPage /\ NoPage \notin Pages
  BY <1>6 DEF W, FetchPte, NoPage, Pages
<1> QED
  BY <1>7 DEF PteIn, ZeroPte

(* A critical section that allocates page z, which nothing maps yet.       *)
LEMMA FreshUpper ==
  ASSUME NEW s, NEW t, Frozen(s, t), NEW z, Renewed(s, t, z), NEW A, Reshaped(s, t, z, A),
         \A a \in A : a \in PteAddr /\ ~Low(s, a) /\ Entry(t, a).kind # "Busy"
  PROVE  UpperStep(s, t, z, A) /\ \A q \in Pages \ {z} : IsAnon(t, q) => IsAnon(s, q)
<1>1. SamePages(s, t, z)
  BY DEF Renewed, SamePages
<1>2. \A q \in Pages : t.page[q].drumslot \in {s.page[q].drumslot, NoSlot}
  BY DEF Renewed
<1>3. \A q \in Pages \ {z} : IsAnon(t, q) => IsAnon(s, q)
  BY DEF Renewed
<1> QED
  BY <1>1, <1>2, <1>3 DEF UpperStep, Turned

(* vmp_wire_pte(), one level.                                              *)
LEMMA WireLevelMem ==
  ASSUME MemInv, WslInv', NEW f \in Faulters, WireLevel(f)
  PROVE  Obeyed
<1> DEFINE l   == flt[f].level
           dir == flt[f].pages[l]
           i   == flt[f].va[l]
           use == TableUse[l - 1]
           s   == WireTable(vm, dir, i, use)
           x   == [flt[f] EXCEPT !.level = l - 1, !.pages[l - 1] = s.table[dir][i].page]
           y   == [flt EXCEPT ![f] = x]
           a   == << dir, i >>
           z   == AllocatedPage(vm)
<1>1. /\ vm.panic = NoPanic /\ pc[f] = "wire" /\ l \in 2 .. Levels /\ CommitFault(f, s, x)
      /\ disk' = disk
  <2>1. vm.panic = NoPanic /\ pc[f] = "wire"
    BY ZenonT(60) DEF WireLevel, Goto
  <2> QED
    BY <2>1, Zenon DEF WireLevel
<1>2. /\ vm \in VmStates /\ flt \in [Faulters -> FaultLocals] /\ wr \in WriterLocals
      /\ Owing(vm, flt, wr) /\ flt[f] \in FaultLocals
      /\ LocalOK(pc[f], flt[f]) /\ TypeInv /\ NoPage \notin Pages /\ MapInv
  BY <1>1, MapFacts, ZenonT(60) DEF MemInv, WslInv
<1>3. Orderly(vm) /\ Walks(vm, pc[f], flt[f]) /\ Forest(vm, Home(vm), NoPage)
  BY <1>1, WslFacts, Zenon DEF MemInv
<1>4. /\ l \in 1 .. Levels /\ l - 1 \in 1 .. Levels /\ l \in {2, 3, 4} /\ Levels \in Nat
      /\ dir \in Pages /\ i \in Idx /\ \A k \in l .. Levels : k \in 1 .. Levels /\ k >= l
  <2>1. /\ l \in 1 .. Levels /\ l - 1 \in 1 .. Levels /\ l \in {2, 3, 4} /\ Levels \in Nat
        /\ l >= l /\ \A k \in l .. Levels : k \in 1 .. Levels /\ k >= l
    <3>1. l \in 2 .. Levels /\ Levels \in 2 .. 4
      BY <1>1, VmAssumption, ZenonT(60)
    <3> HIDE DEF l
    <3> QED
      BY ONLY <3>1, SMTT(60)
  <2>2. i \in Idx
    BY <1>1, <1>2, <2>1, FaulterFacts, Zenon
  <2> QED
    BY <1>1, <1>2, <2>1, <2>2, Zenon DEF LocalOK
<1>5. /\ vm.page[dir].use = TableUse[l]
      /\ \A k \in l .. Levels :
           flt[f].pages[k] \in Pages /\ vm.page[flt[f].pages[k]].use = TableUse[k]
  BY <1>1, <1>2, <1>4, Zenon DEF Owing, TablesWired, LocalOK
<1>6. IsTable(vm, dir) /\ use \in TableUses /\ use = Below(vm.page[dir].use)
      /\ vm.page[dir].use # "PML1"
  BY <1>4, <1>5 DEF IsTable, TableUse, TableUses, Below
<1>7. /\ x.page = flt[f].page /\ x.pte = flt[f].pte /\ x.va = flt[f].va
      /\ x.slot = flt[f].slot
  BY <1>2, Zenon DEF FaultLocals
<1> HIDE DEF x
<1>8. SameReaders(flt, y)
  BY <1>2, <1>7, ThreadReads
<1>9. Commit(s, y, wr, pf)
  BY <1>1, Zenon DEF CommitFault
<1>10. flt[f].va \in VAddrs /\ Chain(vm, flt[f])
  BY <1>1, <1>3 DEF Walks
<1>11. Walk(vm, flt[f].va)[l] = dir
  BY <1>1, <1>2, <1>3, <1>5, <1>10, PinnedWalk
<1>12. Entry(vm, a).kind # "Valid" => PteIn(vm, flt[f].va).kind = "Zero"
  <2>1. a[1] = dir /\ a[2] = i
    OBVIOUS
  <2> QED
    BY <1>1, <1>11, <2>1, MissingLeaf, Zenon DEF Entry
<1>13. a \in PteAddr /\ ~Low(vm, a)
  BY <1>4, <1>6 DEF PteAddr, Low
<1> HIDE DEF l, dir, i, use, y, a
<1>14. ASSUME s.panic = NoPanic
       PROVE  Frozen(vm, s) /\ Entry(s, a).kind # "Busy"
  BY <1>2, <1>3, <1>4, <1>6, <1>14, WireTableSound DEF Sound, a
<1>15. CASE s.panic = NoPanic => Entry(vm, a).kind = "Valid"
  <2>1. ASSUME s.panic = NoPanic
        PROVE  /\ UpperStep(vm, s, NoPage, {a})
               /\ \A q \in Pages : IsAnon(s, q) => IsAnon(vm, q)
    <3>1. Entry(vm, a).page \in Pages /\ TRUE \in BOOLEAN
      BY <1>2, <1>13, EntryPart
    <3>2. /\ s = NonswapPteCreated(vm, Entry(vm, a).page, TRUE)
          /\ Reshaped(vm, s, NoPage, {a})
      BY <1>2, <1>3, <1>4, <1>6, <1>15, <2>1, WireTableReshaped DEF a
    <3>3. Tidied(vm, s, NoPage)
      BY <1>2, <3>1, <3>2, NonswapPteCreatedKept DEF Still
    <3>4. Frozen(vm, s) /\ \A e \in {a} : e \in PteAddr /\ ~Low(vm, e) /\ Entry(s, e).kind # "Busy"
      BY <1>13, <1>14, <2>1
    <3>5. Reshaped(vm, s, NoPage, {a})
      BY <3>2
    <3> HIDE DEF s
    <3> QED
      BY <3>3, <3>4, <3>5, StillUpper
  <2> HIDE DEF s
  <2> QED
    BY <1>1, <1>2, <1>8, <1>9, <2>1, SteadyStep
<1>16. ASSUME s.panic = NoPanic, Entry(vm, a).kind # "Valid"
       PROVE  Obeyed
  <2>1. s = NewTable(vm, dir, i, use) /\ Reshaped(vm, s, z, {a})
    BY <1>2, <1>3, <1>4, <1>6, <1>16, WireTableReshaped DEF a
  <2>2. /\ CanAlloc(vm) /\ PageAlloc(vm, use).panic = NoPanic /\ Renewed(vm, s, z)
    BY <1>2, <1>4, <1>6, <1>16, <2>1, NewTableRenewed
  <2>3. z # wr.page
    BY <1>1, <1>2, <1>6, <2>2, FreshPage
  <2> HIDE DEF s, z
  <2>4. UpperStep(vm, s, z, {a}) /\ \A q \in Pages \ {z} : IsAnon(s, q) => IsAnon(vm, q)
    BY <1>13, <1>14, <1>16, <2>1, <2>2, FreshUpper
  <2>5. VAddrs # {} /\ \E w \in VAddrs : PteIn(vm, w).kind = "Zero"
    BY <1>10, <1>12, <1>16
  <2> QED
    BY <1>1, <1>8, <1>9, <2>3, <2>4, <2>5, SteadyStep
<1> QED
  BY <1>15, <1>16

-----------------------------------------------------------------------------
(* The PTE of the address that do_fault() handles.                         *)
LEMMA LeafFault ==
  ASSUME MemInv, vm.panic = NoPanic, NEW f \in Faulters, pc[f] = "fault"
  PROVE  /\ FaultPteAddr(f) \in PteAddr /\ Low(vm, FaultPteAddr(f))
         /\ Addr(Home(vm), FaultPteAddr(f)) = flt[f].va
         /\ flt[f].va \in VAddrs /\ flt[f].va \in VAddr
         /\ Entry(vm, FaultPteAddr(f)) = FaultPte(f) /\ Sane(vm, flt)
         /\ flt[f].page = NoPage /\ LeafKey(flt[f].va) \in WsKey /\ flt[f].write \in BOOLEAN
<1>1. WslInv /\ MapInv
  BY DEF MemInv, WslInv
<1>2. /\ FaultPteAddr(f) \in PteAddr /\ Low(vm, FaultPteAddr(f))
      /\ Entry(vm, FaultPteAddr(f)) = FaultPte(f)
      /\ flt[f].page = NoPage /\ LeafKey(flt[f].va) \in WsKey /\ flt[f].write \in BOOLEAN
  BY <1>1, LeafMap DEF Low
<1>3. Addr(Home(vm), FaultPteAddr(f)) = flt[f].va /\ flt[f].va \in VAddrs
  BY <1>1, FaultAddr
<1>4. Sane(vm, flt)
  BY <1>1, SaneNow
<1> QED
  BY <1>2, <1>3, <1>4, VmmAssumption

(* The address is in core afterwards: in the page it was in, or in a fresh *)
(* one.                                                                    *)
StaysInCore(s, t, z, a) ==
  /\ Turned(s, t, z, {a}) /\ Entry(t, a).kind \in {"Valid", "Trans"}
  /\ \A p \in Pages : t.page[p].drumslot \in {s.page[p].drumslot, NoSlot}
  /\ \/ /\ Entry(s, a).kind = "Zero"
        /\ t.data[Entry(t, a).page] = 0 /\ t.page[Entry(t, a).page].drumslot = NoSlot
     \/ /\ Entry(s, a).kind \in {"Valid", "Trans"} /\ Entry(t, a).page = Entry(s, a).page
        /\ Entry(s, a).page # z

(* Such a step of do_fault().                                              *)
LEMMA InCoreStep ==
  ASSUME MemInv, WslInv', NEW f \in Faulters, NEW s, Handled(f, s, Result(f, "ok")), NEW z,
         s.panic = NoPanic =>
           /\ StaysInCore(vm, s, z, FaultPteAddr(f))
           /\ z \in Pages => z # wr.page \/ ~Clean(vm, z)
  PROVE  Obeyed
<1> DEFINE x == Result(f, "ok")
           y == [flt EXCEPT ![f] = x]
           a == FaultPteAddr(f)
           w == flt[f].va
<1>1. vm.panic = NoPanic /\ pc[f] = "fault" /\ Commit(s, y, wr, pf) /\ disk' = disk
  BY DEF Handled, CommitFault, Goto
<1>2. /\ flt \in [Faulters -> FaultLocals] /\ NoPage \notin Pages
  BY DEF MemInv, WslInv, MapInv, TypeInv, TypeOK, NoPage, Pages
<1>3. /\ a \in PteAddr /\ Low(vm, a) /\ Addr(Home(vm), a) = w /\ w \in VAddrs /\ w \in VAddr
      /\ Sane(vm, flt)
  BY <1>1, LeafFault
<1>4. /\ x.page = flt[f].page /\ x.pte = flt[f].pte /\ x.va = flt[f].va
      /\ x.slot = flt[f].slot
  BY <1>2 DEF FaultLocals, Result
<1> HIDE DEF x
<1>5. SameReaders(flt, y)
  BY <1>2, <1>4, ThreadReads
<1> HIDE DEF y, a, w
<1>6. CASE s.panic # NoPanic
  BY <1>1, <1>6, PanicStep
<1>7. CASE s.panic = NoPanic
  <2>1. vm' = s /\ flt' = y /\ pf' = pf
    BY <1>1, <1>7 DEF Commit
  <2>2. /\ StaysInCore(vm, vm', z, a) /\ vm'.panic = NoPanic
        /\ z \in Pages => z # wr.page \/ ~Clean(vm, z)
    BY <1>7, <2>1 DEF a
  <2>3. Sane(vm', flt') /\ SameReaders(flt, flt')
    BY <1>5, <2>1, <2>2, SaneNext
  <2>4. Turned(vm, vm', z, {a}) /\ Entry(vm', a).kind # "Busy"
        /\ Entry(vm', a).kind \in {"Valid", "Trans", "Busy"}
    BY <2>2 DEF StaysInCore
  <2>5. Reads(flt, flt', {a}) /\ ReadsFresh(vm', flt', pf'.bitmap)
    <3>1. pf.bitmap \subseteq pf'.bitmap
      BY <2>1
    <3> QED
      BY <1>3, <2>2, <2>3, <2>4, <3>1, ReadsGoOn DEF MemInv, StaysInCore
  <2>6. PteIn(vm, w) = Entry(vm, a) /\ PteIn(vm', w) = Entry(vm', a)
    BY <1>3, <2>3, <2>4, OwnPte
  <2> DEFINE p == Entry(vm', a).page
             c == CellIn(vm, disk, flt, w)
             e == CellIn(vm', disk, flt', w)
  <2>7. p \in Pages
    BY <1>3, <2>2, <2>3, EntryPart DEF Sane
  <2>8. e = [where |-> "core", data |-> vm'.data[p], slot |-> vm'.page[p].drumslot]
    BY <2>2, <2>6 DEF CellIn, StaysInCore
  <2>9. ASSUME Entry(vm, a).kind = "Zero"
        PROVE  MemStep
    <3>1. vm'.data[p] = 0 /\ vm'.page[p].drumslot = NoSlot
      BY <2>2, <2>9 DEF StaysInCore
    <3>2. c = [where |-> "nowhere", data |-> 0, slot |-> NoSlot]
      BY <2>6, <2>9 DEF CellIn
    <3>3. Memory!Touch(c, e)
      BY <2>8, <3>1, <3>2 DEF Memory!Touch, Memory!Nowhere, Memory!Cell, Memory!NoDrumSlot, NoSlot
    <3>4. Remains(w)
      BY <2>6, <2>9, ResidentPte DEF Remains
    <3> HIDE DEF c, e
    <3>5. Memory!Moves(c, e)
      BY <3>3 DEF Memory!Moves
    <3> QED
      BY <1>1, <1>3, <2>1, <2>2, <2>4, <2>5, <3>4, <3>5, LeafStep DEF c, e, MemInv
  <2>10. ASSUME Entry(vm, a).kind # "Zero"
         PROVE  MemStep
    <3>1. Entry(vm, a).kind \in {"Valid", "Trans"} /\ p = Entry(vm, a).page /\ p # z
      BY <2>2, <2>10 DEF StaysInCore
    <3>2. vm'.data[p] = vm.data[p] /\ vm'.page[p].drumslot = vm.page[p].drumslot
      BY <2>4, <2>7, <3>1 DEF Turned, SamePages
    <3>3. c = [where |-> "core", data |-> vm.data[p], slot |-> vm.page[p].drumslot]
      BY <2>6, <3>1 DEF CellIn
    <3>4. c = e
      BY <2>8, <3>2, <3>3
    <3>5. Remains(w)
      BY <2>6, <3>1, <3>2, ResidentPte DEF Remains
    <3> QED
      BY <1>1, <1>3, <2>1, <2>2, <2>4, <2>5, <3>4, <3>5, LeafStep DEF MemInv
  <2>11. MemStep
    BY <2>9, <2>10
  <2>12. Peopled(vm')
    BY <1>3 DEF Peopled
  <2> QED
    BY <2>5, <2>11, <2>12 DEF Obeyed
<1> QED
  BY <1>6, <1>7

(* A write to a page that is not writeable.                                *)
LEMMA MakeWriteableMem ==
  ASSUME MemInv, WslInv', NEW f \in Faulters, MakeWriteable(f)
  PROVE  Obeyed
<1> DEFINE a == FaultPteAddr(f)
           q == FaultPte(f).page
           e == HwPte(q, TRUE)
           s == SetPte(vm, a, e)
<1>1. vm.panic = NoPanic /\ pc[f] = "fault" /\ Handled(f, s, Result(f, "ok"))
      /\ FaultPte(f).kind = "Valid"
  BY DEF MakeWriteable, FaultsOn
<1>2. a \in PteAddr /\ Entry(vm, a) = FaultPte(f) /\ Sane(vm, flt) /\ vm \in VmStates
  BY <1>1, LeafFault DEF Sane
<1>3. e.kind = "Valid" /\ e.writeable /\ e.page = q
  BY DEF HwPte, ZeroPte
<1>4. q \in Pages /\ NoPage \notin Pages
  BY <1>2, EntryPart DEF NoPage, Pages
<1>5. Entry(vm, a).kind = "Valid" /\ Entry(vm, a).page = q
  BY <1>1, <1>2
<1> HIDE DEF e, q
<1>6. ASSUME s.panic = NoPanic PROVE StaysInCore(vm, s, NoPage, a)
  <2> HIDE DEF a
  <2>1. Entered(vm, s, a, e)
    BY <1>2, <1>6, SetPteEffect
  <2>2. Tidied(vm, s, NoPage)
    BY <1>2, <1>3, SetPteStill DEF Still
  <2> HIDE DEF s
  <2>3. Frozen(vm, s) /\ Entry(s, a) = e
    BY <1>2, <2>1 DEF Entered, SameRec, Frozen
  <2>4. Reshaped(vm, s, NoPage, {a})
    BY <1>2, <2>1, PlainReshaped
  <2>5. SamePages(vm, s, NoPage) /\ \A p \in Pages : s.page[p].drumslot = vm.page[p].drumslot
    BY <2>2 DEF Tidied, SamePages
  <2>6. Turned(vm, s, NoPage, {a})
    BY <2>3, <2>4, <2>5 DEF Turned
  <2> QED
    BY <1>3, <1>4, <1>5, <2>3, <2>5, <2>6 DEF StaysInCore
<1> HIDE DEF s
<1> QED
  BY <1>1, <1>4, <1>6, InCoreStep

(* do_fault() gives a zero or a transition PTE its page.                   *)
LEMMA FillLeafMem ==
  ASSUME MemInv, WslInv', NEW f \in Faulters, DemandZero(f) \/ TransFault(f)
  PROVE  Obeyed
<1> DEFINE a == FaultPteAddr(f)
           q == FaultPte(f).page
           v == flt[f].va
           w == flt[f].write
           z == AllocatedPage(vm)
<1>1. vm.panic = NoPanic /\ pc[f] = "fault"
  BY DEF DemandZero, TransFault, FaultsOn
<1>2. /\ vm \in VmStates /\ Orderly(vm) /\ MapInv /\ WslInv
  BY <1>1, WslFacts DEF MemInv
<1>3. /\ a \in PteAddr /\ Entry(vm, a) = FaultPte(f) /\ q \in Pages /\ w \in BOOLEAN
      /\ vm.page[a[1]].use = "PML1" /\ a[1] = flt[f].pages[1] /\ LeafKey(v) \in WsKey
  BY <1>1, <1>2, LeafMap
<1>4. v = Addr(Home(vm), a) /\ v \in VAddrs /\ NoPage \notin Pages
  BY <1>1, <1>2, FaultAddr DEF NoPage, Pages
<1>5. CASE DemandZero(f)
  <2> DEFINE s == ZeroFill(vm, a, LeafKey(v), w)
  <2>1. CanAlloc(vm) /\ Entry(vm, a).kind = "Zero"
    BY <1>3, <1>5 DEF DemandZero, FaultsOn
  <2>2. Handled(f, s, Result(f, "ok"))
    BY <1>3, <1>5 DEF DemandZero, ZeroFill
  <2>3. ASSUME s.panic = NoPanic
        PROVE  StaysInCore(vm, s, z, a) /\ z # wr.page
    <3> HIDE DEF a, v, w
    <3>1. Frozen(vm, s)
      BY <1>2, <1>3, <1>4, <2>1, <2>3, ZeroFillSound DEF Sound
    <3>2. Reshaped(vm, s, z, {a}) /\ (Entry(s, a) = HwPte(z, w) \/ Entry(s, a) = TransPte(z))
      BY <1>2, <1>3, <2>1, <2>3, ZeroFillReshaped
    <3>3. PageAlloc(vm, "AnonPrivate").panic = NoPanic /\ Renewed(vm, s, z)
      BY <1>2, <1>3, <2>1, <2>3, ZeroFillRenewed
    <3> HIDE DEF s
    <3>4. z \in Pages \ {wr.page}
      BY <1>1, <1>2, <2>1, <3>3, FreshPage
    <3> HIDE DEF z
    <3>5. Entry(s, a).kind \in {"Valid", "Trans"} /\ Entry(s, a).page = z
      BY <3>2 DEF HwPte, TransPte, ZeroPte
    <3>6. Turned(vm, s, z, {a}) /\ s.data[z] = 0 /\ s.page[z].drumslot = NoSlot
          /\ \A p \in Pages : s.page[p].drumslot \in {vm.page[p].drumslot, NoSlot}
      BY <3>1, <3>2, <3>3 DEF Turned, SamePages, Renewed
    <3> QED
      BY <2>1, <3>4, <3>5, <3>6 DEF StaysInCore
  <2> HIDE DEF s, z
  <2> QED
    BY <2>2, <2>3, InCoreStep
<1>6. CASE TransFault(f)
  <2> DEFINE s == Reclaim(vm, a, LeafKey(v), q)
  <2>1. Entry(vm, a).kind = "Trans" /\ Entry(vm, a).page = q
    BY <1>3, <1>6 DEF TransFault, FaultsOn
  <2>2. Handled(f, s, Result(f, "ok"))
    BY <1>6 DEF TransFault, Reclaim
  <2>3. ASSUME s.panic = NoPanic PROVE StaysInCore(vm, s, NoPage, a)
    <3> HIDE DEF a, v, q
    <3>1. Frozen(vm, s)
      BY <1>2, <1>3, <1>4, <2>1, <2>3, ReclaimSound DEF Sound
    <3>2. /\ Reshaped(vm, s, NoPage, {a})
          /\ Entry(s, a) = HwPte(q, FALSE) \/ Entry(s, a) = TransPte(q)
      BY <1>2, <1>3, <2>3, ReclaimReshaped
    <3>3. Tidied(vm, s, NoPage)
      BY <1>2, <1>3, <2>1, <2>3, ReclaimTidied
    <3> HIDE DEF s
    <3>4. Entry(s, a).kind \in {"Valid", "Trans"} /\ Entry(s, a).page = q
      BY <3>2 DEF HwPte, TransPte, ZeroPte
    <3>5. /\ Turned(vm, s, NoPage, {a})
          /\ \A p \in Pages : s.page[p].drumslot \in {vm.page[p].drumslot, NoSlot}
      BY <3>1, <3>2, <3>3 DEF Turned, SamePages, Tidied
    <3> QED
      BY <1>3, <1>4, <2>1, <3>4, <3>5 DEF StaysInCore
  <2> HIDE DEF s
  <2> QED
    BY <1>4, <2>2, <2>3, InCoreStep
<1> QED
  BY <1>5, <1>6

(* do_fault() begins to read a page in.                                    *)
LEMMA SwapFaultMem ==
  ASSUME MemInv, WslInv', NEW f \in Faulters, SwapFault(f)
  PROVE  Obeyed
<1> DEFINE a == FaultPteAddr(f)
           w == flt[f].va
           z == AllocatedPage(vm)
           k == FaultPte(f).slot
           s == StartRead(vm, a, LeafKey(w))
           x == [Result(f, "read") EXCEPT !.page = z, !.pte = a, !.slot = k]
           y == [flt EXCEPT ![f] = x]
<1>1. vm.panic = NoPanic /\ pc[f] = "fault" /\ CanAlloc(vm) /\ FaultPte(f).kind = "Swap"
  BY DEF SwapFault, FaultsOn
<1>2. /\ vm \in VmStates /\ Orderly(vm) /\ flt \in [Faulters -> FaultLocals] /\ MapInv
      /\ WslInv
      /\ Maps(vm, Home(vm), NoPage, BusyOf(flt), WiredOf(flt), WiredOf(flt), HeldOf(wr))
  BY <1>1, WslFacts, DaemonFacts DEF MemInv
<1>3. /\ a \in PteAddr /\ Low(vm, a) /\ Addr(Home(vm), a) = w /\ w \in VAddrs /\ w \in VAddr
      /\ Sane(vm, flt) /\ LeafKey(w) \in WsKey /\ flt[f].page = NoPage
      /\ Entry(vm, a).kind = "Swap" /\ Entry(vm, a).slot = k
  BY <1>1, LeafFault
<1>4. vm.page[a[1]].use = "PML1" /\ a[1] = flt[f].pages[1] /\ a[1] \in Pages /\ a[2] \in Idx
  BY <1>1, <1>2, <1>3, LeafMap, AddrParts DEF Low
<1>5. Commit(s, y, wr, pf) /\ disk' = disk
  BY <1>4 DEF SwapFault, StartRead, Handled, CommitFault
<1>6. x.page = z /\ x.pte = a /\ x.slot = k /\ x.va = w
  BY <1>2 DEF Result, FaultLocals
<1> HIDE DEF x
<1>7. y[f] = x /\ \A g \in Faulters \ {f} : y[g] = flt[g]
  BY <1>2
<1> HIDE DEF y, w, k
<1>8. \A q \in Pages : IsAnon(vm, q) => vm.page[q].referent # a
  <2> HIDE DEF a
  <2> SUFFICES ASSUME NEW q \in Pages, IsAnon(vm, q), vm.page[q].referent = a PROVE FALSE
    OBVIOUS
  <2>1. /\ PagesLinked(vm, Home(vm), NoPage, BusyOf(flt))
        /\ BusyLinked(vm, Home(vm), NoPage, BusyOf(flt))
    BY <1>2 DEF Maps, Linked
  <2>2. q # Root
    BY <1>2, UseFacts DEF IsAnon, Maps, Linked
  <2>3. q # NoPage /\ Home(vm)[q] = a
    BY DEF NoPage, Pages, Home
  <2>4. Entry(vm, a).kind \in {"Valid", "Trans"} \/ << a, q >> \in BusyOf(flt)
    BY <2>1, <2>2, <2>3 DEF PagesLinked
  <2> QED
    BY <1>3, <2>1, <2>4 DEF BusyLinked
<1> HIDE DEF a
<1>9. CASE s.panic # NoPanic
  BY <1>1, <1>5, <1>9, PanicStep
<1>10. CASE s.panic = NoPanic
  <2>1. vm' = s /\ flt' = y /\ pf' = pf
    BY <1>5, <1>10 DEF Commit
  <2>2. Frozen(vm, vm')
    BY <1>1, <1>2, <1>3, <1>4, <1>10, <2>1, StartReadSound DEF Sound
  <2>3. Reshaped(vm, vm', z, {a}) /\ Entry(vm', a) = BusyPte
    BY <1>1, <1>2, <1>3, <1>10, <2>1, StartReadReshaped
  <2>4. PageAlloc(vm, "AnonPrivate").panic = NoPanic /\ Renewed(vm, vm', z)
    BY <1>1, <1>2, <1>3, <1>8, <1>10, <2>1, StartReadRenewed
  <2> HIDE DEF s
  <2>5. z \in Pages \ {wr.page}
    BY <1>1, <1>2, <2>4, FreshPage
  <2> HIDE DEF z
  <2>6. /\ Turned(vm, vm', z, {a}) /\ vm'.data[z] = 0 /\ vm'.page[z].drumslot = NoSlot
        /\ \A p \in Pages : vm'.page[p].drumslot \in {vm.page[p].drumslot, NoSlot}
    BY <2>2, <2>3, <2>4 DEF Turned, SamePages, Renewed
  <2>7. Sane(vm', flt') /\ vm'.panic = NoPanic
    BY <1>10, <2>1, SaneNext
  <2>8. Entry(vm', a).kind = "Busy"
    BY <2>3 DEF BusyPte, ZeroPte
  <2>9. PteIn(vm, w) = Entry(vm, a) /\ PteIn(vm', w) = Entry(vm', a)
    BY <1>3, <2>6, <2>7, <2>8, OwnPte
  <2>10. flt'[f] = x /\ x.page \in Pages /\ \A g \in Faulters \ {f} : flt'[g] = flt[g]
    BY <1>6, <1>7, <2>1, <2>5
  <2>11. Reads(flt, flt', {a})
    <3>1. flt[f].page \notin Pages /\ flt'[f].pte \in {a}
      BY <1>3, <1>6, <2>10 DEF NoPage, Pages
    <3> QED
      BY <2>10, <3>1 DEF Reads
  <2>12. ReadsFresh(vm', flt', pf'.bitmap)
    <3>1. pf.bitmap \subseteq pf'.bitmap /\ Reshaped(vm, vm', z, {a}) /\ SamePages(vm, vm', z)
      BY <2>1, <2>6 DEF Turned
    <3>2. ASSUME NEW g \in Faulters \ {f} PROVE ReadFresh(vm', flt'[g], pf'.bitmap)
      <4>1. ReadFresh(vm, flt[g], pf.bitmap) /\ flt'[g] = flt[g]
        BY <2>10 DEF MemInv, ReadsFresh
      <4>2. flt[g].page \in Pages => flt[g].pte # a
        BY <1>3, ReaderPte
      <4>3. flt'[g].page \in Pages =>
              /\ flt'[g].page = flt[g].page /\ flt'[g].slot = flt[g].slot
              /\ flt'[g].pte \notin {a}
        BY <4>1, <4>2
      <4> QED
        BY <2>6, <2>7, <3>1, <4>1, <4>3, ReadStaysFresh
    <3>3. ReadFresh(vm', flt'[f], pf'.bitmap)
      <4>1. PteSlot(vm, a[1], a[2]) = k
        BY <1>3, <1>4 DEF PteSlot, Entry
      <4>2. k \in pf.bitmap \cup {NoSlot} /\ \A p \in Pages : PageSlot(vm, p) = k => k = NoSlot
        BY <1>4, <4>1 DEF MemInv, Owned
      <4>3. \A p \in Pages : PageSlot(vm', p) = k => k = NoSlot
        BY <2>6, <4>2 DEF PageSlot
      <4> QED
        BY <1>6, <2>1, <2>6, <2>10, <4>2, <4>3 DEF ReadFresh
    <3> QED
      BY <3>2, <3>3 DEF ReadsFresh
  <2> DEFINE c == CellIn(vm, disk, flt, w)
             e == CellIn(vm', disk, flt', w)
  <2>13. Memory!StartRead(c, e)
    <3>1. c = [where |-> "drum", data |-> DiskIn(disk, k), slot |-> k]
      BY <1>3, <2>9 DEF CellIn
    <3>2. ReaderSlot(flt', w) = k
      <4>1. Addr(Home(vm'), a) = w
        BY <1>6, <2>7, <2>10 DEF Sane
      <4> QED
        BY <1>3, <1>6, <2>7, <2>8, <2>10, <4>1, BusyAt
    <3>3. e = [where |-> "reading", data |-> DiskIn(disk, k), slot |-> k]
      BY <2>8, <2>9, <3>2 DEF CellIn
    <3> HIDE DEF c, e
    <3> QED
      BY <3>1, <3>3 DEF Memory!StartRead
  <2>14. Memory!Moves(c, e)
    <3> HIDE DEF c, e
    <3> QED
      BY <2>13 DEF Memory!Moves
  <2>15. Remains(w)
    BY <1>3, <2>9, ResidentPte DEF Remains
  <2>16. MemStep
    <3>1. z \in Pages => z # wr.page \/ ~Clean(vm, z)
      BY <2>5
    <3> QED
      BY <1>1, <1>3, <1>5, <2>1, <2>6, <2>7, <2>11, <2>14, <2>15, <3>1, LeafStep DEF MemInv
  <2>17. Peopled(vm')
    BY <1>3 DEF Peopled
  <2> QED
    BY <2>12, <2>16, <2>17 DEF Obeyed
<1> QED
  BY <1>9, <1>10

(* finish_fault() makes the PTE valid.                                     *)
LEMMA FinishReadMem ==
  ASSUME MemInv, WslInv', NEW f \in Faulters, FinishRead(f)
  PROVE  Obeyed
<1> DEFINE a == flt[f].pte
           p == flt[f].page
           w == flt[f].va
           b == HwPte(p, FALSE)
           t == SetPte(vm, a, b)
           s == WslUnlockEntry(t, LeafKey(w))
           x == [flt[f] EXCEPT !.page = NoPage, !.pte = NullRef, !.slot = NoSlot]
           y == [flt EXCEPT ![f] = x]
<1>1. vm.panic = NoPanic /\ pc[f] = "finish" /\ CommitFault(f, s, x) /\ disk' = disk
  BY DEF FinishRead, Goto
<1>2. /\ vm \in VmStates /\ flt \in [Faulters -> FaultLocals] /\ LocalOK(pc[f], flt[f])
      /\ Walks(vm, pc[f], flt[f]) /\ NoPage \notin Pages /\ Sane(vm, flt)
  BY <1>1, WslFacts, MapFacts, SaneNow DEF MemInv
<1>3. p \in Pages
  BY <1>1, <1>2 DEF LocalOK
<1>4. /\ a \in PteAddr /\ Entry(vm, a).kind = "Busy" /\ Low(vm, a)
      /\ w \in VAddrs /\ w \in VAddr /\ Addr(Home(vm), a) = w
  BY <1>1, <1>2, <1>3, ReaderPte, VmmAssumption DEF Walks
<1>5. x.page = NoPage /\ Commit(s, y, wr, pf)
  BY <1>1, <1>2 DEF FaultLocals, CommitFault
<1> HIDE DEF x
<1>6. y[f] = x /\ \A g \in Faulters \ {f} : y[g] = flt[g]
  BY <1>2
<1> HIDE DEF y
<1>7. b.kind = "Valid" /\ b.page = p /\ b \in Pte /\ LeafKey(w) \in WsKey
  <2>1. FALSE \in BOOLEAN /\ 0 \in Nat \cup {NoSlot}
    OBVIOUS
  <2>2. b \in Pte
    BY ONLY <1>3, <2>1, PteTypes
  <2>3. LeafKey(w) \in WsKey
    BY <1>4 DEF LeafKey, WsKey
  <2> QED
    BY <2>2, <2>3 DEF HwPte
<1>8. Tidied(vm, s, NoPage)
  <2> HIDE DEF a, p, w
  <2> QED
    BY <1>2, <1>3, <1>4, <1>7, FinishTidied
<1>9. ReadFresh(vm, flt[f], pf.bitmap)
  BY DEF MemInv, ReadsFresh
<1>10. vm.data[p] = 0 /\ vm.page[p].drumslot = NoSlot /\ flt[f].page = p /\ flt[f].pte = a
  BY <1>3, <1>9 DEF ReadFresh
<1>11. ReaderSlot(flt, w) = flt[f].slot
  BY <1>2, <1>3, <1>4, BusyAt
<1> HIDE DEF a, p, w, b
<1>12. CASE s.panic # NoPanic
  BY <1>1, <1>5, <1>12, PanicStep
<1>13. CASE s.panic = NoPanic
  <2>1. vm' = s /\ flt' = y /\ pf' = pf
    BY <1>5, <1>13 DEF Commit
  <2>2. t \in VmStates
    BY <1>2, <1>4, <1>7, SetPteType
  <2>3. t.panic = NoPanic /\ Same(t, s)
    <3> HIDE DEF t
    <3> QED
      BY <1>7, <1>13, <2>2, WslEntryEffect
  <2>4. Entered(vm, t, a, b)
    BY <1>2, <1>4, <1>7, <2>3, SetPteEffect
  <2> HIDE DEF t, s
  <2>5. Entered(vm, vm', a, b)
    BY <2>1, <2>3, <2>4 DEF Entered, Same, SameRec, Entry
  <2>6. Entry(vm', a) = b /\ Frozen(vm, vm') /\ Reshaped(vm, vm', NoPage, {a})
    BY <1>2, <1>4, <2>5, PlainReshaped DEF Entered, SameRec, Frozen
  <2>7. /\ Turned(vm, vm', NoPage, {a}) /\ vm'.data[p] = 0 /\ vm'.page[p].drumslot = NoSlot
        /\ \A q \in Pages : vm'.page[q].drumslot \in {vm.page[q].drumslot, NoSlot}
    BY <1>3, <1>8, <1>10, <2>1, <2>6 DEF Turned, SamePages, Tidied
  <2>8. Sane(vm', flt') /\ vm'.panic = NoPanic
    BY <1>13, <2>1, SaneNext
  <2>9. Entry(vm', a).kind = "Valid" /\ Entry(vm', a).page = p
    BY <1>7, <2>6
  <2>10. PteIn(vm, w) = Entry(vm, a) /\ PteIn(vm', w) = Entry(vm', a)
    BY <1>2, <1>4, <2>7, <2>8, <2>9, OwnPte
  <2>11. flt'[f].page \notin Pages /\ \A g \in Faulters \ {f} : flt'[g] = flt[g]
    BY <1>2, <1>5, <1>6, <2>1
  <2>12. Reads(flt, flt', {a})
    BY <1>10, <2>11 DEF Reads
  <2>13. ReadsFresh(vm', flt', pf'.bitmap)
    <3>1. pf.bitmap \subseteq pf'.bitmap /\ SamePages(vm, vm', NoPage)
      BY <2>1, <2>7 DEF Turned
    <3>2. \A g \in Faulters : flt'[g].page \in Pages => flt'[g].pte # a
      BY <2>8, <2>9, ReaderPte
    <3>3. \A g \in Faulters :
            flt'[g].page \in Pages =>
              /\ flt'[g].page = flt[g].page /\ flt'[g].slot = flt[g].slot
              /\ flt'[g].pte \notin {a}
      BY <2>11, <3>2
    <3> QED
      BY <2>6, <2>7, <2>8, <3>1, <3>3, ReadsStayFresh DEF MemInv
  <2> DEFINE c == CellIn(vm, disk, flt, w)
             e == CellIn(vm', disk, flt', w)
  <2>14. Memory!EndRead(c, e)
    <3>1. c.where = "reading"
      BY <1>4, <2>10 DEF CellIn
    <3>2. e = [where |-> "core", data |-> 0, slot |-> NoSlot]
      BY <2>7, <2>9, <2>10 DEF CellIn
    <3> HIDE DEF c, e
    <3> QED
      BY <3>1, <3>2 DEF Memory!EndRead, Memory!Cell, Memory!NoDrumSlot, NoSlot
  <2>15. Memory!Moves(c, e)
    <3> HIDE DEF c, e
    <3> QED
      BY <2>14 DEF Memory!Moves
  <2>16. Remains(w)
    BY <1>4, <2>10, ResidentPte DEF Remains
  <2>17. MemStep
    BY <1>1, <1>2, <1>4, <2>1, <2>7, <2>8, <2>12, <2>15, <2>16, LeafStep DEF MemInv
  <2>18. Peopled(vm')
    BY <1>4 DEF Peopled
  <2> QED
    BY <2>13, <2>17, <2>18 DEF Obeyed
<1> QED
  BY <1>12, <1>13

(* The program reads or writes its memory.                                 *)
LEMMA TranslateMem ==
  ASSUME MemInv, WslInv', NEW f \in Faulters, Translate(f)
  PROVE  Obeyed
<1> DEFINE w == flt[f].va
           a == << LeafTable(w), w[1] >>
           q == vm.table[LeafTable(w)][w[1]].page
<1>1. /\ vm.panic = NoPanic /\ pc[f] = "translate" /\ disk' = disk /\ pf' = pf
      /\ flt' = [flt EXCEPT ![f] = NoFault]
  BY Zenon DEF Translate, Goto
<1>2. /\ vm \in VmStates /\ flt \in [Faulters -> FaultLocals] /\ LocalMap(pc[f], flt[f])
      /\ Walks(vm, pc[f], flt[f]) /\ NoPage \notin Pages /\ Sane(vm, flt)
  BY <1>1, WslFacts, MapFacts, SaneNow DEF MemInv
<1>3. w \in VAddrs /\ w \in VAddr /\ flt[f].page = NoPage
  <2>1. w \in VAddrs
    BY <1>1, <1>2 DEF Walks
  <2>2. flt[f].page = NoPage
    BY <1>1, <1>2 DEF LocalMap
  <2> QED
    BY <2>1, <2>2, VmmAssumption
<1>4. SameReaders(flt, flt')
  BY <1>1, <1>2, <1>3 DEF SameReaders, NoFault
<1>5. CASE flt[f].write /\ MmuHit(w, TRUE)
  <2>1. PICK d \in Data : vm' = [vm EXCEPT !.data[q] = d]
    BY <1>5, Zenon DEF Translate
  <2>2. a \in PteAddr /\ Low(vm, a) /\ Addr(Home(vm), a) = w /\ LeafTable(w) \in Pages
    BY <1>2, <1>3, <1>5, WalkAddr DEF MmuHit, LeafTable, Low, Sane
  <2>3. Entry(vm, a).kind = "Valid" /\ Entry(vm, a).writeable /\ Entry(vm, a).page = q
    BY <1>5, <2>2 DEF MmuHit, Entry
  <2> HIDE DEF a, q, w
  <2>4. q \in Pages /\ vm.page[q].referent = a /\ IsAnon(vm, q) /\ ~Clean(vm, q)
    <3>1. q \in Pages /\ vm.page[q].referent = a /\ IsAnon(vm, q)
      BY <1>2, <2>2, <2>3, LinkedAt
    <3> QED
      BY <2>3, <3>1 DEF Clean
  <2>5. /\ vm'.table = vm.table /\ vm'.page = vm.page /\ vm'.panic = NoPanic /\ vm'.data[q] = d
        /\ \A p \in Pages \ {q} : vm'.data[p] = vm.data[p]
    <3>1. vm.data \in [Pages -> Content]
      BY <1>2 DEF VmStates, Contents
    <3> QED
      BY <1>1, <1>2, <2>1, <2>4, <3>1 DEF VmStates
  <2>6. Entry(vm', a) = Entry(vm, a)
    BY <2>5 DEF Entry
  <2>7. Turned(vm, vm', q, {a})
    <3>1. Frozen(vm, vm')
      BY <2>5 DEF Frozen
    <3>2. Evolved(vm, vm', q, {a})
      BY <2>5 DEF Evolved, Alters, Entry
    <3>3. ~IsTable(vm, q) /\ ~IsTable(vm', q)
      BY <2>4, <2>5 DEF IsTable, IsAnon, TableUses
    <3>4. Reshaped(vm, vm', q, {a})
      BY <2>4, <2>5, <3>2, <3>3 DEF Reshaped
    <3> QED
      BY <2>5, <3>1, <3>4 DEF Turned, SamePages
  <2>8. Sane(vm', flt')
    BY <2>5, SaneNext
  <2>9. Reads(flt, flt', {a}) /\ ReadsFresh(vm', flt', pf'.bitmap)
    <3>1. pf.bitmap \subseteq pf'.bitmap
      BY <1>1
    <3>2. Entry(vm', a).kind # "Busy"
      BY <2>3, <2>6
    <3>3. \A p \in Pages : vm'.page[p].drumslot \in {vm.page[p].drumslot, NoSlot}
      BY <2>5
    <3> QED
      BY <1>2, <1>4, <2>7, <2>8, <3>1, <3>2, <3>3, ReadsGoOn DEF MemInv
  <2>10. PteIn(vm, w) = Entry(vm, a) /\ PteIn(vm', w) = Entry(vm', a)
    BY <1>2, <1>3, <2>2, <2>3, <2>6, <2>7, <2>8, OwnPte DEF w
  <2> DEFINE c == CellIn(vm, disk, flt, w)
             e == CellIn(vm', disk, flt', w)
             k == vm.page[q].drumslot
  <2>11. c = [where |-> "core", data |-> vm.data[q], slot |-> k]
    BY <2>3, <2>10 DEF CellIn
  <2>12. e = [where |-> "core", data |-> d, slot |-> k]
    BY <2>3, <2>5, <2>6, <2>10 DEF CellIn
  <2>13. Memory!Moves(c, e)
    <3> HIDE DEF c, e, k
    <3>1. e = [c EXCEPT !.data = d] /\ c.where = "core"
      BY <2>11, <2>12
    <3>2. Memory!Store(c, e)
      BY <2>1, <3>1 DEF Memory!Store
    <3> QED
      BY <3>2 DEF Memory!Moves
  <2>14. Remains(w)
    <3>1. Frame(vm', w) = Frame(vm, w) \/ ~Resident(vm, w) \/ ~Resident(vm', w)
      BY <2>6, <2>10, ResidentPte
    <3>2. \E g \in Faulters : pc[g] = "translate" /\ flt[g].va = w /\ flt[g].write
      BY <1>1, <1>5 DEF w
    <3> QED
      BY <3>1, <3>2 DEF Remains
  <2>15. MemStep
    <3>1. q \in Pages => q # wr.page \/ ~Clean(vm, q)
      BY <2>4
    <3>2. w \in VAddrs
      BY <1>3 DEF w
    <3> QED
      BY <1>1, <2>2, <2>5, <2>7, <2>9, <2>13, <2>14, <3>1, <3>2, LeafStep
  <2>16. Peopled(vm')
    BY <1>3 DEF Peopled
  <2> QED
    BY <2>9, <2>15, <2>16 DEF Obeyed
<1>6. CASE ~(flt[f].write /\ MmuHit(w, TRUE))
  <2>1. vm' = vm
    BY <1>6, Zenon DEF Translate
  <2> QED
    BY <1>1, <1>4, <2>1, QuietStep
<1> QED
  BY <1>5, <1>6

-----------------------------------------------------------------------------
(* The slot of a cell is in use; if nothing is in core it is no page's.    *)
LEMMA CellSlot ==
  ASSUME MemInv, vm.panic = NoPanic, NEW va \in VAddrs, NEW d
  PROVE  LET c == CellIn(vm, d, flt, va)
         IN  /\ c.slot \in pf.bitmap \cup {NoSlot}
             /\ c.where \in {"drum", "reading"} =>
                  /\ \A p \in Pages : PageSlot(vm, p) = c.slot => c.slot = NoSlot
                  /\ \A k : CellIn(vm, k, flt, va) = [c EXCEPT !.data = DiskIn(k, c.slot)]
             /\ c.where \notin {"drum", "reading"} => \A k : CellIn(vm, k, flt, va) = c
<1> DEFINE c == CellIn(vm, d, flt, va)
           pte == PteIn(vm, va)
           a == << FetchPte(vm, va), va[1] >>
<1>1. Sane(vm, flt) /\ va \in VAddr /\ Owned(vm, pf.bitmap)
  BY SaneNow, VmmAssumption DEF MemInv
<1>2. CASE FetchPte(vm, va) \notin Pages
  BY <1>2 DEF PteIn, ZeroPte, CellIn
<1>3. CASE FetchPte(vm, va) \in Pages
  <2>1. a \in PteAddr /\ Low(vm, a) /\ Addr(Home(vm), a) = va /\ pte = Entry(vm, a)
    BY <1>1, <1>3, WalkAddr DEF Sane, Low, PteIn, Entry
  <2>2. PteSlot(vm, a[1], a[2]) = IF pte.kind = "Swap" THEN pte.slot ELSE NoSlot
    BY <1>3, <2>1 DEF PteSlot, Entry
  <2> HIDE DEF a
  <2>3. pte.kind \in PteKind /\ a[1] \in Pages /\ a[2] \in Idx
    BY <1>1, <2>1, EntryPart DEF Sane
  <2>4. pte.kind \in {"Zero", "Valid", "Trans", "Swap", "Busy"}
    BY <2>3 DEF PteKind
  <2>5. CASE pte.kind = "Zero"
    BY <2>5 DEF CellIn
  <2>6. CASE pte.kind \in {"Valid", "Trans"}
    <3>1. pte.page \in Pages
      BY <1>1, <2>1, <2>6, LinkedAt
    <3>2. vm.page[pte.page].drumslot \in pf.bitmap \cup {NoSlot}
      BY <1>1, <3>1 DEF Owned, PageSlot
    <3> HIDE DEF pte
    <3> QED
      BY <2>6, <3>2 DEF CellIn, pte
  <2>7. CASE pte.kind = "Swap"
    <3> DEFINE k == pte.slot
    <3>1. k \in pf.bitmap \cup {NoSlot} /\ \A p \in Pages : PageSlot(vm, p) = k => k = NoSlot
      BY <1>1, <2>2, <2>3, <2>7 DEF Owned
    <3>2. \A e : CellIn(vm, e, flt, va) =
                   [where |-> "drum", data |-> DiskIn(e, k), slot |-> k]
      BY <2>7 DEF CellIn
    <3> HIDE DEF k, pte
    <3> QED
      BY <3>1, <3>2
  <2>8. CASE pte.kind = "Busy"
    <3> DEFINE k == ReaderSlot(flt, va)
    <3>1. PICK g \in Faulters : flt[g].page \in Pages /\ flt[g].pte = a
      BY <1>1, <2>1, <2>8, BusyAt
    <3>2. k = flt[g].slot
      BY <1>1, <2>1, <2>8, <3>1, BusyAt
    <3>3. ReadFresh(vm, flt[g], pf.bitmap)
      BY DEF MemInv, ReadsFresh
    <3>4. k \in pf.bitmap \cup {NoSlot} /\ \A p \in Pages : PageSlot(vm, p) = k => k = NoSlot
      BY <3>1, <3>2, <3>3 DEF ReadFresh
    <3>5. \A e : CellIn(vm, e, flt, va) =
                   [where |-> "reading", data |-> DiskIn(e, k), slot |-> k]
      BY <2>8 DEF CellIn
    <3> HIDE DEF k, pte
    <3> QED
      BY <3>4, <3>5
  <2> QED
    BY <2>4, <2>5, <2>6, <2>7, <2>8
<1> QED
  BY <1>2, <1>3

(* The page writer writes to the slot of its page, which is no other's.    *)
LEMMA WriterSendMem ==
  ASSUME MemInv, WriterSend
  PROVE  Obeyed
<1> DEFINE p    == wr.page
           slot == wr.slot
<1>1. /\ vm' = vm /\ pf' = pf /\ flt' = flt /\ vm.panic = NoPanic /\ pc["pgwriter"] = "send"
      /\ disk' = IF slot \in Slots THEN [disk EXCEPT ![slot] = vm.data[p]] ELSE disk
  BY DEF WriterSend, Goto
<1>2. disk \in [Slots -> Content] /\ TypeInv /\ NoSlot \notin Slots
  BY DEF MemInv, WslInv, MapInv, TypeInv, TypeOK, NoSlot, Slots
<1>3. p \in Pages
  BY <1>1, <1>2 DEF TypeInv, LocalsOK
<1>4. PageSlot(vm, p) = slot
  BY <1>3 DEF MemInv, CleanBacked, AllBacked, PageSlot
<1> HIDE DEF p, slot
<1>5. \A k : k # slot \/ k = NoSlot => DiskIn(disk', k) = DiskIn(disk, k)
  BY <1>1, <1>2 DEF DiskIn
<1>6. ASSUME NEW va \in VAddrs
      PROVE  CellIn(vm, disk', flt, va) = CellIn(vm, disk, flt, va)
  <2> DEFINE c == CellIn(vm, disk, flt, va)
             e == CellIn(vm, disk', flt, va)
  <2>1. /\ c.where \in {"drum", "reading"} =>
             /\ \A q \in Pages : PageSlot(vm, q) = c.slot => c.slot = NoSlot
             /\ c = [c EXCEPT !.data = DiskIn(disk, c.slot)]
             /\ e = [c EXCEPT !.data = DiskIn(disk', c.slot)]
        /\ c.where \notin {"drum", "reading"} => e = c
    BY <1>1, CellSlot
  <2> HIDE DEF c, e
  <2>2. c.where \in {"drum", "reading"} => DiskIn(disk', c.slot) = DiskIn(disk, c.slot)
    BY <1>3, <1>4, <1>5, <2>1
  <2>3. c = e
    BY <2>1, <2>2
  <2> QED
    BY <2>3 DEF c, e
<1>7. \A va \in VAddrs : Stays(vm, vm', va)
  BY <1>1 DEF Stays
<1>8. MemStep
  BY <1>1, <1>6, <1>7, StillStep DEF CellsNow, CellsNext
<1> QED
  BY <1>1, <1>8 DEF Obeyed, MemInv

(* A page of the process without references is mapped by a transition PTE. *)
LEMMA RestingPte ==
  ASSUME MapInv, NEW p \in Pages, IsAnon(vm, p), vm.page[p].refcnt = 0
  PROVE  LET a == vm.page[p].referent
         IN  a \in PteAddr /\ Entry(vm, a).kind = "Trans" /\ Entry(vm, a).page = p
<1> DEFINE a == vm.page[p].referent
<1>1. /\ vm \in VmStates /\ wr \in WriterLocals /\ Owing(vm, flt, wr) /\ HeldOf(wr) \in Ledger
      /\ Maps(vm, Home(vm), NoPage, BusyOf(flt), WiredOf(flt), WiredOf(flt), HeldOf(wr))
  BY DaemonFacts
<1>2. Home(vm)[p] = a /\ p # NoPage /\ p # Root /\ a \in PteAddr
  <2>1. p # Root
    BY <1>1, UseFacts DEF IsAnon, Maps, Linked
  <2> QED
    BY <1>1, <2>1, PagePart DEF Home, NoPage, Pages
<1>3. Entry(vm, a).kind \notin {"Valid", "Busy"}
  <2>1. HeldOf(wr)[p] = 0
    BY <1>1, HeldRefd
  <2>2. Base(vm, Home(vm), NoPage, p) = 0
    <3>1. vm.page[p].refcnt = HeldOf(wr)[p] + Base(vm, Home(vm), NoPage, p)
      BY <1>1 DEF Maps, Referenced
    <3>2. Base(vm, Home(vm), NoPage, p) \in {0, 1}
      BY DEF Base
    <3> QED
      BY <2>1, <3>1, <3>2
  <2> QED
    BY <1>2, <2>2 DEF Base, Mapped
<1>4. \/ Entry(vm, a).kind \in {"Valid", "Trans"} /\ Entry(vm, a).page = p
      \/ << a, p >> \in BusyOf(flt)
  BY <1>1, <1>2 DEF Maps, Linked, PagesLinked
<1>5. << a, p >> \in BusyOf(flt) => Entry(vm, a).kind = "Busy"
  BY <1>1, <1>2 DEF Maps, Linked, BusyLinked
<1> QED
  BY <1>2, <1>3, <1>4, <1>5

(* The slot cluster_anon() finds for a page is its own, or nobody's.       *)
LEMMA CollectSlot ==
  ASSUME NEW f \in PagefileStates, NEW old \in f.bitmap \cup {NoSlot}
  PROVE  LET isNew == old = NoSlot
             slot  == IF isNew THEN PagefileSlot(f) ELSE old
             g     == IF isNew THEN PagefileAlloc(f) ELSE f
         IN  /\ f.bitmap \subseteq g.bitmap /\ (f.free_slots = 0 => g.free_slots = 0)
             /\ slot # old => old = NoSlot /\ slot \in Slots /\ slot \notin f.bitmap
<1>1. NoSlot \notin f.bitmap /\ NoSlot = -1
  BY PagefileAssumption DEF PagefileStates, Slots, NoSlot
<1>2. CASE old # NoSlot
  BY <1>2
<1>3. CASE old = NoSlot /\ HasSlot(f)
  <2>1. PagefileSlot(f) \in Slots \ f.bitmap
    BY <1>3, PagefileSlotFree
  <2>2. PagefileAlloc(f).bitmap = f.bitmap \cup {PagefileSlot(f)} /\ f.free_slots # 0
    BY <1>3 DEF PagefileAlloc, HasSlot
  <2> QED
    BY <1>3, <2>1, <2>2
<1>4. CASE old = NoSlot /\ ~HasSlot(f)
  BY <1>1, <1>4 DEF PagefileSlot, PagefileAlloc
<1> QED
  BY <1>2, <1>3, <1>4

(* cluster_anon() on page p, whose PTE is a.                               *)
LEMMA CleanTurned ==
  ASSUME NEW s \in VmStates, Good(s, Home(s), {}, NoPage), NEW p \in Pages, IsAnon(s, p),
         NEW slot, CleanPage(s, p, slot).panic = NoPanic
  PROVE  LET t == CleanPage(s, p, slot)
         IN  /\ Turned(s, t, p, {s.page[p].referent}) /\ t.table = s.table
             /\ t.data[p] = s.data[p] /\ t.page[p].drumslot = slot
             /\ \A q \in Pages : IsAnon(t, q) <=> IsAnon(s, q)
<1> DEFINE t == CleanPage(s, p, slot)
           a == s.page[p].referent
<1>1. Frozen(s, t)
  BY CleanGood DEF Sound
<1>2. Refd(s, t, p, 1)
  BY CleanPageEffect
<1>3. /\ t.page[p].drumslot = slot /\ \A q \in Pages : t.data[q] = s.data[q]
      /\ \A q \in Pages \ {p} : t.page[q].drumslot = s.page[q].drumslot
  BY CleanPageTidied
<1> HIDE DEF t
<1>4. /\ t.table = s.table
      /\ \A q \in Pages : t.page[q].use = s.page[q].use /\ t.page[q].referent = s.page[q].referent
  BY <1>2 DEF Refd, SameRec
<1>5. \A q \in Pages : IsAnon(t, q) <=> IsAnon(s, q)
  BY <1>4 DEF IsAnon
<1>6. ~IsTable(s, p) /\ ~IsTable(t, p)
  BY <1>4 DEF IsTable, IsAnon, TableUses
<1>7. Evolved(s, t, p, {a})
  BY <1>4 DEF Evolved, Alters, Entry
<1>8. Reshaped(s, t, p, {a})
  BY <1>4, <1>6, <1>7 DEF Reshaped
<1>9. Turned(s, t, p, {a})
  BY <1>1, <1>3, <1>8 DEF Turned, SamePages
<1> QED
  BY <1>3, <1>4, <1>5, <1>9 DEF t

(* The page writer decides on a page and gives it a slot.                  *)
LEMMA WriterCollectMem ==
  ASSUME MemInv, WslInv', WriterCollect
  PROVE  Obeyed
<1> DEFINE p    == Head(vm.modified)
           old  == vm.page[p].drumslot
           slot == IF old = NoSlot THEN PagefileSlot(pf) ELSE old
           pf1  == IF old = NoSlot THEN PagefileAlloc(pf) ELSE pf
           v    == [wr EXCEPT !.page = p, !.slot = slot]
           s    == CleanPage(vm, p, slot)
           a    == vm.page[p].referent
<1>1. /\ Commit(s, flt, v, pf1) /\ disk' = disk /\ vm.modified # << >> /\ vm.panic = NoPanic
  BY DEF WriterCollect, Goto
<1>2. /\ vm \in VmStates /\ Placed(vm, NoPage) /\ MapInv /\ pf \in PagefileStates
      /\ Good(vm, Home(vm), {}, NoPage) /\ Sane(vm, flt)
  BY <1>1, WslFacts, DaemonFacts, SaneNow DEF MemInv, TypeInv, TypeOK
<1>3. p \in ModifiedSet(vm)
  <2>1. vm.modified \in Seq(Pages)
    BY <1>2, Parts DEF Queue
  <2>2. p = vm.modified[1] /\ 1 \in 1 .. Len(vm.modified)
    BY <1>1, <2>1
  <2> HIDE DEF p
  <2> QED
    BY <1>2, <2>2 DEF Placed, Lists
<1> HIDE DEF p
<1>4. p \in Pages /\ IsAnon(vm, p) /\ vm.page[p].refcnt = 0 /\ vm.page[p].dirty
  BY <1>3 DEF ModifiedSet, IsAnon
<1>5. a \in PteAddr /\ Entry(vm, a).kind = "Trans" /\ Entry(vm, a).page = p
  BY <1>2, <1>4, RestingPte
<1>6. ~Clean(vm, p)
  BY <1>4 DEF Clean
<1>7. /\ pf.bitmap \subseteq pf1.bitmap /\ (pf.free_slots = 0 => pf1.free_slots = 0)
      /\ slot # old => old = NoSlot /\ slot \in Slots /\ slot \notin pf.bitmap
  <2>1. old \in pf.bitmap \cup {NoSlot}
    BY <1>4 DEF MemInv, Owned, PageSlot
  <2> HIDE DEF old
  <2> QED
    BY <1>2, <2>1, CollectSlot
<1>8. s.panic = NoPanic =>
        /\ Turned(vm, s, p, {a}) /\ s.table = vm.table
        /\ s.data[p] = vm.data[p] /\ s.page[p].drumslot = slot
        /\ \A q \in Pages : IsAnon(s, q) <=> IsAnon(vm, q)
  BY <1>2, <1>4, CleanTurned
<1> HIDE DEF a, v, pf1, s, slot, old
<1>9. CASE s.panic # NoPanic
  BY <1>1, <1>9, PanicStep
<1>10. CASE s.panic = NoPanic
  <2>1. vm' = s /\ flt' = flt /\ pf' = pf1
    BY <1>1, <1>10 DEF Commit
  <2>2. /\ Turned(vm, vm', p, {a}) /\ vm'.table = vm.table /\ vm'.panic = NoPanic
        /\ vm'.data[p] = vm.data[p] /\ vm'.page[p].drumslot = slot
        /\ \A q \in Pages : IsAnon(vm', q) <=> IsAnon(vm, q)
    BY <1>8, <1>10, <2>1
  <2>3. Sane(vm', flt') /\ Entry(vm', a) = Entry(vm, a)
    BY <2>2, SaneNext DEF Entry
  <2>4. Reads(flt, flt', {a})
    BY <2>1 DEF Reads
  <2>5. ReadsFresh(vm', flt', pf'.bitmap)
    <3> SUFFICES ASSUME NEW g \in Faulters, flt[g].page \in Pages
                 PROVE  /\ vm'.data[flt[g].page] = 0 /\ vm'.page[flt[g].page].drumslot = NoSlot
                        /\ flt[g].slot \in pf'.bitmap \cup {NoSlot}
                        /\ \A q \in Pages : PageSlot(vm', q) = flt[g].slot => flt[g].slot = NoSlot
      BY <2>1 DEF ReadsFresh, ReadFresh
    <3> DEFINE r == flt[g].page
               k == flt[g].slot
    <3>1. ReadFresh(vm, flt[g], pf.bitmap)
      BY DEF MemInv, ReadsFresh
    <3>2. /\ vm.data[r] = 0 /\ vm.page[r].drumslot = NoSlot /\ k \in pf.bitmap \cup {NoSlot}
          /\ \A q \in Pages : PageSlot(vm, q) = k => k = NoSlot
      BY <3>1 DEF ReadFresh
    <3>3. r # p
      <4>1. vm.page[r].referent = flt[g].pte /\ Entry(vm, flt[g].pte).kind = "Busy"
        BY <1>2, ReaderPte
      <4> QED
        BY <1>5, <4>1 DEF a
    <3>4. vm'.data[r] = 0 /\ vm'.page[r].drumslot = NoSlot
      BY <2>2, <3>2, <3>3 DEF Turned, SamePages
    <3>5. ASSUME NEW q \in Pages, PageSlot(vm', q) = k PROVE k = NoSlot
      <4>1. CASE q # p
        BY <2>2, <3>2, <3>5, <4>1 DEF Turned, SamePages, PageSlot
      <4>2. CASE q = p
        <5>1. k = slot
          BY <2>2, <3>5, <4>2 DEF PageSlot
        <5>2. CASE slot = old
          BY <1>4, <3>2, <5>1, <5>2 DEF PageSlot, old
        <5>3. CASE slot # old
          BY <1>7, <3>2, <5>1, <5>3
        <5> QED
          BY <5>2, <5>3
      <4> QED
        BY <4>1, <4>2
    <3>6. k \in pf'.bitmap \cup {NoSlot}
      BY <1>7, <2>1, <3>2
    <3> QED
      BY <3>4, <3>5, <3>6
  <2>6. Peopled(vm')
    BY <2>2 DEF MemInv, Peopled
  <2>7. p \in Pages => p # wr.page \/ ~Clean(vm, p)
    BY <1>6
  <2>8. ASSUME NEW w \in VAddrs, Low(vm, a), Addr(Home(vm), a) = w PROVE MemStep
    <3> DEFINE c == CellIn(vm, disk, flt, w)
               e == CellIn(vm', disk, flt', w)
    <3>1. PteIn(vm, w) = Entry(vm, a) /\ PteIn(vm', w) = Entry(vm', a)
      <4>1. w \in VAddr /\ Entry(vm', a).kind \in {"Valid", "Trans", "Busy"}
        BY <1>5, <2>3, VmmAssumption
      <4> QED
        BY <1>2, <1>5, <2>2, <2>3, <2>8, <4>1, OwnPte
    <3>2. c = [where |-> "core", data |-> vm.data[p], slot |-> old]
      BY <1>5, <3>1 DEF CellIn, old
    <3>3. e = [where |-> "core", data |-> vm.data[p], slot |-> slot]
      BY <1>5, <2>2, <2>3, <3>1 DEF CellIn
    <3>4. Remains(w)
      <4>1. \/ Frame(vm, w) = p /\ Frame(vm', w) = p
            \/ ~Resident(vm, w)
            \/ ~Resident(vm', w)
        BY <1>5, <2>3, <3>1, ResidentPte
      <4> QED
        BY <2>2, <4>1 DEF Remains
    <3> HIDE DEF c, e
    <3>5. ASSUME slot # old PROVE Memory!Moves(c, e)
      <4>1. old = NoSlot /\ slot \in Slots /\ slot \notin pf.bitmap /\ NoSlot \notin Slots
        BY <1>7, <3>5 DEF NoSlot, Slots
      <4>2. ASSUME NEW b \in VAddrs
            PROVE  [va \in VAddrs |-> CellOf(va)][b].slot # slot
        <5>1. CellIn(vm, disk, flt, b).slot \in pf.bitmap \cup {NoSlot}
          BY <1>1, CellSlot
        <5> QED
          BY <4>1, <5>1, CellsAre
      <4>3. c.where = "core" /\ c.slot = Memory!NoDrumSlot /\ e = [c EXCEPT !.slot = slot]
        BY <3>2, <3>3, <4>1 DEF Memory!NoDrumSlot, NoSlot
      <4>4. Memory!GiveSlot(c, e)
        BY <4>1, <4>2, <4>3 DEF Memory!GiveSlot
      <4> QED
        BY <4>4 DEF Memory!Moves
    <3>6. c = e \/ Memory!Moves(c, e)
      BY <3>2, <3>3, <3>5
    <3> QED
      BY <1>1, <1>5, <1>7, <2>1, <2>2, <2>4, <2>7, <2>8, <3>4, <3>6, LeafStep DEF c, e
  <2>9. ASSUME \A va \in VAddrs : Elsewhere(vm, {a}, va) PROVE MemStep
    <3>1. \A va \in VAddrs : Spared(vm, vm', flt, flt', disk, pf.free_slots = 0, p, va)
      BY <1>1, <2>2, <2>4, <2>7, <2>9, StepSpares
    <3>2. PICK w \in VAddrs : TRUE
      BY <1>4 DEF MemInv, Peopled
    <3>3. CellIn(vm', disk, flt', w) = CellIn(vm, disk, flt, w)
      BY <1>6, <3>1 DEF Spared
    <3>4. Remains(w)
      BY <3>1, StaysRemains DEF Spared
    <3> QED
      BY <1>1, <1>7, <2>1, <3>1, <3>3, <3>4, OneMoves
  <2>10. MemStep
    BY <2>8, <2>9 DEF Elsewhere
  <2> QED
    BY <2>5, <2>6, <2>10 DEF Obeyed
<1> QED
  BY <1>9, <1>10

-----------------------------------------------------------------------------
(* Nothing happens after a failed assertion.                               *)
LEMMA RestMem ==
  ASSUME MemInv, UNCHANGED vars
  PROVE  Obeyed
<1>1. vm' = vm /\ flt' = flt /\ disk' = disk /\ pf' = pf
  BY DEF vars
<1>2. MemStep
  BY <1>1, StillStep DEF CellsNow, CellsNext, Stays
<1> QED
  BY <1>1, <1>2 DEF Obeyed, MemInv

(* Every step of the simulator obeys.                                      *)
LEMMA NextObeys ==
  ASSUME MemInv, WslInv', [Next]_vars
  PROVE  Obeyed
<1>1. CASE UNCHANGED vars \/ Halted
  BY <1>1, RestMem DEF Halted
<1>2. ASSUME NEW f \in Faulters, FaulterStep(f) PROVE Obeyed
  BY <1>2, PassMem, TranslateMem, WireRootMem, WireLevelMem, IdleLeafMem, MakeWriteableMem,
     FillLeafMem, SwapFaultMem, UnwireMem, FinishReadMem, Zenon DEF FaulterStep
<1>3. ASSUME NEW f \in Faulters, \E va \in VAddrs, write \in Writes : Pick(f, va, write)
      PROVE  Obeyed
  BY <1>3, PassMem, Zenon
<1>4. CASE WriterStep
  BY <1>4, WriterCollectMem, IdleDaemonMem, WriterSendMem, WriterReleaseMem, Zenon DEF WriterStep
<1>5. CASE BalancerStep
  BY <1>5, IdleDaemonMem, BalancerTrimMem, Zenon DEF BalancerStep
<1> QED
  BY <1>1, <1>2, <1>3, <1>4, <1>5, Zenon DEF Next

(* So the invariant is kept, and the step is one of UserMemory.            *)
LEMMA NextMem == MemInv /\ [Next]_vars => MemStep /\ MemInv'
<1> SUFFICES ASSUME MemInv, [Next]_vars PROVE MemStep /\ MemInv'
  OBVIOUS
<1>1. WslInv /\ MapInv /\ TypeInv /\ SlotCountExact /\ Owned(vm, pf.bitmap) /\ CleanBacked
  BY DEF MemInv, WslInv, MapInv
<1>2. WslInv'
  BY <1>1, NextWsl
<1>3. SlotCountExact'
  BY <1>1, NextSlotCount
<1>4. Owned(vm, pf.bitmap)'
  BY <1>1, NextOwned
<1>5. CleanBacked'
  BY <1>1, NextBacked
<1>6. Obeyed
  BY <1>2, NextObeys
<1>7. ReadsFresh(vm, flt, pf.bitmap)'
  BY <1>6 DEF Obeyed, ReadsFresh, ReadFresh, PageSlot
<1>8. Peopled(vm)'
  BY <1>6 DEF Obeyed, Peopled, IsAnon
<1> QED
  BY <1>2, <1>3, <1>4, <1>5, <1>6, <1>7, <1>8 DEF MemInv, Obeyed

(* In the beginning no address has a page, and the drum is empty.          *)
LEMMA InitMem == Init => MemInv /\ Memory!MemInit
<1> SUFFICES ASSUME Init PROVE MemInv /\ Memory!MemInit
  OBVIOUS
<1>1. vm = VmInit /\ pf = PagefileInit /\ \A g \in Faulters : flt[g] = NoFault
  BY DEF Init
<1>2. NoPage \notin Pages
  BY DEF NoPage, Pages
<1>3. \A p \in Pages : ~IsAnon(vm, p)
  <2>1. Levels \in {2, 3, 4}
    BY VmAssumption
  <2>2. TableUse[Levels] # "AnonPrivate"
    BY <2>1 DEF TableUse
  <2> QED
    BY <1>1, <2>2 DEF VmInit, IsAnon
<1>4. ReadsFresh(vm, flt, pf.bitmap)
  BY <1>1, <1>2 DEF ReadsFresh, ReadFresh, NoFault
<1>5. Peopled(vm)
  BY <1>3 DEF Peopled
<1>6. MemInv
  <2>1. WslInv /\ SlotCountExact /\ Owned(vm, pf.bitmap) /\ CleanBacked
    BY InitWsl, InitSlotCount, InitOwned, InitBacked
  <2> QED
    BY <1>4, <1>5, <2>1 DEF MemInv
<1>7. ASSUME NEW va \in VAddrs PROVE CellOf(va) = Memory!Nowhere
  <2>1. va[1] \in Idx
    <3>1. va \in VAddr /\ 1 \in 1 .. Levels
      BY VmmAssumption, VmAssumption
    <3> QED
      BY <3>1 DEF VAddr
  <2>2. \A p \in Pages : vm.table[p][va[1]] = ZeroPte
    BY <1>1, <2>1 DEF VmInit
  <2>3. PteOf(va).kind = "Zero"
    BY <2>2 DEF PteOf, ZeroPte
  <2> QED
    BY <2>3 DEF CellOf, Memory!Nowhere, Memory!Cell, Memory!NoDrumSlot, NoSlot
<1>8. pf.free_slots # 0
  BY <1>1, PagefileAssumption DEF PagefileInit
<1> QED
  BY <1>6, <1>7, <1>8 DEF Memory!MemInit

(* In every behaviour of the simulator, for any number of pages, slots and *)
(* threads, each address of the process holds what was last stored to it,  *)
(* except for the three losses UserMemory names, however its page is       *)
(* evicted, cleaned, written out, stolen and read back.                    *)
THEOREM ContentsAreKept == Spec => KeepsMemory
<1>1. MemStep => [Memory!MemNext]_(Memory!memVars)
  BY DEF MemStep
<1>2. Init /\ [][Next]_vars => Memory!MemSpec
  BY <1>1, InitMem, NextMem, PTL DEF Memory!MemSpec
<1> QED
  BY <1>2, PTL DEF Spec, KeepsMemory

(* An address that stays resident stays in its page, and only a store to   *)
(* it changes what the page holds, in every step of every behaviour.       *)
THEOREM ResidentContentsKept == Spec => ResidentKeepsData
<1> DEFINE SameThere == \A va \in VAddrs : Remains(va)
<1>1. MemStep => SameThere
  BY DEF MemStep
<1>2. Init /\ [][Next]_vars => [][SameThere]_vars
  BY <1>1, InitMem, NextMem, PTL
<1> QED
  BY <1>2, PTL DEF Spec, ResidentKeepsData, Remains
=============================================================================
