---------------------------- MODULE PanicProofs ----------------------------
(***************************************************************************)
(* Which assertions can fail: of all the kassert() and kfatal() of the     *)
(* code only the five that OnlyKnownPanics names, whatever the number of   *)
(* pages, page tables, addresses and threads.  Each lemma says of one C    *)
(* function, called where the code calls it, that it passes its            *)
(* assertions, or fails one of the five.                                   *)
(***************************************************************************)
EXTENDS WslProofs

Known(s) == s.panic \in ReachablePanics \cup {NoPanic}

(* An assertion that holds, or may fail.                                   *)
LEMMA KassertKnown ==
  ASSUME NEW s \in VmStates, NEW ok \in BOOLEAN, NEW site, NEW t, s.panic = NoPanic,
         ok \/ site \in ReachablePanics, ok => Known(t)
  PROVE  Known(Kassert(s, ok, site, t))
<1>1. CASE ok
  BY <1>1 DEF Kassert, Then
<1>2. CASE ~ok
  BY <1>2, PanicSeen DEF Kassert, Then, Known
<1> QED
  BY <1>1, <1>2

(* vmp_page_retain_locked() of a page that has a reference, or is on the   *)
(* queue its dirty bit names.                                              *)
LEMMA RetainPasses ==
  ASSUME NEW s \in VmStates, NEW p \in Pages, s.panic = NoPanic,
         s.page[p].refcnt > 0 \/ (s.page[p].use = "AnonPrivate" /\ Placed(s, NoPage))
  PROVE  PageRetain(s, p).panic = NoPanic
<1> DEFINE t == [s EXCEPT !.page[p].refcnt = @ + 1]
           m == [t EXCEPT !.modified = Unlink(@, p),
                          !.stat.nmodified = @ - 1, !.stat.nactive = @ + 1]
           b == [t EXCEPT !.standby = Unlink(@, p),
                          !.stat.nstandby = @ - 1, !.stat.nactive = @ + 1]
<1>1. t.panic = NoPanic /\ m.panic = NoPanic /\ b.panic = NoPanic
  BY DEF VmStates
<1>2. s.page[p].refcnt \in Nat /\ s.page[p].dirty \in BOOLEAN
  BY PagePart
<1>3. CASE s.page[p].refcnt # 0
  <2>1. PageRetain(s, p) = t
    BY <1>3 DEF PageRetain, Then
  <2> QED
    BY <1>1, <2>1
<1>4. CASE s.page[p].refcnt = 0
  <2>1. s.page[p].use = "AnonPrivate" /\ Placed(s, NoPage)
    BY <1>2, <1>4
  <2>2. p # NoPage
    BY DEF NoPage, Pages
  <2>3. s.page[p].dirty => Contains(s.modified, p)
    BY <1>4, <2>1 DEF Placed, Lists, ModifiedSet, Contains
  <2>4. ~s.page[p].dirty => Contains(s.standby, p)
    BY <1>4, <2>1, <2>2 DEF Placed, Lists, StandbySet, Contains
  <2>5. PageRetain(s, p) = IF s.page[p].dirty THEN m ELSE b
    BY <1>4, <2>1, <2>3, <2>4, Zenon DEF PageRetain, Kassert, Then, m, b, t
  <2> QED
    BY <1>1, <2>5
<1> QED
  BY <1>3, <1>4

(* An anonymous or deleted page goes to a queue.                           *)
LEMMA RequeuePasses ==
  ASSUME NEW s \in VmStates, NEW p \in Pages, s.panic = NoPanic,
         s.page[p].use \in {"AnonPrivate", "Deleted"}
  PROVE  Requeue(s, p).panic = NoPanic
<1> DEFINE t == [s EXCEPT !.stat.nactive = @ - 1]
           f == [t EXCEPT !.free = << p >> \o @, !.stat.nfree = @ + 1,
                          !.page[p].use = "Free"]
           m == [t EXCEPT !.modified = Append(@, p), !.stat.nmodified = @ + 1]
           b == [t EXCEPT !.standby = Append(@, p), !.stat.nstandby = @ + 1]
           c == IF s.page[p].dirty THEN m ELSE b
<1>1. t \in VmStates /\ t.panic = NoPanic
  <2>1. s.stat.nactive - 1 \in Int
    BY StatsPart
  <2>2. [s.stat EXCEPT !.nactive = @ - 1] \in Stats
    BY <2>1, Parts, StatsUpdate, ZenonT(60)
  <2> QED
    BY <2>2 DEF VmStates
<1> HIDE DEF t
<1>2. f.panic = NoPanic /\ m.panic = NoPanic /\ b.panic = NoPanic
  BY <1>1 DEF VmStates
<1>3. m \in VmStates /\ b \in VmStates
  <2>1. t.stat.nmodified + 1 \in Int /\ t.stat.nstandby + 1 \in Int
    BY <1>1, StatsPart
  <2>2. /\ [t.stat EXCEPT !.nmodified = @ + 1] \in Stats
        /\ [t.stat EXCEPT !.nstandby = @ + 1] \in Stats
    BY <1>1, <2>1, Parts, StatsUpdate, Zenon
  <2>3. Append(t.modified, p) \in Queue /\ Append(t.standby, p) \in Queue
    BY <1>1, Parts DEF Queue
  <2> QED
    BY <1>1, <2>2, <2>3 DEF VmStates
<1> HIDE DEF f, m, b
<1>4. AnnounceSufficience(CheckShortage(c)).panic = NoPanic
  <2>1. c \in VmStates /\ c.panic = NoPanic
    BY <1>2, <1>3
  <2> HIDE DEF c
  <2>2. CheckShortage(c) \in VmStates
    BY <2>1, CheckShortageType
  <2> QED
    BY <2>1, <2>2, ShortageQueues
<1>5. CASE s.page[p].use = "Deleted"
  <2>1. Requeue(s, p) = f
    BY <1>5, Zenon DEF Requeue, f, t
  <2> QED
    BY <1>2, <2>1
<1>6. CASE s.page[p].use = "AnonPrivate"
  <2>1. s.page[p].use # "Deleted"
    BY <1>6
  <2>2. Requeue(s, p) = AnnounceSufficience(CheckShortage(c))
    BY <1>6, <2>1, Zenon DEF Requeue, c, m, b, t
  <2> QED
    BY <1>4, <2>2
<1> QED
  BY <1>5, <1>6

(* vmp_page_release_locked() of a page that has a reference and, if it is  *)
(* the last one, is anonymous or deleted.                                  *)
LEMMA ReleasePasses ==
  ASSUME NEW s \in VmStates, NEW p \in Pages, s.panic = NoPanic,
         s.page[p].refcnt > 0, s.page[p].use # "Free",
         s.page[p].refcnt = 1 => s.page[p].use \in {"AnonPrivate", "Deleted"}
  PROVE  PageRelease(s, p).panic = NoPanic
<1> DEFINE t == [s EXCEPT !.page[p].refcnt = @ - 1]
<1>1. t \in VmStates /\ t.panic = NoPanic /\ t.page[p].use = s.page[p].use
      /\ t.page[p].refcnt = s.page[p].refcnt - 1
  <2>1. s.page[p].refcnt \in Nat /\ s.page[p].refcnt - 1 \in Nat
    BY PagePart
  <2> DEFINE n == s.page[p].refcnt - 1
  <2>2. t = [s EXCEPT !.page[p].refcnt = n]
    OBVIOUS
  <2> HIDE DEF n, t
  <2>3. t \in VmStates
    BY <2>1, <2>2, SetFieldType DEF n
  <2>4. t.panic = s.panic /\ t.page[p].use = s.page[p].use /\ t.page[p].refcnt = n
    BY <2>1, <2>2, RefcntSet DEF n
  <2> QED
    BY <2>3, <2>4 DEF n
<1>2. PageRelease(s, p) = IF t.page[p].refcnt = 0 THEN Requeue(t, p) ELSE t
  BY Zenon DEF PageRelease, Kassert, Then
<1> HIDE DEF t
<1>3. ASSUME t.page[p].refcnt = 0 PROVE Requeue(t, p).panic = NoPanic
  <2>1. s.page[p].refcnt \in Nat
    BY PagePart
  <2>2. t.page[p].use \in {"AnonPrivate", "Deleted"}
    BY <1>1, <1>3, <2>1
  <2> QED
    BY <1>1, <2>2, RequeuePasses
<1> QED
  BY <1>1, <1>2, <1>3

-----------------------------------------------------------------------------
(* An entry that is queued can be locked and removed, and one that is not  *)
(* can be unlocked.                                                        *)
LEMMA EntryPasses ==
  ASSUME NEW s \in VmStates, s.panic = NoPanic, NEW T, NEW E, WslIs(s, T, E), NEW k
  PROVE  /\ k \in E => /\ WslLockEntry(s, k).panic = NoPanic
                       /\ WslRemove(s, k).panic = NoPanic
         /\ k \in T \ E => WslUnlockEntry(s, k).panic = NoPanic
<1> DEFINE a == [s EXCEPT !.wsl.queue = Unlink(@, k), !.wsl.nlocked = @ + 1]
           b == [s EXCEPT !.wsl.tree = @ \ {k}, !.wsl.queue = Unlink(@, k)]
           c == [s EXCEPT !.wsl.queue = Append(@, k), !.wsl.nlocked = @ - 1]
<1>1. a.panic = NoPanic /\ b.panic = NoPanic /\ c.panic = NoPanic
  BY DEF VmStates
<1>2. /\ T = s.wsl.tree /\ E \subseteq T
      /\ k \in E <=> Contains(s.wsl.queue, k)
  BY DEF WslIs, Lists, Contains
<1>3. ASSUME k \in E
      PROVE  WslLockEntry(s, k) = a /\ WslRemove(s, k) = b
  BY <1>2, <1>3, Zenon DEF WslLockEntry, WslRemove, Kassert, Then, a, b
<1>4. ASSUME k \in T \ E
      PROVE  WslUnlockEntry(s, k) = c
  <2>1. k \in s.wsl.tree /\ ~Contains(s.wsl.queue, k)
    BY <1>2, <1>4
  <2> QED
    BY <2>1, Zenon DEF WslUnlockEntry, Kassert, Then, c
<1> QED
  BY <1>1, <1>3, <1>4

(* The entry of a table is queued when the table has no nonswap PTE.       *)
LEMMA TableEntry ==
  ASSUME NEW s \in VmStates, NEW home, NEW N, NEW x, Good(s, home, N, x),
         NEW q \in Tabs(s, x), NEW t \in VmStates, t.wsl = s.wsl, t.panic = NoPanic
  PROVE  IF s.page[q].nonswap = 0
         THEN /\ WslLockEntry(t, TableKey(q)).panic = NoPanic
              /\ WslRemove(t, TableKey(q)).panic = NoPanic
         ELSE WslUnlockEntry(t, TableKey(q)).panic = NoPanic
<1> DEFINE T == Keys(home, Leaves(s) \ N) \cup TKeys(Tabs(s, x))
           E == Keys(home, Valids(s) \ N) \cup TKeys(Spare(s, x))
<1>1. WslIs(t, T, E)
  BY DEF Good, Held, WslIs
<1>2. TableKey(q) \in T
  BY KeyKinds
<1>3. TableKey(q) \in E <=> s.page[q].nonswap = 0
  BY KeyKinds DEF Spare
<1> HIDE DEF T, E
<1> QED
  BY <1>1, <1>2, <1>3, EntryPasses

(* vmp_pagetable_page_nonswap_pte_created() of a table in core.            *)
LEMMA CreatedPasses ==
  ASSUME NEW s \in VmStates, NEW p \in Pages, NEW isNew \in BOOLEAN, s.panic = NoPanic,
         s.page[p].refcnt > 0, IsTable(s, p), IsRootTable(s, p) <=> p = Root,
         NEW home, NEW N, NEW x, p # x, Good(s, home, N, x)
  PROVE  NonswapPteCreated(s, p, isNew).panic = NoPanic
<1> DEFINE r == PageRetain(s, p)
           a == IF isNew THEN r.page[p].nonzero + 1 ELSE r.page[p].nonzero
           b == r.page[p].nonswap + 1
           t == [r EXCEPT !.page[p].nonzero = a, !.page[p].nonswap = b]
           w == WslLockEntry(t, TableKey(p))
           u == IF r.page[p].nonswap = 0 /\ ~IsRootTable(r, p) THEN w ELSE t
<1>1. r \in VmStates /\ r.wsl = s.wsl /\ r.panic = NoPanic
  BY PageRetainType, WslKept, RetainPasses
<1>2. NonswapPteCreated(s, p, isNew) = Then(r, u)
  BY DEF NonswapPteCreated
<1>3. r.page[p].nonswap = s.page[p].nonswap /\ r.page[p].use = s.page[p].use
  BY <1>1, PageRetainEffect DEF Refd
<1> HIDE DEF r
<1>4. a \in Int /\ b \in Int
  BY <1>1, PagePart, SMTT(60)
<1>5. t \in VmStates /\ t.wsl = r.wsl /\ t.panic = r.panic
  <2> HIDE DEF a, b
  <2>1. r.page[p].use \in PageUse /\ r.page[p].referent \in PteAddr
    BY <1>1, PagePart
  <2>2. t.wsl = r.wsl /\ t.panic = r.panic
    BY <1>1 DEF VmStates
  <2> QED
    BY <1>1, <1>4, <2>1, <2>2, TwoFieldsType, Zenon
<1> HIDE DEF t, a, b
<1>6. u = IF s.page[p].nonswap = 0 /\ p # Root THEN w ELSE t
  BY <1>3 DEF IsRootTable
<1>7. s.page[p].nonswap = 0 /\ p # Root => w.panic = NoPanic
  BY <1>1, <1>5, TableEntry DEF Tabs
<1> HIDE DEF u, w
<1> QED
  BY <1>1, <1>2, <1>5, <1>6, <1>7 DEF Then

(* The table's last nonswap PTE goes: its entry was locked.                *)
LEMMA GonePasses ==
  ASSUME NEW s \in VmStates, NEW p \in Pages, s.panic = NoPanic,
         s.page[p].nonswap >= 1, IsTable(s, p), IsRootTable(s, p) <=> p = Root,
         NEW home, NEW N, NEW x, p # x, Good(s, home, N, x)
  PROVE  NonswapPteGone(s, p).panic = NoPanic
<1> DEFINE t == [s EXCEPT !.page[p].nonswap = @ - 1]
           w == WslUnlockEntry(t, TableKey(p))
           u == IF s.page[p].nonswap = 1 /\ ~IsRootTable(s, p) THEN w ELSE t
<1>1. t \in VmStates /\ t.wsl = s.wsl /\ t.panic = s.panic
  <2>1. s.page[p].nonswap - 1 \in Int
    BY PagePart
  <2>2. t.wsl = s.wsl /\ t.panic = s.panic
    BY DEF VmStates
  <2> QED
    BY <2>1, <2>2, SetFieldType
<1>2. NonswapPteGone(s, p) = Then(s, u)
  BY DEF NonswapPteGone
<1> HIDE DEF t
<1>3. p # Root => w.panic = NoPanic
  <2>1. s.page[p].nonswap # 0
    BY PagePart
  <2> QED
    BY <1>1, <2>1, TableEntry DEF Tabs
<1> HIDE DEF w
<1> QED
  BY <1>1, <1>2, <1>3 DEF Then

(* vmp_pagetable_page_pte_became_swap() of a table that keeps a reference. *)
LEMMA BecameSwapPasses ==
  ASSUME NEW s \in VmStates, NEW p \in Pages, s.panic = NoPanic, s.page[p].refcnt >= 2,
         s.page[p].nonswap >= 1, IsTable(s, p), IsRootTable(s, p) <=> p = Root,
         NEW home, NEW N, NEW x, p # x, Good(s, home, N, x)
  PROVE  PteBecameSwap(s, p).panic = NoPanic
<1> DEFINE g == NonswapPteGone(s, p)
<1>1. g \in VmStates /\ g.panic = NoPanic
  BY NonswapPteGoneType, GonePasses
<1>2. Adjusted(s, g, p, 0, 0, -1)
  BY <1>1, NonswapPteGoneEffect
<1>3. PteBecameSwap(s, p) = PageRelease(g, p)
  BY DEF PteBecameSwap
<1> HIDE DEF g
<1>4. g.page[p].use = s.page[p].use /\ g.page[p].refcnt = s.page[p].refcnt
  BY <1>2, PagePart DEF Adjusted
<1>5. g.page[p].use # "Free" /\ g.page[p].refcnt > 0 /\ g.page[p].refcnt # 1
  BY <1>4, PagePart DEF IsTable, TableUses
<1> QED
  BY <1>1, <1>3, <1>5, ReleasePasses

(* vmp_pagetable_page_pte_deleted() of a PTE that is not the last one.     *)
LEMMA UncountedPasses ==
  ASSUME NEW s \in VmStates, NEW p \in Pages, s.panic = NoPanic, s.page[p].refcnt >= 2,
         s.page[p].nonswap >= 1, IsTable(s, p), IsRootTable(s, p) <=> p = Root,
         NEW home, NEW N, NEW x, p # x, Good(s, home, N, x)
  PROVE  PteUncounted(s, p).panic = NoPanic
<1> DEFINE t == [s EXCEPT !.page[p].nonzero = @ - 1]
<1>1. t \in VmStates
  BY NonzeroLowered
<1>2. Adjusted(s, t, p, 0, -1, 0) /\ t.wsl = s.wsl /\ t.panic = s.panic
  BY PagePart DEF VmStates, PageDb, PageRec, SameRec, Adjusted
<1>3. PteUncounted(s, p) = PteBecameSwap(t, p)
  BY DEF PteUncounted, PteBecameSwap
<1> HIDE DEF t
<1>4. /\ t.page[p].use = s.page[p].use /\ t.page[p].nonswap = s.page[p].nonswap
      /\ t.page[p].refcnt = s.page[p].refcnt
  BY <1>2, PagePart DEF Adjusted
<1>5. IsTable(t, p) /\ (IsRootTable(t, p) <=> p = Root)
  BY <1>4 DEF IsTable, IsRootTable
<1>6. Good(t, home, N, x)
  BY <1>2, AdjustedSpare, GoodKept
<1> QED
  BY <1>1, <1>2, <1>3, <1>4, <1>5, <1>6, BecameSwapPasses

-----------------------------------------------------------------------------
(* The pages the list offers for eviction: each is anonymous and has the   *)
(* reference its entry holds.                                              *)
Evictable(s, N) ==
  \A a \in PteAddr \ N :
    Entry(s, a).kind = "Valid" /\ s.page[a[1]].use = "PML1" =>
      /\ IsAnon(s, Entry(s, a).page)
      /\ s.page[Entry(s, a).page].refcnt > 0

(* They are when the tables and the pages name one another.                *)
LEMMA MapsEvictable ==
  ASSUME NEW s \in VmStates, NEW home \in [Pages -> PteAddr], NEW hole, NEW busy,
         NEW pins, NEW uses, NEW refs \in Ledger, \A q \in Pages : refs[q] >= 0,
         Maps(s, home, hole, busy, pins, uses, refs)
  PROVE  \A N : Evictable(s, N)
<1> SUFFICES ASSUME NEW a \in PteAddr, Entry(s, a).kind = "Valid", s.page[a[1]].use = "PML1"
             PROVE  /\ IsAnon(s, Entry(s, a).page)
                    /\ s.page[Entry(s, a).page].refcnt > 0
  BY DEF Evictable
<1> DEFINE q == Entry(s, a).page
<1>1. q \in Pages
  BY EntryPart
<1>2. PtesLinked(s, home, hole) /\ Referenced(s, home, hole, refs)
  BY DEF Maps, Linked
<1>3. q # hole /\ home[q] = a /\ s.page[q].use = Below("PML1")
  BY <1>2 DEF PtesLinked
<1> HIDE DEF q
<1>4. IsAnon(s, q)
  BY <1>3 DEF Below, IsAnon
<1>5. Mapped(s, home, hole, q)
  BY <1>3 DEF Mapped
<1>6. s.page[q].refcnt = refs[q] + 1
  BY <1>1, <1>2, <1>4, <1>5 DEF Referenced, Base
<1>7. refs[q] \in Int /\ refs[q] >= 0
  BY <1>1 DEF Ledger
<1>8. s.page[q].refcnt > 0
  BY <1>6, <1>7
<1> QED
  BY <1>4, <1>8 DEF q

(* They stay so while their PTEs and their references do.                  *)
LEMMA EvictableKept ==
  ASSUME NEW s \in VmStates, NEW t, NEW N, NEW M, N \subseteq M, Evictable(s, N),
         \A q \in Pages : t.page[q].use = s.page[q].use,
         \A q \in Pages : IsAnon(s, q) /\ s.page[q].refcnt > 0 => t.page[q].refcnt > 0,
         \A a \in PteAddr \ M : Entry(t, a) = Entry(s, a)
  PROVE  Evictable(t, M)
<1> SUFFICES ASSUME NEW a \in PteAddr \ M, Entry(t, a).kind = "Valid", t.page[a[1]].use = "PML1"
             PROVE  /\ IsAnon(t, Entry(t, a).page)
                    /\ t.page[Entry(t, a).page].refcnt > 0
  BY DEF Evictable
<1>1. a \in PteAddr \ N /\ Entry(t, a) = Entry(s, a)
  OBVIOUS
<1>2. Entry(s, a).page \in Pages /\ a[1] \in Pages
  BY EntryPart
<1>3. IsAnon(s, Entry(s, a).page) /\ s.page[Entry(s, a).page].refcnt > 0
  BY <1>1, <1>2 DEF Evictable
<1> QED
  BY <1>1, <1>2, <1>3 DEF IsAnon

(* wsl_evict() of a mapped anonymous page.                                 *)
LEMMA EvictPasses ==
  ASSUME NEW s \in VmStates, NEW pt \in Pages, NEW i \in Idx, s.panic = NoPanic,
         s.table[pt][i].kind = "Valid", IsAnon(s, s.table[pt][i].page),
         s.page[s.table[pt][i].page].refcnt > 0
  PROVE  WslEvict(s, pt, i).panic = NoPanic
<1> DEFINE pte == s.table[pt][i]
           p   == pte.page
           t   == [s EXCEPT !.page[p].dirty = @ \/ pte.writeable,
                            !.table[pt][i] = TransPte(p)]
<1>1. p \in Pages /\ pte.writeable \in BOOLEAN
  BY TablePart
<1>2. t \in VmStates /\ t.panic = NoPanic /\ t.page[p].use = s.page[p].use
      /\ t.page[p].refcnt = s.page[p].refcnt
  <2> DEFINE d == s.page[p].dirty \/ pte.writeable
             u == [s EXCEPT !.page[p].dirty = d]
             x == TransPte(p)
  <2>1. d \in BOOLEAN /\ x \in Pte
    BY <1>1, PagePart, PteTypes
  <2> HIDE DEF d, x, pte, p
  <2>2. u \in VmStates
    BY <1>1, <2>1, SetFieldType
  <2>3. u.panic = NoPanic /\ u.page[p].use = s.page[p].use /\ u.page[p].refcnt = s.page[p].refcnt
    BY <1>1 DEF VmStates, PageDb, PageRec
  <2> HIDE DEF u
  <2>4. [u EXCEPT !.table[pt][i] = x] \in VmStates
    BY <2>1, <2>2, SetTableType
  <2>5. /\ [u EXCEPT !.table[pt][i] = x].panic = u.panic
        /\ [u EXCEPT !.table[pt][i] = x].page = u.page
    BY <2>2 DEF VmStates
  <2>6. t = [u EXCEPT !.table[pt][i] = x]
    BY DEF u, d, x, VmStates, pte, p
  <2> QED
    BY <2>3, <2>4, <2>5, <2>6
<1>3. WslEvict(s, pt, i) = PageRelease(t, p)
  BY Zenon DEF WslEvict, Kassert, Then, IsAnon, t, p, pte
<1>4. t.page[p].use = "AnonPrivate" /\ t.page[p].refcnt > 0
  BY <1>2 DEF IsAnon
<1> HIDE DEF t, p
<1> QED
  BY <1>1, <1>2, <1>3, <1>4, ReleasePasses

(* wsl_trim_1(): the head of the queue is the entry of a mapped page,      *)
(* which is evicted, or of a page table without an in-core PTE, for which  *)
(* there is no code.                                                       *)
LEMMA TrimKnown ==
  ASSUME NEW s \in VmStates, s.panic = NoPanic, s.wsl.queue # << >>,
         NEW home, NEW y, Forest(s, home, y), NEW N, NEW x, Good(s, home, N, x),
         Evictable(s, N)
  PROVE  Known(WslTrim1(s))
<1> DEFINE k == Head(s.wsl.queue)
           w == [s.wsl EXCEPT !.queue = Tail(@), !.tree = @ \ {k}, !.nentries = @ - 1]
           t == [s EXCEPT !.wsl.queue = Tail(@), !.wsl.tree = @ \ {k},
                          !.wsl.nentries = @ - 1]
           v == k[2]
           pt == FetchPte(s, v)
           e == WslEvict(t, pt, v[1])
           E == Keys(home, Valids(s) \ N) \cup TKeys(Spare(s, x))
<1>1. k \in WsKey /\ k \in E /\ Tail(s.wsl.queue) \in Seq(WsKey)
  <2>1. Lists(s.wsl.queue, E) /\ s.wsl.queue \in Seq(WsKey)
    BY WslPart DEF WslIs, Good, Held
  <2> HIDE DEF E
  <2>2. Head(s.wsl.queue) \in E /\ Tail(s.wsl.queue) \in Seq(WsKey)
    BY ONLY <2>1, s.wsl.queue # << >>, ListsTail
  <2>3. Head(s.wsl.queue) \in WsKey
    BY <2>1
  <2> QED
    BY <2>2, <2>3
<1> HIDE DEF k
<1>2. t \in VmStates
  <2>1. s.wsl.tree \ {k} \in SUBSET WsKey /\ s.wsl.nentries - 1 \in Int
    BY WslPart
  <2>2. w \in WsList
    BY <1>1, <2>1, Parts, WslPart, WslUpdate, Zenon
  <2> QED
    BY <2>2, Zenon DEF VmStates
<1>3. t.page = s.page /\ t.table = s.table /\ t.panic = s.panic
  BY DEF VmStates
<1> HIDE DEF t, pt, e, w
<1>4. WslTrim1(s) = IF k[1] = "table"
                    THEN Kassert(s, s.page[k[2]].referent[2] = 0, "resident.c:207",
                                 Kfatal(s, "tables.c:87"))
                    ELSE Kassert(s, pt \in Pages, "ws.c:77", e)
  BY Zenon DEF WslTrim1, k, t, pt, e
<1>5. CASE k[1] = "table"
  <2> DEFINE ok == s.page[k[2]].referent[2] = 0
             fatal == Kfatal(s, "tables.c:87")
  <2>1. Known(fatal)
    BY PanicSeen DEF Kfatal, Kassert, Then, Known, ReachablePanics
  <2>2. WslTrim1(s) = Kassert(s, ok, "resident.c:207", fatal) /\ ok \in BOOLEAN
    BY <1>4, <1>5, Zenon
  <2> HIDE DEF ok, fatal
  <2> QED
    BY <2>1, <2>2, KassertKnown DEF ReachablePanics
<1>6. CASE k[1] # "table"
  <2>1. k \in Keys(home, Valids(s) \ N)
    BY <1>1, <1>6 DEF TKeys, TableKey
  <2>2. PICK a \in Valids(s) \ N : k = LeafKey(Addr(home, a))
    BY <2>1 DEF Keys
  <2>3. a \in PteAddr /\ s.page[a[1]].use = "PML1" /\ Entry(s, a).kind = "Valid"
        /\ a[1] \in Pages /\ a[2] \in Idx
    BY AddrParts DEF Valids, Leaves
  <2>4. a[1] # y
    BY <2>3 DEF Forest, Kinds
  <2>5. v = Addr(home, a) /\ v[1] = a[2]
    <3>1. v = Addr(home, a)
      BY <2>2 DEF LeafKey
    <3>2. 1 \in 1 .. Levels
      BY VmAssumption
    <3>3. Addr(home, a)[1] = a[2]
      BY ONLY <3>2 DEF Addr
    <3> QED
      BY <3>1, <3>3
  <2>6. pt = a[1]
    BY <2>3, <2>4, <2>5, AddrWalk DEF pt
  <2>7. e.panic = NoPanic
    <3>1. IsAnon(s, Entry(s, a).page) /\ s.page[Entry(s, a).page].refcnt > 0
      BY <2>3 DEF Evictable
    <3>2. /\ t.table[a[1]][a[2]].kind = "Valid" /\ IsAnon(t, t.table[a[1]][a[2]].page)
          /\ t.page[t.table[a[1]][a[2]].page].refcnt > 0
      BY <1>3, <2>3, <3>1 DEF Entry, IsAnon
    <3>3. t.panic = NoPanic
      BY <1>3
    <3>4. WslEvict(t, a[1], a[2]).panic = NoPanic
      BY <1>2, <2>3, <3>2, <3>3, EvictPasses
    <3> QED
      BY <2>5, <2>6, <3>4 DEF e
  <2>8. WslTrim1(s) = e
    BY <1>4, <1>6, <2>3, <2>6 DEF Kassert, Then
  <2> QED
    BY <2>7, <2>8 DEF Known
<1> QED
  BY <1>5, <1>6

-----------------------------------------------------------------------------
(* The list is never longer than it may be.                                *)
Roomy(s) == s.wsl.nentries <= s.wsl.max

(* Neither its length nor its limit changes but when an entry is inserted  *)
(* or evicted.                                                             *)
SameRoom(s, t) == t.wsl.nentries = s.wsl.nentries /\ t.wsl.max = s.wsl.max

(* What locks, unlocks or removes one entry leaves the room of the list alone. *)
LEMMA EntryRoom ==
  ASSUME NEW s \in VmStates, NEW k
  PROVE  /\ SameRoom(s, WslLockEntry(s, k)) /\ SameRoom(s, WslUnlockEntry(s, k))
         /\ SameRoom(s, WslRemove(s, k))
<1> DEFINE a == [s EXCEPT !.wsl.queue = Unlink(@, k), !.wsl.nlocked = @ + 1]
           b == [s EXCEPT !.wsl.tree = @ \ {k}, !.wsl.queue = Unlink(@, k)]
           c == [s EXCEPT !.wsl.queue = Append(@, k), !.wsl.nlocked = @ - 1]
<1>1. s.wsl \in WsList
  BY Parts
<1>2. SameRoom(s, a) /\ SameRoom(s, b) /\ SameRoom(s, c) /\ SameRoom(s, s)
  BY <1>1 DEF VmStates, WsList, SameRoom
<1>3. \A site : SameRoom(s, [s EXCEPT !.panic = site])
  BY DEF VmStates, SameRoom
<1> HIDE DEF a, b, c
<1>4. \A t, ok, site : SameRoom(s, t) => SameRoom(s, Kassert(s, ok, site, t))
  BY <1>2, <1>3, Zenon DEF Kassert, Then
<1>5. /\ WslLockEntry(s, k) = Kassert(s, k \in s.wsl.tree, "ws.c:145",
                                Kassert(s, Contains(s.wsl.queue, k), "ws.c:146", a))
      /\ WslUnlockEntry(s, k) = Kassert(s, k \in s.wsl.tree, "ws.c:154",
                                  Kassert(s, ~Contains(s.wsl.queue, k), "ws.c:155", c))
      /\ WslRemove(s, k) = Kassert(s, k \in s.wsl.tree, "ws.c:135",
                             Kassert(s, Contains(s.wsl.queue, k), "ws.c:137", b))
  BY Zenon DEF WslLockEntry, WslUnlockEntry, WslRemove, a, b, c
<1> QED
  BY <1>2, <1>4, <1>5, Zenon

(* vmp_wsl_insert() of an entry that is not in the list.                   *)
LEMMA InsertKnown ==
  ASSUME NEW s \in VmStates, s.panic = NoPanic, NEW k \in WsKey, NEW locked \in BOOLEAN,
         NEW home, NEW y, Forest(s, home, y), NEW N, NEW x, Good(s, home, N, x),
         Evictable(s, N), Roomy(s), k \notin s.wsl.tree
  PROVE  Known(WslInsert(s, k, locked))
<1> DEFINE r == WslMakeRoom(s)
           m == [s EXCEPT !.wsl.max = @ + WsPageExpansionCount]
           u == [r EXCEPT !.wsl.nentries = @ + 1,
                          !.wsl.nlocked = IF locked THEN @ + 1 ELSE @,
                          !.wsl.queue = IF locked THEN @ ELSE Append(@, k),
                          !.wsl.tree = @ \cup {k}]
           c == Kassert(s, s.wsl.queue # << >>, "ws.c:112", WslTrim1(s))
<1>1. Known(c)
  <2> DEFINE ok == s.wsl.queue # << >>
  <2>1. ok => Known(WslTrim1(s))
    BY TrimKnown
  <2>2. ok \in BOOLEAN
    OBVIOUS
  <2>3. Known(Kassert(s, ok, "ws.c:112", WslTrim1(s)))
    <3> HIDE DEF ok
    <3> QED
      BY <2>1, <2>2, KassertKnown DEF ReachablePanics
  <2> QED
    BY <2>3
<1>2. m.panic = NoPanic
  BY DEF VmStates
<1>3. r = s \/ r = m \/ r = c
  BY Zenon DEF WslMakeRoom, r, m, c
<1>4. r \in VmStates
  BY WslMakeRoomType
<1> HIDE DEF r, m, c
<1>5. Known(r)
  BY <1>1, <1>2, <1>3 DEF Known
<1>6. u.panic = r.panic
  BY <1>4 DEF VmStates
<1>7. WslInsert(s, k, locked) = Then(r, u)
  BY Zenon DEF WslInsert, WslAdd, Kassert, Then, Roomy, r, u
<1> HIDE DEF u
<1> QED
  BY <1>5, <1>6, <1>7 DEF Then, Known

(* wsl_trim_1() takes one entry off the list.                              *)
LEMMA TrimRoom ==
  ASSUME NEW s \in VmStates, s.wsl.queue # << >>, WslTrim1(s).panic = NoPanic
  PROVE  WslTrim1(s).wsl.nentries = s.wsl.nentries - 1 /\ WslTrim1(s).wsl.max = s.wsl.max
<1> DEFINE k == Head(s.wsl.queue)
           w == [s.wsl EXCEPT !.queue = Tail(@), !.tree = @ \ {k}, !.nentries = @ - 1]
           t == [s EXCEPT !.wsl.queue = Tail(@), !.wsl.tree = @ \ {k},
                          !.wsl.nentries = @ - 1]
           v == k[2]
           pt == FetchPte(s, v)
           e == WslEvict(t, pt, v[1])
<1>1. k \in WsKey /\ Tail(s.wsl.queue) \in Seq(WsKey)
  <2>1. s.wsl.queue \in Seq(WsKey)
    BY WslPart
  <2> QED
    BY ONLY <2>1, s.wsl.queue # << >>
<1> HIDE DEF k
<1>2. t \in VmStates
  <2>1. s.wsl.tree \ {k} \in SUBSET WsKey /\ s.wsl.nentries - 1 \in Int
    BY WslPart
  <2>2. w \in WsList
    BY <1>1, <2>1, Parts, WslPart, WslUpdate, Zenon
  <2> QED
    BY <2>2, Zenon DEF VmStates
<1>3. t.wsl.nentries = s.wsl.nentries - 1 /\ t.wsl.max = s.wsl.max
  <2>1. s.wsl \in WsList
    BY Parts
  <2> QED
    BY <2>1 DEF VmStates, WsList
<1> HIDE DEF t, pt, e, w
<1>4. Kfatal(s, "tables.c:87").panic # NoPanic
  BY KfatalPassed, ZenonT(60) DEF NoPanic
<1>5. WslTrim1(s) = IF k[1] = "table"
                    THEN Kassert(s, s.page[k[2]].referent[2] = 0, "resident.c:207",
                                 Kfatal(s, "tables.c:87"))
                    ELSE Kassert(s, pt \in Pages, "ws.c:77", e)
  BY Zenon DEF WslTrim1, k, t, pt, e
<1>6. /\ s.panic = NoPanic /\ k[1] # "table" /\ pt \in Pages
      /\ WslTrim1(s) = e /\ e.panic = NoPanic
  BY <1>4, <1>5, PanicSeen DEF Kassert, Then, NoPanic
<1>7. v[1] \in Idx
  BY <1>1, <1>6, VmAssumption DEF WsKey, VAddr
<1>8. e.wsl = t.wsl
  BY <1>2, <1>6, <1>7, EvictKeepsList, Zenon DEF e
<1> QED
  BY <1>3, <1>6, <1>8

(* The list has room for the entry, is allowed to grow or loses another.   *)
LEMMA InsertRoom ==
  ASSUME NEW s \in VmStates, NEW k \in WsKey, NEW locked \in BOOLEAN, Roomy(s),
         WslInsert(s, k, locked).panic = NoPanic
  PROVE  Roomy(WslInsert(s, k, locked))
<1> DEFINE r == WslMakeRoom(s)
           m == [s EXCEPT !.wsl.max = @ + WsPageExpansionCount]
           u == [r EXCEPT !.wsl.nentries = @ + 1,
                          !.wsl.nlocked = IF locked THEN @ + 1 ELSE @,
                          !.wsl.queue = IF locked THEN @ ELSE Append(@, k),
                          !.wsl.tree = @ \cup {k}]
           c == Kassert(s, s.wsl.queue # << >>, "ws.c:112", WslTrim1(s))
           q == Kassert(s, s.wsl.nentries <= s.wsl.max, "ws.c:108", Then(r, u))
<1>1. s.wsl.nentries \in Int /\ s.wsl.max \in Int /\ s.wsl \in WsList
  BY WslPart, Parts
<1>2. r \in VmStates
  BY WslMakeRoomType
<1>3. WslInsert(s, k, locked) = Kassert(s, k \notin s.wsl.tree, "ws.c:107", q)
  BY Zenon DEF WslInsert, WslAdd, r, u, q
<1>4. /\ m.wsl.nentries = s.wsl.nentries
      /\ m.wsl.max = s.wsl.max + WsPageExpansionCount
  BY <1>1 DEF VmStates, WsList
<1>5. /\ s.wsl.nentries # s.wsl.max => r = s
      /\ s.wsl.nentries = s.wsl.max => r = m \/ r = c
  BY Zenon DEF WslMakeRoom, r, m, c
<1>6. u.wsl.nentries = r.wsl.nentries + 1 /\ u.wsl.max = r.wsl.max
  <2>1. r.wsl \in WsList
    BY <1>2, Parts
  <2> HIDE DEF r
  <2> QED
    BY <1>2, <2>1 DEF VmStates, WsList
<1> HIDE DEF r, m, u
<1>7. q.panic = NoPanic /\ WslInsert(s, k, locked) = q
  BY <1>3, PanicSeen, SMTT(60) DEF Kassert, Then, NoPanic
<1>8. Then(r, u).panic = NoPanic /\ q = Then(r, u)
  BY <1>7, PanicSeen, SMTT(60) DEF Kassert, Then, NoPanic
<1>9. r.panic = NoPanic /\ WslInsert(s, k, locked) = u
  BY <1>7, <1>8, ThenPassed
<1> HIDE DEF q
<1>10. ASSUME r = c PROVE r.wsl.nentries = s.wsl.nentries - 1 /\ r.wsl.max = s.wsl.max
  <2>1. c.panic = NoPanic
    BY <1>9, <1>10
  <2>2. s.wsl.queue # << >> /\ c = WslTrim1(s)
    BY <2>1, PanicSeen DEF Kassert, Then, NoPanic
  <2> HIDE DEF c
  <2> QED
    BY <1>10, <2>1, <2>2, TrimRoom
<1>11. WsPageExpansionCount \in Nat \ {0}
  BY VmAssumption
<1>12. r.wsl.nentries + 1 <= r.wsl.max
  BY <1>1, <1>4, <1>5, <1>10, <1>11 DEF Roomy
<1> QED
  BY <1>6, <1>9, <1>12 DEF Roomy

-----------------------------------------------------------------------------
(* A page that the allocator may hand out has nothing of its last use left *)
(* for the assertions to find, and only the lowest tables have PTEs that   *)
(* name slots of the paging file.                                          *)
Tidy(s) ==
  /\ \A q \in Pages : s.page[q].use \in {"Free", "AnonPrivate"} => s.page[q].nonzero = 0
  /\ \A q \in Pages : s.page[q].use = "Free" => s.page[q].referent = NullRef
  /\ \A a \in PteAddr :
       Entry(s, a).kind = "Swap" /\ IsTable(s, a[1]) => s.page[a[1]].use = "PML1"

(* What counts PTEs, references or an address leaves the state tidy.       *)
LEMMA TidyKept ==
  ASSUME NEW s \in VmStates, NEW t, Tidy(s),
         \A q \in Pages : t.page[q].use = s.page[q].use,
         \A q \in Pages : ~IsTable(s, q) => t.page[q].nonzero = s.page[q].nonzero,
         \A q \in Pages : s.page[q].use = "Free" => t.page[q].referent = s.page[q].referent,
         \A a \in PteAddr : \/ Entry(t, a) = Entry(s, a) \/ Entry(t, a).kind # "Swap"
                            \/ s.page[a[1]].use = "PML1"
  PROVE  Tidy(t)
<1>1. \A q \in Pages : s.page[q].use \in {"Free", "AnonPrivate"} => ~IsTable(s, q)
  BY DEF IsTable, TableUses
<1>2. \A a \in PteAddr : a[1] \in Pages
  BY AddrParts
<1> QED
  BY <1>1, <1>2 DEF Tidy, IsTable

(* ... as do its particular cases.                                         *)
LEMMA TidyEffects ==
  ASSUME NEW s \in VmStates, NEW t, Tidy(s)
  PROVE  /\ Same(s, t) => Tidy(t)
         /\ \A p \in Pages : \A n : Refd(s, t, p, n) => Tidy(t)
         /\ \A p \in Pages : \A r, n, m : IsTable(s, p) /\ Adjusted(s, t, p, r, n, m) => Tidy(t)
         /\ \A a, x : x.kind # "Swap" /\ Entered(s, t, a, x) => Tidy(t)
         /\ Trimmed(s, t) => Tidy(t)
         /\ \A p \in Pages : \A a : s.page[p].use # "Free" /\ Referred(s, t, p, a) => Tidy(t)
<1>1. Same(s, t) => Tidy(t)
  <2> SUFFICES ASSUME Same(s, t) PROVE Tidy(t)
    OBVIOUS
  <2>1. \A a \in PteAddr : Entry(t, a) = Entry(s, a)
    BY DEF Same, Entry
  <2> QED
    BY <2>1, TidyKept DEF Same, SameRec
<1>2. ASSUME NEW p \in Pages, NEW n, Refd(s, t, p, n) PROVE Tidy(t)
  <2>1. \A a \in PteAddr : Entry(t, a) = Entry(s, a)
    BY <1>2 DEF Refd, Entry
  <2>2. \A q \in Pages : /\ t.page[q].use = s.page[q].use /\ t.page[q].nonzero = s.page[q].nonzero
                         /\ t.page[q].referent = s.page[q].referent
    BY <1>2 DEF Refd, SameRec
  <2> QED
    BY <2>1, <2>2, TidyKept
<1>3. ASSUME NEW p \in Pages, NEW r, NEW n, NEW m, IsTable(s, p), Adjusted(s, t, p, r, n, m)
      PROVE  Tidy(t)
  <2>1. \A a \in PteAddr : Entry(t, a) = Entry(s, a)
    BY <1>3 DEF Adjusted, Entry
  <2>2. \A q \in Pages : /\ t.page[q].use = s.page[q].use
                         /\ q # p => t.page[q].nonzero = s.page[q].nonzero
                         /\ t.page[q].referent = s.page[q].referent
    BY <1>3 DEF Adjusted, SameRec
  <2> QED
    BY <1>3, <2>1, <2>2, TidyKept
<1>4. ASSUME NEW a, NEW x, x.kind # "Swap", Entered(s, t, a, x) PROVE Tidy(t)
  <2>1. \A b \in PteAddr : Entry(t, b) = Entry(s, b) \/ Entry(t, b).kind # "Swap"
    BY <1>4 DEF Entered
  <2> QED
    BY <1>4, <2>1, TidyKept DEF Entered, SameRec
<1>5. ASSUME NEW a \in PteAddr, EvictedAt(s, t, a) PROVE Tidy(t)
  <2> DEFINE p == Entry(s, a).page
  <2>1. \A q \in Pages : /\ t.page[q].use = s.page[q].use
                         /\ t.page[q].nonzero = s.page[q].nonzero
                         /\ t.page[q].referent = s.page[q].referent
    BY <1>5 DEF EvictedAt, SameRec
  <2>2. \A b \in PteAddr : Entry(t, b) = Entry(s, b) \/ Entry(t, b).kind # "Swap"
    BY <1>5 DEF EvictedAt, TransPte, ZeroPte
  <2> QED
    BY <2>1, <2>2, TidyKept
<1>6. ASSUME NEW p \in Pages, NEW a, s.page[p].use # "Free", Referred(s, t, p, a)
      PROVE  Tidy(t)
  <2>1. \A b \in PteAddr : Entry(t, b) = Entry(s, b)
    BY <1>6 DEF Referred, Entry
  <2>2. \A q \in Pages : /\ t.page[q].use = s.page[q].use
                         /\ t.page[q].nonzero = s.page[q].nonzero
                         /\ q # p => t.page[q].referent = s.page[q].referent
    BY <1>6 DEF Referred, SameRec
  <2> QED
    BY <1>6, <2>1, <2>2, TidyKept
<1> QED
  BY <1>1, <1>2, <1>3, <1>4, <1>5, <1>6, Zenon DEF Trimmed

(* A page taken for another use.                                           *)
LEMMA TakenTidy ==
  ASSUME NEW s \in VmStates, NEW t, NEW p \in Pages, NEW use \in TableUses \cup {"AnonPrivate"},
         Taken(s, t, p, use), s.page[p].nonzero = 0, Tidy(s)
  PROVE  Tidy(t)
<1>1. \A q \in Pages \ {p} : SameRec(s, t, q)
  BY DEF Taken
<1>2. t.page[p].use # "Free" /\ t.page[p].nonzero = 0
  BY DEF Taken, TableUses
<1>3. \A a \in PteAddr : Entry(t, a).kind = "Swap" => a[1] # p /\ Entry(t, a) = Entry(s, a)
  BY DEF Taken, ZeroPte
<1>4. \A a \in PteAddr : a[1] \in Pages
  BY AddrParts
<1> QED
  BY <1>1, <1>2, <1>3, <1>4 DEF Tidy, SameRec, IsTable

(* Nor does the bookkeeping of a table change it.                          *)
LEMMA KeptRoom ==
  ASSUME NEW s, NEW t, NEW u, SameRoom(s, t), SameRoom(t, u)
  PROVE  SameRoom(s, u)
BY DEF SameRoom

(* A step that leaves the list alone leaves its room alone.              *)
LEMMA WslRoom ==
  ASSUME NEW s, NEW t, t.wsl = s.wsl
  PROVE  SameRoom(s, t)
BY DEF SameRoom

(* A PTE is uncounted: an entry may be unlocked, the room stays.         *)
LEMMA GoneRoom ==
  ASSUME NEW s \in VmStates, NEW p \in Pages
  PROVE  SameRoom(s, NonswapPteGone(s, p))
<1> DEFINE t == [s EXCEPT !.page[p].nonswap = @ - 1]
           w == WslUnlockEntry(t, TableKey(p))
           u == IF s.page[p].nonswap = 1 /\ ~IsRootTable(s, p) THEN w ELSE t
<1>1. t \in VmStates /\ t.wsl = s.wsl
  <2>1. s.page[p].nonswap - 1 \in Int
    BY PagePart
  <2>2. t.wsl = s.wsl
    BY DEF VmStates
  <2> QED
    BY <2>1, <2>2, SetFieldType
<1>2. NonswapPteGone(s, p) = Then(s, u)
  BY DEF NonswapPteGone
<1> HIDE DEF t
<1>3. SameRoom(t, w)
  BY <1>1, EntryRoom
<1>4. SameRoom(s, t) /\ SameRoom(s, s)
  BY <1>1 DEF SameRoom
<1>5. SameRoom(s, w)
  BY <1>3, <1>4, KeptRoom
<1> HIDE DEF w
<1>6. SameRoom(s, u)
  BY <1>4, <1>5
<1> HIDE DEF u
<1> QED
  BY <1>2, <1>4, <1>6 DEF Then

(* A PTE becomes a swap PTE: the room of the list stays.                 *)
LEMMA BecameSwapRoom ==
  ASSUME NEW s \in VmStates, NEW p \in Pages
  PROVE  SameRoom(s, PteBecameSwap(s, p))
<1> DEFINE g == NonswapPteGone(s, p)
<1>1. g \in VmStates /\ SameRoom(s, g)
  BY NonswapPteGoneType, GoneRoom
<1> HIDE DEF g
<1>2. SameRoom(g, PageRelease(g, p))
  BY <1>1, WslKept, WslRoom
<1>3. PteBecameSwap(s, p) = PageRelease(g, p)
  BY DEF PteBecameSwap, g
<1> QED
  BY <1>1, <1>2, <1>3, KeptRoom

(* A table has a reference of its own and one per PTE in core or wiring.   *)
Refd1(s) == \A q \in Pages : IsTable(s, q) => s.page[q].refcnt >= s.page[q].nonswap + 1

(* Where the references are accounted for, a table holds one for itself    *)
(* and one for each PTE counted in it.                                     *)
LEMMA MapsRefd ==
  ASSUME NEW s \in VmStates, NEW home, NEW hole, NEW busy, NEW pins, NEW uses,
         NEW refs \in Ledger, \A q \in Pages : refs[q] >= 0,
         Maps(s, home, hole, busy, pins, uses, refs)
  PROVE  Refd1(s)
<1> SUFFICES ASSUME NEW q \in Pages, IsTable(s, q)
             PROVE  s.page[q].refcnt >= s.page[q].nonswap + 1
  BY DEF Refd1
<1>1. ~IsAnon(s, q)
  BY DEF IsTable, IsAnon, TableUses
<1>2. s.page[q].refcnt = refs[q] + (s.page[q].nonswap + 1)
  BY <1>1 DEF Maps, Referenced, Base
<1>3. refs[q] \in Int /\ refs[q] >= 0 /\ s.page[q].nonswap \in Int
  BY PagePart DEF Ledger
<1> QED
  BY <1>2, <1>3

(* vmp_page_alloc_locked(): the first page of the free queue, ...          *)
LEMMA TakeFreePasses ==
  ASSUME NEW s \in VmStates, NEW use \in TableUses \cup {"AnonPrivate"}, s.panic = NoPanic,
         s.free # << >>, Placed(s, NoPage), Tidy(s)
  PROVE  /\ TakeFree(s, use).panic = NoPanic /\ Tidy(TakeFree(s, use))
         /\ SameRoom(s, TakeFree(s, use))
<1> DEFINE p == Head(s.free)
           v == TakePage(s, p, use)
           u == [v EXCEPT !.free = Tail(@), !.stat.nfree = @ - 1]
<1>1. use \in PageUse
  BY DEF TableUses, PageUse
<1>2. p \in Pages /\ s.page[p].use = "Free"
  <2>1. s.free \in Seq(Pages)
    BY Parts DEF Queue
  <2>2. Lists(s.free, FreeSet(s))
    BY DEF Placed
  <2>3. p \in FreeSet(s)
    BY ONLY <2>1, <2>2, s.free # << >>, ListsTail
  <2> QED
    BY <2>3 DEF FreeSet
<1> HIDE DEF p
<1>3. v \in VmStates /\ v.wsl = s.wsl /\ v.panic = NoPanic
  BY <1>1, <1>2, TakePageType, TakePageFacts, WslKept
<1>4. u.page = v.page /\ u.table = v.table /\ u.wsl = v.wsl /\ u.panic = v.panic
  BY <1>3 DEF VmStates
<1>5. s.page[p].refcnt = 0 /\ s.page[p].nonzero = 0 /\ s.page[p].referent = NullRef
  BY <1>2 DEF Placed, Tidy
<1>6. TakeFree(s, use) = u
  BY <1>5, Zenon DEF TakeFree, Kassert, Then, u, v, p
<1> HIDE DEF u
<1>7. Taken(s, u, p, use)
  BY <1>1, <1>2, <1>4, TakePageEffect DEF v
<1> HIDE DEF v
<1>8. Tidy(u)
  BY <1>2, <1>5, <1>7, TakenTidy
<1> QED
  BY <1>3, <1>4, <1>6, <1>8 DEF SameRoom

(* ... or the first of the standby queue, mapped by a transition PTE of a  *)
(* table in use.                                                           *)
LEMMA StealPasses ==
  ASSUME NEW s \in VmStates, NEW use \in TableUses \cup {"AnonPrivate"}, s.panic = NoPanic,
         s.standby # << >>, Placed(s, NoPage), Tidy(s),
         NEW busy, NEW pins \in Ledger, NEW uses, NEW refs \in Ledger,
         \A q \in Pages : pins[q] >= 0, \A q \in Pages : refs[q] >= 0,
         Maps(s, Home(s), NoPage, busy, pins, uses, refs), Forest(s, Home(s), NoPage),
         NEW home, Good(s, home, {}, NoPage)
  PROVE  /\ StealPage(s, use).panic = NoPanic /\ Tidy(StealPage(s, use))
         /\ SameRoom(s, StealPage(s, use))
<1> DEFINE p   == Head(s.standby)
           ref == s.page[p].referent
           x   == SwapPte(s.page[p].drumslot)
           b   == [s EXCEPT !.standby = Tail(@), !.table[ref[1]][ref[2]] = x]
           t   == PteBecameSwap(b, ref[1])
           v   == TakePage(t, p, use)
           u   == [v EXCEPT !.stat.nstandby = @ - 1]
<1>1. use \in PageUse
  BY DEF TableUses, PageUse
<1>2. p \in Pages /\ s.page[p].use = "AnonPrivate" /\ s.page[p].refcnt = 0
  <2>1. s.standby \in Seq(Pages)
    BY Parts DEF Queue
  <2>2. Lists(s.standby, StandbySet(s) \ {NoPage})
    BY DEF Placed
  <2> DEFINE S == StandbySet(s) \ {NoPage}
  <2> HIDE DEF S
  <2>3. Lists(s.standby, S)
    BY <2>2 DEF S
  <2>4. p \in S
    BY ONLY <2>1, <2>3, s.standby # << >>, ListsTail
  <2>5. p \in StandbySet(s) \ {NoPage}
    BY <2>4 DEF S
  <2> QED
    BY <2>5 DEF StandbySet
<1> HIDE DEF p
<1>3. /\ ref \in PteAddr /\ ref[1] \in Pages /\ ref[2] \in Idx
      /\ Entry(s, ref).kind = "Trans" /\ IsTable(s, ref[1]) /\ s.page[ref[1]].nonswap >= 1
  BY <1>2, StandbyTrans
<1>4. s.page[ref[1]].use = "PML1"
  BY <1>3 DEF Maps, Linked, PtesLinked
<1>5. s.page[ref[1]].refcnt >= 2
  <2>1. s.page[ref[1]].refcnt >= s.page[ref[1]].nonswap + 1
    BY <1>3, MapsRefd DEF Refd1
  <2>2. s.page[ref[1]].nonswap \in Int /\ s.page[ref[1]].refcnt \in Int
    BY <1>3, PagePart
  <2> QED
    BY <1>3, <2>1, <2>2
<1> HIDE DEF ref
<1>6. x \in Pte /\ x.kind \in {"Zero", "Swap"}
  <2>1. s.page[p].drumslot \in Nat \cup {NoSlot}
    BY <1>2, PagePart
  <2>2. x \in Pte
    BY <1>2, <2>1, PteTypes
  <2> QED
    BY <2>2 DEF SwapPte, ZeroPte
<1> HIDE DEF x
<1>7. b \in VmStates
  <2>1. Tail(s.standby) \in Queue
    BY Parts DEF Queue
  <2>2. [s.table EXCEPT ![ref[1]][ref[2]] = x] \in TableMem
    BY <1>3, <1>6, Parts DEF TableMem
  <2> QED
    BY <2>1, <2>2 DEF VmStates
<1>8. OnePte(s, b, ref, x) /\ b.page = s.page /\ b.wsl = s.wsl /\ b.panic = s.panic
  <2>1. /\ b.page = s.page /\ b.table = [s.table EXCEPT ![ref[1]][ref[2]] = x]
        /\ s.table \in TableMem /\ b.wsl = s.wsl /\ b.panic = s.panic
    BY Parts DEF VmStates
  <2> HIDE DEF b
  <2>2. \A e \in Pages, j \in Idx :
          b.table[e][j] = IF e = ref[1] /\ j = ref[2] THEN x ELSE s.table[e][j]
    BY <1>3, <2>1 DEF TableMem
  <2>3. \A c \in PteAddr : Entry(b, c) = IF c = ref THEN x ELSE Entry(s, c)
    BY <1>3, <2>2, AddrParts DEF Entry
  <2> QED
    BY <2>1, <2>3 DEF OnePte
<1> HIDE DEF b
<1>9. Good(b, home, {}, NoPage)
  <2>1. Entry(s, ref).kind \notin Kinds /\ x.kind \notin Kinds
    BY <1>3, <1>6 DEF Kinds
  <2>2. SameLeaves(s, b)
    BY <1>3, <1>8, <2>1, OnePteSame
  <2>3. Tabs(b, NoPage) = Tabs(s, NoPage) /\ Spare(b, NoPage) = Spare(s, NoPage)
    BY <1>8, OnePteTabs
  <2> QED
    BY <1>8, <2>2, <2>3, GoodKept
<1>10. NoPage \notin Pages
  BY DEF NoPage, Pages
<1>11. /\ IsTable(b, ref[1]) /\ b.page[ref[1]].nonswap >= 1 /\ b.page[ref[1]].refcnt >= 2
       /\ (IsRootTable(b, ref[1]) <=> ref[1] = Root)
  <2>1. IsRootTable(s, ref[1]) <=> ref[1] = Root
    BY <1>3, <1>10, RootOnly
  <2> QED
    BY <1>3, <1>5, <1>8, <2>1 DEF IsTable, IsRootTable
<1>12. t \in VmStates /\ t.panic = NoPanic
  <2>1. t \in VmStates
    BY <1>3, <1>7, PteBecameSwapType
  <2>2. ref[1] # NoPage /\ b.panic = NoPanic
    BY <1>3, <1>8, <1>10
  <2>3. t.panic = NoPanic
    BY <1>3, <1>7, <1>9, <1>11, <2>2, BecameSwapPasses
  <2> QED
    BY <2>1, <2>3
<1>13. Adjusted(b, t, ref[1], -1, 0, -1)
  <2>1. b.page[ref[1]].use # "Deleted"
    BY <1>11 DEF IsTable, TableUses
  <2> QED
    BY <1>3, <1>7, <1>12, <2>1, PteBecameSwapEffect
<1>14. SameRoom(b, t)
  BY <1>3, <1>7, BecameSwapRoom
<1> HIDE DEF t
<1>15. v \in VmStates /\ v.wsl = t.wsl /\ v.panic = t.panic
  BY <1>1, <1>2, <1>12, TakePageType, TakePageFacts, WslKept
<1>16. u.page = v.page /\ u.table = v.table /\ u.wsl = v.wsl /\ u.panic = v.panic
  BY <1>15 DEF VmStates
<1>17. SameRec(s, t, p)
  <2>1. p # ref[1]
    BY <1>2, <1>3 DEF IsTable, TableUses
  <2>2. SameRec(b, t, p)
    BY <1>2, <1>13, <2>1 DEF Adjusted
  <2> QED
    BY <1>8, <2>2 DEF SameRec
<1>18. t.page[p].refcnt = 0 /\ t.page[p].nonzero = 0
  BY <1>2, <1>17 DEF SameRec, Tidy
<1>19. StealPage(s, use) = u
  <2>1. s.page[p].use = "AnonPrivate" /\ s.panic = NoPanic /\ t.panic = NoPanic
    BY <1>2, <1>12
  <2> QED
    BY <1>18, <2>1, Zenon DEF StealPage, Kassert, Then, u, v, t, b, x, ref, p
<1> HIDE DEF u
<1>20. Taken(t, u, p, use)
  BY <1>1, <1>2, <1>12, <1>16, TakePageEffect DEF v
<1> HIDE DEF v
<1>21. Tidy(t)
  <2>1. Tidy(b)
    <3>1. /\ \A q \in Pages : b.page[q] = s.page[q]
          /\ \A c \in PteAddr : Entry(b, c) = Entry(s, c) \/ s.page[c[1]].use = "PML1"
      BY <1>4, <1>8 DEF OnePte
    <3> QED
      BY <3>1, TidyKept
  <2> QED
    BY <1>3, <1>7, <1>11, <1>13, <2>1, TidyEffects
<1>22. Tidy(u)
  BY <1>2, <1>12, <1>18, <1>20, <1>21, TakenTidy
<1> QED
  BY <1>8, <1>12, <1>14, <1>15, <1>16, <1>19, <1>22 DEF SameRoom


-----------------------------------------------------------------------------
(* A state inside a section from which the list can still lose an entry    *)
(* and the tables be counted.                                              *)
Fit(s, home, y, N, x) ==
  /\ s.panic = NoPanic /\ Forest(s, home, y) /\ Good(s, home, N, x)
  /\ Evictable(s, N) /\ Counts(s) /\ Refd1(s) /\ Tidy(s) /\ Roomy(s)

(* A section begins in one.                                                *)
LEMMA OrderlyFit ==
  ASSUME NEW s \in VmStates, Orderly(s), Tidy(s), Roomy(s), s.panic = NoPanic
  PROVE  Fit(s, Home(s), NoPage, {}, NoPage)
<1>1. PICK busy, pins, uses, refs : Owed(s, busy, pins, uses, refs)
  BY DEF Orderly
<1>2. /\ refs \in Ledger /\ \A q \in Pages : refs[q] >= 0
      /\ Maps(s, Home(s), NoPage, busy, pins, uses, refs) /\ Good(s, Home(s), {}, NoPage)
  BY <1>1 DEF Owed
<1>3. Home(s) \in [Pages -> PteAddr]
  BY PagePart DEF Home
<1>4. Evictable(s, {})
  BY <1>2, <1>3, MapsEvictable
<1>5. Refd1(s)
  BY <1>2, MapsRefd
<1> QED
  BY <1>2, <1>4, <1>5, OrderlyForest DEF Fit

(* So does what follows an allocation.                                     *)
LEMMA AllocFit ==
  ASSUME NEW s \in VmStates, Orderly(s), Tidy(s), Roomy(s), s.panic = NoPanic, CanAlloc(s),
         NEW use \in TableUses \cup {"AnonPrivate"},
         NEW t, t = PageAlloc(s, use), NEW p, p = AllocatedPage(s)
  PROVE  t \in VmStates /\ Ready(s, t, p, use) /\ Fit(t, Home(s), p, {}, p)
<1>1. PICK busy, pins, uses, refs : Owed(s, busy, pins, uses, refs)
  BY DEF Orderly
<1>2. /\ pins \in Ledger /\ uses \in Ledger /\ refs \in Ledger
      /\ (\A q \in Pages : pins[q] >= 0) /\ (\A q \in Pages : refs[q] >= 0)
      /\ Placed(s, NoPage) /\ Maps(s, Home(s), NoPage, busy, pins, uses, refs)
      /\ Good(s, Home(s), {}, NoPage)
  BY <1>1 DEF Owed
<1>3. Forest(s, Home(s), NoPage)
  BY OrderlyForest
<1>4. t = IF s.free # << >> THEN TakeFree(s, use) ELSE StealPage(s, use)
  BY DEF PageAlloc, Then
<1>5. t.panic = NoPanic /\ Tidy(t) /\ SameRoom(s, t)
  <2>1. CASE s.free # << >>
    BY <1>2, <1>4, <2>1, TakeFreePasses
  <2>2. CASE s.free = << >>
    <3>1. s.standby # << >>
      BY <2>2 DEF CanAlloc
    <3> QED
      BY <1>2, <1>3, <1>4, <2>2, <3>1, StealPasses
  <2> QED
    BY <2>1, <2>2
<1>6. t \in VmStates /\ Ready(s, t, p, use)
  BY <1>5, PageAllocReady
<1> DEFINE more == Plus(refs, p, IF use = "AnonPrivate" THEN 1 ELSE 0)
<1>7. p \in Pages /\ Maps(t, Home(s), p, busy, pins, uses, more)
  BY <1>2, <1>5, PageAllocMaps
<1>8. more \in Ledger /\ \A q \in Pages : more[q] >= 0
  <2>1. CASE use = "AnonPrivate"
    <3>1. more = Plus(refs, p, 1)
      BY <2>1
    <3> HIDE DEF more
    <3>2. /\ more \in Ledger /\ more[p] = refs[p] + 1 /\ refs[p] \in Int
          /\ \A q \in Pages \ {p} : more[q] = refs[q]
      <4>1. /\ Plus(refs, p, 1) \in Ledger /\ Plus(refs, p, 1)[p] = refs[p] + 1
            /\ \A q \in Pages \ {p} : Plus(refs, p, 1)[q] = refs[q]
        <5>1. refs \in Ledger /\ p \in Pages /\ 1 \in Int
          BY <1>2, <1>7
        <5> QED
          BY ONLY <5>1, PlusAt
      <4>2. refs[p] \in Int
        BY <1>2, <1>7 DEF Ledger
      <4> QED
        BY <3>1, <4>1, <4>2
    <3>3. more[p] >= 0
      BY <1>2, <1>7, <3>2
    <3> QED
      BY <1>2, <3>2, <3>3
  <2>2. CASE use # "AnonPrivate"
    <3>1. more = refs
      BY <1>2, <1>7, <2>2, PlusBack
    <3> QED
      BY <1>2, <3>1
  <2> QED
    BY <2>1, <2>2
<1> HIDE DEF more
<1>9. Home(s) \in [Pages -> PteAddr]
  BY PagePart DEF Home
<1>10. Evictable(t, {})
  BY <1>6, <1>7, <1>8, <1>9, MapsEvictable
<1>11. Refd1(t)
  BY <1>6, <1>7, <1>8, MapsRefd
<1>12. Roomy(t)
  BY <1>5 DEF Roomy, SameRoom
<1> QED
  BY <1>5, <1>6, <1>10, <1>11, <1>12 DEF Fit, Ready

(* Whether the page handed out counts as a table is no matter as long as   *)
(* it is not used as one.                                                  *)
LEMMA UntabledFit ==
  ASSUME NEW s, NEW home, NEW y, NEW N, NEW p, Fit(s, home, y, N, p), ~IsTable(s, p)
  PROVE  Fit(s, home, y, N, NoPage)
<1>1. Tabs(s, p) = Tabs(s, NoPage) /\ Spare(s, p) = Spare(s, NoPage)
  BY DEF Tabs, Spare, NoPage, Pages
<1>2. Good(s, home, N, NoPage)
  BY <1>1 DEF Good, Fit
<1> QED
  BY <1>2 DEF Fit

(* A PTE of a lowest table maps a page or becomes busy.                    *)
LEMMA MapFit ==
  ASSUME NEW s \in VmStates, NEW home, NEW y, NEW x, Fit(s, home, y, {}, x),
         NEW a \in PteAddr, a[1] # y, s.page[a[1]].use = "PML1", Entry(s, a).kind \notin Kinds,
         NEW e \in Pte, e.kind \in Kinds, NEW t, t = SetPte(s, a, e)
  PROVE  /\ t \in VmStates /\ Fit(t, home, y, {a}, x) /\ a \in Leaves(t)
         /\ a \in Valids(t) <=> e.kind = "Valid"
         /\ \A q \in Pages : SameRec(s, t, q)
<1>1. t \in VmStates
  BY SetPteType
<1>2. t.panic = NoPanic
  BY DEF SetPte, Then, Fit, VmStates
<1>3. Entered(s, t, a, e)
  BY <1>2, SetPteEffect
<1>4. /\ Good(t, home, {a}, x) /\ a \in Leaves(t)
      /\ a \in Valids(t) <=> e.kind = "Valid"
  BY <1>2, MapPteGood DEF Fit
<1>5. t.wsl = s.wsl
  BY WslKept, AddrParts
<1>6. /\ \A q \in Pages : SameRec(s, t, q)
      /\ \A b \in PteAddr : Entry(t, b) = IF b = a THEN e ELSE Entry(s, b)
  BY <1>3 DEF Entered
<1>7. Forest(t, home, y)
  <2>1. \A q \in Pages : t.page[q].use = s.page[q].use
    BY <1>6 DEF SameRec
  <2>2. \A b \in PteAddr : b[1] = y \/ s.page[b[1]].use # "PML1" => Entry(t, b) = Entry(s, b)
    BY <1>6
  <2> QED
    BY <2>1, <2>2, ForestKept DEF Fit
<1>8. Evictable(t, {a})
  <2>1. \A b \in PteAddr \ {a} : Entry(t, b) = Entry(s, b)
    BY <1>6
  <2>2. /\ \A q \in Pages : t.page[q].use = s.page[q].use
        /\ \A q \in Pages : IsAnon(s, q) /\ s.page[q].refcnt > 0 => t.page[q].refcnt > 0
    BY <1>6 DEF SameRec
  <2>3. {} \subseteq {a}
    OBVIOUS
  <2>4. Evictable(s, {})
    BY DEF Fit
  <2> QED
    BY <2>1, <2>2, <2>3, <2>4, EvictableKept
<1>9. Counts(t) /\ Refd1(t)
  BY <1>6 DEF Fit, Counts, Refd1, SameRec, IsTable
<1>10. Tidy(t)
  <2>1. e.kind # "Swap"
    BY DEF Kinds
  <2> QED
    BY <1>3, <2>1, TidyEffects DEF Fit
<1> QED
  BY <1>1, <1>2, <1>4, <1>5, <1>6, <1>7, <1>8, <1>9, <1>10 DEF Fit, Roomy

(* A PTE or a wiring is counted.                                           *)
LEMMA CreatedRoom ==
  ASSUME NEW s \in VmStates, NEW p \in Pages, NEW isNew \in BOOLEAN
  PROVE  SameRoom(s, NonswapPteCreated(s, p, isNew))
<1> DEFINE r == PageRetain(s, p)
           a == IF isNew THEN r.page[p].nonzero + 1 ELSE r.page[p].nonzero
           b == r.page[p].nonswap + 1
           t == [r EXCEPT !.page[p].nonzero = a, !.page[p].nonswap = b]
           w == WslLockEntry(t, TableKey(p))
           u == IF r.page[p].nonswap = 0 /\ ~IsRootTable(r, p) THEN w ELSE t
<1>1. r \in VmStates /\ r.wsl = s.wsl
  BY PageRetainType, WslKept
<1>2. NonswapPteCreated(s, p, isNew) = Then(r, u)
  BY DEF NonswapPteCreated
<1> HIDE DEF r
<1>3. a \in Int /\ b \in Int
  BY <1>1, PagePart, SMTT(60)
<1>4. t \in VmStates /\ t.wsl = r.wsl
  <2> HIDE DEF a, b
  <2>1. r.page[p].use \in PageUse /\ r.page[p].referent \in PteAddr
    BY <1>1, PagePart
  <2>2. t.wsl = r.wsl
    BY <1>1 DEF VmStates
  <2> QED
    BY <1>1, <1>3, <2>1, <2>2, TwoFieldsType, Zenon
<1> HIDE DEF t, a, b
<1>5. SameRoom(t, w)
  BY <1>4, EntryRoom
<1>6. SameRoom(s, r) /\ SameRoom(s, t) /\ SameRoom(s, w)
  BY <1>1, <1>4, <1>5 DEF SameRoom
<1> HIDE DEF w
<1>7. SameRoom(s, u)
  BY <1>6
<1> HIDE DEF u
<1> QED
  BY <1>2, <1>6, <1>7 DEF Then

(* A PTE is counted in a table: what a new table is linked into stays as   *)
(* it was.                                                                 *)
LEMMA CreatedFit ==
  ASSUME NEW s \in VmStates, NEW home, NEW y, NEW N, NEW x, Fit(s, home, y, N, x),
         NEW d \in Pages, d # x, d # y, IsTable(s, d), NEW isNew \in BOOLEAN,
         NEW t, t = NonswapPteCreated(s, d, isNew)
  PROVE  t \in VmStates /\ Fit(t, home, y, N, x) /\ Leaves(t) = Leaves(s) /\ Valids(t) = Valids(s)
         /\ \A b \in PteAddr : Entry(t, b) = Entry(s, b)
         /\ \A q \in Pages : t.page[q].use = s.page[q].use
<1>1. t \in VmStates
  BY NonswapPteCreatedType
<1>2. s.page[d].nonswap >= 0 /\ (IsRootTable(s, d) <=> d = Root)
  BY DirFacts DEF Fit
<1>3. s.page[d].refcnt > 0
  <2>1. s.page[d].refcnt >= s.page[d].nonswap + 1
    BY DEF Fit, Refd1
  <2>2. s.page[d].refcnt \in Int /\ s.page[d].nonswap \in Int
    BY PagePart
  <2> QED
    BY <1>2, <2>1, <2>2
<1>4. t.panic = NoPanic
  BY <1>2, <1>3, CreatedPasses DEF Fit
<1>5. Adjusted(s, t, d, 1, IF isNew THEN 1 ELSE 0, 1)
  BY <1>4, NonswapPteCreatedEffect
<1> DEFINE n == IF isNew THEN 1 ELSE 0
<1>6. Adjusted(s, t, d, 1, n, 1)
  BY <1>5
<1> HIDE DEF n
<1>7. Good(t, home, N, x)
  BY <1>2, <1>4, CreatedGood DEF Fit
<1>8. SameLeaves(s, t)
  BY <1>6, AdjustedSets
<1>9. Steady(s, t) /\ \A b \in PteAddr : Entry(t, b) = Entry(s, b)
  BY <1>6, SteadySteps
<1>10. Forest(t, home, y)
  BY <1>9, ForestKept DEF Fit, Steady
<1>11. /\ \A q \in Pages \ {d} : SameRec(s, t, q)
       /\ t.page[d].refcnt = s.page[d].refcnt + 1 /\ t.page[d].nonswap = s.page[d].nonswap + 1
  BY <1>6 DEF Adjusted
<1>12. Counts(t)
  <2> SUFFICES ASSUME NEW q \in Pages, IsTable(t, q) PROVE t.page[q].nonswap >= 0
    BY DEF Counts
  <2>1. IsTable(s, q) /\ s.page[q].nonswap >= 0
    BY <1>9 DEF Steady, IsTable, Fit, Counts
  <2>2. s.page[q].nonswap \in Int
    BY PagePart
  <2>3. t.page[q].nonswap \in {s.page[q].nonswap, s.page[q].nonswap + 1}
    BY <1>11 DEF SameRec
  <2> QED
    BY <2>1, <2>2, <2>3
<1>13. Refd1(t)
  <2> SUFFICES ASSUME NEW q \in Pages, IsTable(t, q)
               PROVE  t.page[q].refcnt >= t.page[q].nonswap + 1
    BY DEF Refd1
  <2>1. IsTable(s, q) /\ s.page[q].refcnt >= s.page[q].nonswap + 1
    BY <1>9 DEF Steady, IsTable, Fit, Refd1
  <2>2. s.page[q].nonswap \in Int /\ s.page[q].refcnt \in Int
    BY PagePart
  <2>3. \/ t.page[q].nonswap = s.page[q].nonswap /\ t.page[q].refcnt = s.page[q].refcnt
        \/ t.page[q].nonswap = s.page[q].nonswap + 1 /\ t.page[q].refcnt = s.page[q].refcnt + 1
    BY <1>11 DEF SameRec
  <2> QED
    BY <2>1, <2>2, <2>3
<1>14. Evictable(t, N)
  <2>1. \A q \in Pages : IsAnon(s, q) /\ s.page[q].refcnt > 0 => t.page[q].refcnt > 0
    <3>1. ~IsAnon(s, d)
      BY DEF IsAnon, IsTable, TableUses
    <3> QED
      BY <1>11, <3>1 DEF SameRec
  <2>2. \A q \in Pages : t.page[q].use = s.page[q].use
    BY <1>9 DEF Steady
  <2>3. N \subseteq N /\ Evictable(s, N)
    BY DEF Fit
  <2> QED
    BY <1>9, <2>1, <2>2, <2>3, EvictableKept
<1>15. Tidy(t)
  BY <1>6, TidyEffects DEF Fit
<1>16. Roomy(t)
  <2>1. SameRoom(s, t)
    BY CreatedRoom
  <2> QED
    BY <2>1 DEF SameRoom, Roomy, Fit
<1> QED
  BY <1>1, <1>4, <1>7, <1>8, <1>9, <1>10, <1>12, <1>13, <1>14, <1>15, <1>16
     DEF Fit, SameLeaves, Steady

(* A page gets a referent.                                                 *)
LEMMA ReferTidy ==
  ASSUME NEW s \in VmStates, NEW p \in Pages, s.page[p].use # "Free", NEW a,
         NEW t, t = SetReferent(s, p, a)
  PROVE  /\ t.panic = s.panic /\ t.wsl = s.wsl /\ t.table = s.table
         /\ Tidy(s) => Tidy(t)
         /\ Roomy(s) => Roomy(t)
         /\ \A q \in Pages : /\ t.page[q].use = s.page[q].use
                             /\ t.page[q].refcnt = s.page[q].refcnt
                             /\ t.page[q].nonzero = s.page[q].nonzero
                             /\ t.page[q].nonswap = s.page[q].nonswap
<1>1. t.panic = s.panic
  BY DEF SetReferent, Then, VmStates
<1>2. t.wsl = s.wsl
  BY WslKept
<1>3. CASE s.panic = NoPanic
  <2>1. Referred(s, t, p, a)
    BY <1>1, <1>3, SetReferentEffect
  <2>2. Tidy(s) => Tidy(t)
    BY <2>1, TidyEffects
  <2> QED
    BY <1>1, <1>2, <2>1, <2>2 DEF Referred, SameRec, Roomy
<1>4. CASE s.panic # NoPanic
  BY <1>4 DEF SetReferent, Then
<1> QED
  BY <1>3, <1>4

(* A referent is set: what a new table is linked into stays as it was.   *)
LEMMA ReferFit ==
  ASSUME NEW s \in VmStates, NEW home, NEW y, NEW N, NEW x, Fit(s, home, y, N, x),
         NEW p \in Pages, s.page[p].use # "Free", NEW a \in PteAddr, NEW t, t = SetReferent(s, p, a)
  PROVE  t \in VmStates /\ Fit(t, home, y, N, x)
<1>1. t \in VmStates
  BY SetReferentType
<1>2. /\ t.panic = NoPanic /\ t.wsl = s.wsl /\ Tidy(t) /\ Roomy(t)
      /\ \A q \in Pages : /\ t.page[q].use = s.page[q].use /\ t.page[q].refcnt = s.page[q].refcnt
                          /\ t.page[q].nonswap = s.page[q].nonswap
      /\ \A b \in PteAddr : Entry(t, b) = Entry(s, b)
  <2>1. s.panic = NoPanic /\ Tidy(s) /\ Roomy(s)
    BY DEF Fit
  <2>2. /\ t.panic = s.panic /\ t.wsl = s.wsl /\ t.table = s.table
        /\ Tidy(s) => Tidy(t)
        /\ Roomy(s) => Roomy(t)
        /\ \A q \in Pages : /\ t.page[q].use = s.page[q].use
                            /\ t.page[q].refcnt = s.page[q].refcnt
                            /\ t.page[q].nonswap = s.page[q].nonswap
    BY ReferTidy
  <2> QED
    BY <2>1, <2>2 DEF Entry
<1>3. Good(t, home, N, x)
  BY <1>2, SetReferentGood DEF Fit
<1>4. Forest(t, home, y)
  BY <1>2, ForestKept DEF Fit
<1>5. Evictable(t, N)
  <2>1. N \subseteq N /\ Evictable(s, N)
    BY DEF Fit
  <2> QED
    BY <1>2, <2>1, EvictableKept
<1>6. Counts(t) /\ Refd1(t)
  BY <1>2 DEF Fit, Counts, Refd1, IsTable
<1> QED
  BY <1>1, <1>2, <1>3, <1>4, <1>5, <1>6 DEF Fit

-----------------------------------------------------------------------------
(* A section ends in one of the known assertions, or in a state the next   *)
(* section can begin in.                                                   *)
Settled(t) == Known(t) /\ (t.panic = NoPanic => Tidy(t) /\ Roomy(t))

(* A page that was mapped, or a busy PTE, is entered in the list.          *)
LEMMA InsertLeafFit ==
  ASSUME NEW s \in VmStates, NEW home, NEW y, NEW x, NEW a \in Leaves(s),
         Fit(s, home, y, {a}, x), NEW v, v = Addr(home, a), v \in VAddrs,
         NEW locked \in BOOLEAN
  PROVE  Settled(WslInsert(s, LeafKey(v), locked))
<1> DEFINE t == WslInsert(s, LeafKey(v), locked)
<1>1. LeafKey(v) \in WsKey
  BY VmmAssumption DEF LeafKey, WsKey
<1>2. Forest(s, home, y) /\ Good(s, home, {a}, x)
  BY DEF Fit
<1>3. \A b \in Leaves(s) : b \in PteAddr /\ b[1] # y /\ s.page[b[1]].use = "PML1"
  BY <1>2 DEF Leaves, Forest, Kinds
<1>4. LeafKey(v) \notin s.wsl.tree
  <2>1. s.wsl.tree = Keys(home, Leaves(s) \ {a}) \cup TKeys(Tabs(s, x))
    BY <1>2 DEF Good, Held, WslIs
  <2>2. LeafKey(v) \notin TKeys(Tabs(s, x))
    BY KeyKinds
  <2>3. ASSUME LeafKey(v) \in Keys(home, Leaves(s) \ {a}) PROVE FALSE
    <3>1. PICK b \in Leaves(s) \ {a} : Addr(home, b) = v
      BY <2>3, KeyKinds
    <3>2. a = b
      BY <1>2, <1>3, <3>1, AddrOnce
    <3> QED
      BY <3>1, <3>2
  <2> QED
    BY <2>1, <2>2, <2>3
<1>5. Known(t)
  BY <1>1, <1>2, <1>4, InsertKnown DEF Fit
<1>6. ASSUME t.panic = NoPanic PROVE Tidy(t) /\ Roomy(t)
  <2>1. Trimmed(s, t)
    BY <1>1, <1>6, WslInsertEffect
  <2>2. Tidy(t)
    BY <2>1, TidyEffects DEF Fit
  <2>3. Roomy(t)
    BY <1>1, <1>6, InsertRoom DEF Fit
  <2> QED
    BY <2>2, <2>3
<1> QED
  BY <1>5, <1>6 DEF Settled

(* It is also told where it is mapped.                                     *)
LEMMA ReferSettled ==
  ASSUME NEW s \in VmStates, Settled(s), NEW p \in Pages,
         s.panic = NoPanic => s.page[p].use # "Free", NEW a
  PROVE  Settled(SetReferent(s, p, a))
<1> DEFINE t == SetReferent(s, p, a)
<1>1. CASE s.panic = NoPanic
  <2>1. t.panic = s.panic /\ (Tidy(s) => Tidy(t)) /\ (Roomy(s) => Roomy(t))
    BY <1>1, ReferTidy
  <2> QED
    BY <1>1, <2>1 DEF Settled, Known
<1>2. CASE s.panic # NoPanic
  BY <1>2 DEF SetReferent, Then
<1> QED
  BY <1>1, <1>2

(* What an allocation leaves of the leaf PTE it is for.                    *)
LEMMA ReadyLeaf ==
  ASSUME NEW s, NEW t, NEW p, Ready(s, t, p, "AnonPrivate"),
         NEW a \in PteAddr, s.page[a[1]].use = "PML1"
  PROVE  /\ p \in Pages /\ a[1] \in Pages \ {p} /\ t.page[p].use = "AnonPrivate"
         /\ ~IsTable(t, p) /\ t.page[a[1]].use = "PML1" /\ IsTable(t, a[1])
         /\ Entry(s, a).kind # "Trans" => Entry(t, a) = Entry(s, a)
<1>1. a[1] \in Pages /\ IsTable(s, a[1])
  BY AddrParts DEF IsTable, TableUses
<1>2. a[1] # p
  BY <1>1 DEF Ready
<1> QED
  BY <1>1, <1>2 DEF Ready, Allocated, IsTable, TableUses

(* A demand-zero fault.                                                    *)
LEMMA ZeroFillSettled ==
  ASSUME NEW s \in VmStates, Orderly(s), Tidy(s), Roomy(s), s.panic = NoPanic, CanAlloc(s),
         NEW a \in PteAddr, NEW w \in BOOLEAN,
         Entry(s, a).kind = "Zero", s.page[a[1]].use = "PML1",
         NEW v, v = Addr(Home(s), a), v \in VAddrs
  PROVE  Settled(ZeroFill(s, a, LeafKey(v), w))
<1> DEFINE p  == AllocatedPage(s)
           x  == HwPte(p, w)
           k  == LeafKey(v)
           s1 == PageAlloc(s, "AnonPrivate")
           s2 == SetPte(s1, a, x)
           s3 == NonswapPteCreated(s2, a[1], TRUE)
           s4 == WslInsert(s3, k, FALSE)
           s5 == SetReferent(s4, p, a)
           d  == a[1]
<1>1. s5 = ZeroFill(s, a, k, w)
  BY DEF ZeroFill
<1>2. k \in WsKey
  BY VmmAssumption DEF LeafKey, WsKey
<1>3. s1 \in VmStates /\ Ready(s, s1, p, "AnonPrivate") /\ Fit(s1, Home(s), p, {}, p)
  BY AllocFit
<1> HIDE DEF p, s1
<1>4. /\ p \in Pages /\ d \in Pages \ {p} /\ s1.page[p].use = "AnonPrivate"
      /\ ~IsTable(s1, p) /\ s1.page[d].use = "PML1" /\ IsTable(s1, d)
      /\ Entry(s1, a) = Entry(s, a)
  BY <1>3, ReadyLeaf
<1>5. Fit(s1, Home(s), p, {}, NoPage)
  BY <1>3, <1>4, UntabledFit
<1>6. x \in Pte /\ x.kind = "Valid"
  <2>1. 0 \in Nat \cup {NoSlot}
    OBVIOUS
  <2>2. x \in Pte
    BY ONLY <1>4, <2>1, w \in BOOLEAN, PteTypes
  <2> QED
    BY <2>2 DEF HwPte, ZeroPte
<1> HIDE DEF x
<1>7. /\ s2 \in VmStates /\ Fit(s2, Home(s), p, {a}, NoPage) /\ a \in Leaves(s2)
      /\ a \in Valids(s2) /\ \A q \in Pages : SameRec(s1, s2, q)
  BY <1>3, <1>4, <1>5, <1>6, MapFit DEF Kinds
<1> HIDE DEF s2
<1>8. IsTable(s2, d) /\ s2.page[p].use = "AnonPrivate"
  BY <1>4, <1>7 DEF SameRec, IsTable
<1>9. d \in Pages /\ d # NoPage /\ d # p
  BY <1>4 DEF NoPage, Pages
<1>10. /\ s3 \in VmStates /\ Fit(s3, Home(s), p, {a}, NoPage) /\ a \in Leaves(s3)
       /\ s3.page[p].use = "AnonPrivate"
  <2> DEFINE isNew == TRUE
  <2>1. s3 = NonswapPteCreated(s2, d, isNew) /\ isNew \in BOOLEAN
    OBVIOUS
  <2> HIDE DEF s3, d, isNew
  <2>2. /\ s3 \in VmStates /\ Fit(s3, Home(s), p, {a}, NoPage) /\ Leaves(s3) = Leaves(s2)
        /\ \A q \in Pages : s3.page[q].use = s2.page[q].use
    BY ONLY <1>7, <1>8, <1>9, <2>1, CreatedFit
  <2> QED
    BY <1>4, <1>7, <1>8, <2>2
<1> HIDE DEF s3
<1>11. s4 \in VmStates /\ Settled(s4)
  BY <1>2, <1>10, FALSE \in BOOLEAN, WslInsertType, InsertLeafFit
<1>12. s4.panic = NoPanic => s4.page[p].use # "Free"
  BY <1>2, <1>4, <1>10, FALSE \in BOOLEAN, WslInsertEffect, SteadySteps DEF Steady
<1> HIDE DEF s4
<1> QED
  BY <1>1, <1>4, <1>11, <1>12, ReferSettled DEF k

(* The first half of a swap-in.                                            *)
LEMMA StartReadSettled ==
  ASSUME NEW s \in VmStates, Orderly(s), Tidy(s), Roomy(s), s.panic = NoPanic, CanAlloc(s),
         NEW a \in PteAddr, Entry(s, a).kind = "Swap", s.page[a[1]].use = "PML1",
         NEW v, v = Addr(Home(s), a), v \in VAddrs
  PROVE  Settled(StartRead(s, a, LeafKey(v)))
<1> DEFINE p  == AllocatedPage(s)
           s1 == PageAlloc(s, "AnonPrivate")
           s2 == SetReferent(s1, p, a)
           s3 == SetPte(s2, a, BusyPte)
           s4 == NonswapPteCreated(s3, a[1], FALSE)
           s5 == WslInsert(s4, LeafKey(v), TRUE)
           d  == a[1]
<1>1. s5 = StartRead(s, a, LeafKey(v))
  BY DEF StartRead
<1>2. s1 \in VmStates /\ Ready(s, s1, p, "AnonPrivate") /\ Fit(s1, Home(s), p, {}, p)
  BY AllocFit
<1> HIDE DEF p, s1
<1>3. /\ p \in Pages /\ d \in Pages \ {p} /\ s1.page[p].use = "AnonPrivate"
      /\ ~IsTable(s1, p) /\ s1.page[d].use = "PML1" /\ IsTable(s1, d)
      /\ Entry(s1, a) = Entry(s, a)
  BY <1>2, ReadyLeaf
<1>4. Fit(s1, Home(s), p, {}, NoPage)
  BY <1>2, <1>3, UntabledFit
<1>5. s2 \in VmStates /\ Fit(s2, Home(s), p, {}, NoPage)
  BY <1>2, <1>3, <1>4, ReferFit
<1>6. s2.page[d].use = "PML1" /\ IsTable(s2, d) /\ Entry(s2, a) = Entry(s, a)
  BY <1>2, <1>3, ReferTidy DEF IsTable, Entry
<1> HIDE DEF s2
<1>7. BusyPte \in Pte /\ BusyPte.kind = "Busy"
  <2>1. 0 \in Nat \cup {NoSlot} /\ FALSE \in BOOLEAN
    OBVIOUS
  <2>2. BusyPte \in Pte
    BY ONLY <1>3, <2>1, PteTypes
  <2> QED
    BY <2>2 DEF BusyPte, ZeroPte
<1>8. /\ s3 \in VmStates /\ Fit(s3, Home(s), p, {a}, NoPage) /\ a \in Leaves(s3)
      /\ \A q \in Pages : SameRec(s2, s3, q)
  <2>1. a[1] # p /\ s2.page[a[1]].use = "PML1" /\ Entry(s2, a).kind \notin Kinds
        /\ BusyPte.kind \in Kinds
    BY <1>3, <1>6, <1>7 DEF Kinds
  <2>2. s3 = SetPte(s2, a, BusyPte)
    OBVIOUS
  <2> HIDE DEF s3
  <2> QED
    BY ONLY <1>5, <1>7, <2>1, <2>2, a \in PteAddr, MapFit
<1> HIDE DEF s3
<1>9. IsTable(s3, d) /\ d \in Pages /\ d # NoPage /\ d # p
  BY <1>3, <1>6, <1>8 DEF SameRec, IsTable, NoPage, Pages
<1>10. s4 \in VmStates /\ Fit(s4, Home(s), p, {a}, NoPage) /\ a \in Leaves(s4)
  <2> DEFINE isNew == FALSE
  <2>1. s4 = NonswapPteCreated(s3, d, isNew) /\ isNew \in BOOLEAN
    OBVIOUS
  <2> HIDE DEF s4, d, isNew
  <2>2. /\ s4 \in VmStates /\ Fit(s4, Home(s), p, {a}, NoPage) /\ Leaves(s4) = Leaves(s3)
    BY ONLY <1>8, <1>9, <2>1, CreatedFit
  <2> QED
    BY <1>8, <2>2
<1> HIDE DEF s4
<1> QED
  BY <1>1, <1>10, TRUE \in BOOLEAN, InsertLeafFit

(* A page in use, or one on a queue, gets a reference.                     *)
LEMMA RetainFit ==
  ASSUME NEW s \in VmStates, NEW home, NEW y, NEW N, NEW x, Fit(s, home, y, N, x),
         NEW p \in Pages,
         s.page[p].refcnt > 0 \/ (s.page[p].use = "AnonPrivate" /\ Placed(s, NoPage)),
         NEW t, t = PageRetain(s, p)
  PROVE  t \in VmStates /\ Refd(s, t, p, 1) /\ Fit(t, home, y, N, x)
<1>1. t \in VmStates /\ t.wsl = s.wsl
  BY PageRetainType, WslKept
<1>2. t.panic = NoPanic
  BY RetainPasses DEF Fit
<1>3. Refd(s, t, p, 1)
  BY <1>2, PageRetainEffect
<1>4. Good(t, home, N, x)
  BY <1>2, RetainGood DEF Fit
<1>5. /\ \A q \in Pages : /\ t.page[q].use = s.page[q].use
                          /\ t.page[q].nonswap = s.page[q].nonswap
      /\ \A b \in PteAddr : Entry(t, b) = Entry(s, b)
  BY <1>3 DEF Refd, SameRec, Entry
<1>6. \A q \in Pages : t.page[q].refcnt \in {s.page[q].refcnt, s.page[q].refcnt + 1}
  BY <1>3 DEF Refd, SameRec
<1>7. \A q \in Pages : s.page[q].refcnt \in Nat /\ s.page[q].nonswap \in Int
  BY PagePart
<1>8. Forest(t, home, y)
  BY <1>5, ForestKept DEF Fit
<1>9. Evictable(t, N)
  <2>1. \A q \in Pages : IsAnon(s, q) /\ s.page[q].refcnt > 0 => t.page[q].refcnt > 0
    BY <1>6, <1>7
  <2>2. N \subseteq N /\ Evictable(s, N)
    BY DEF Fit
  <2> QED
    BY <1>5, <2>1, <2>2, EvictableKept
<1>10. Counts(t)
  BY <1>5 DEF Fit, Counts, IsTable
<1>11. Refd1(t)
  <2> SUFFICES ASSUME NEW q \in Pages, IsTable(t, q)
               PROVE  t.page[q].refcnt >= t.page[q].nonswap + 1
    BY DEF Refd1
  <2>1. s.page[q].refcnt >= s.page[q].nonswap + 1
    BY <1>5 DEF Fit, Refd1, IsTable
  <2> QED
    BY <1>5, <1>6, <1>7, <2>1
<1>12. Tidy(t) /\ Roomy(t)
  BY <1>1, <1>3, TidyEffects DEF Fit, Roomy
<1> QED
  BY <1>1, <1>2, <1>3, <1>4, <1>8, <1>9, <1>10, <1>11, <1>12 DEF Fit

(* A page is mapped again.                                                 *)
LEMMA ReclaimSettled ==
  ASSUME NEW s \in VmStates, Orderly(s), Tidy(s), Roomy(s), s.panic = NoPanic,
         NEW a \in PteAddr, NEW p \in Pages,
         Entry(s, a).kind = "Trans", Entry(s, a).page = p, s.page[a[1]].use = "PML1",
         NEW v, v = Addr(Home(s), a), v \in VAddrs
  PROVE  Settled(Reclaim(s, a, LeafKey(v), p))
<1> DEFINE x  == HwPte(p, FALSE)
           s1 == PageRetain(s, p)
           s2 == SetPte(s1, a, x)
           s3 == WslInsert(s2, LeafKey(v), FALSE)
<1>1. s3 = Reclaim(s, a, LeafKey(v), p)
  BY DEF Reclaim
<1>2. Fit(s, Home(s), NoPage, {}, NoPage)
  BY OrderlyFit
<1>3. s.page[p].use = "AnonPrivate" /\ Placed(s, NoPage)
  <2>1. PICK busy, pins, uses, refs : Owed(s, busy, pins, uses, refs)
    BY DEF Orderly
  <2>2. PtesLinked(s, Home(s), NoPage) /\ Placed(s, NoPage)
    BY <2>1 DEF Owed, Maps, Linked
  <2> QED
    BY <2>2 DEF PtesLinked, Below
<1>4. s1 \in VmStates /\ Refd(s, s1, p, 1) /\ Fit(s1, Home(s), NoPage, {}, NoPage)
  BY <1>2, <1>3, RetainFit
<1> HIDE DEF s1
<1>5. x \in Pte /\ x.kind = "Valid"
  <2>1. 0 \in Nat \cup {NoSlot} /\ FALSE \in BOOLEAN
    OBVIOUS
  <2>2. x \in Pte
    BY ONLY <2>1, p \in Pages, PteTypes
  <2> QED
    BY <2>2 DEF HwPte, ZeroPte
<1> HIDE DEF x
<1>6. /\ a[1] # NoPage /\ s1.page[a[1]].use = "PML1" /\ Entry(s1, a).kind \notin Kinds
      /\ x.kind \in Kinds
  BY <1>4, <1>5, AddrParts DEF Refd, SameRec, Entry, Kinds, NoPage, Pages
<1>7. s2 \in VmStates /\ Fit(s2, Home(s), NoPage, {a}, NoPage) /\ a \in Leaves(s2)
  BY <1>4, <1>5, <1>6, MapFit
<1> HIDE DEF s2
<1> QED
  BY <1>1, <1>7, FALSE \in BOOLEAN, InsertLeafFit

-----------------------------------------------------------------------------
(* Nothing follows a failed assertion.                                     *)
LEMMA CreatedStuck ==
  ASSUME NEW s, s.panic # NoPanic, NEW p, NEW isNew
  PROVE  NonswapPteCreated(s, p, isNew) = s
<1>1. PageRetain(s, p) = s
  BY DEF PageRetain, Kassert, Then
<1> QED
  BY <1>1 DEF NonswapPteCreated, Then

(* A halted program sets no PTE.                                         *)
LEMMA SetPteStuck ==
  ASSUME NEW s, s.panic # NoPanic, NEW a, NEW e
  PROVE  SetPte(s, a, e) = s
  BY DEF SetPte, Then

(* A PTE is set that is no swap PTE.                                       *)
LEMMA SetPteSettled ==
  ASSUME NEW s \in VmStates, Settled(s), NEW a \in PteAddr, NEW e, e.kind # "Swap"
  PROVE  Settled(SetPte(s, a, e))
<1> DEFINE t == SetPte(s, a, e)
<1>1. CASE s.panic = NoPanic
  <2>1. t.panic = NoPanic /\ t.wsl = s.wsl
    BY <1>1 DEF SetPte, Then, VmStates
  <2>2. Entered(s, t, a, e)
    BY <2>1, SetPteEffect
  <2>3. Tidy(s) /\ Roomy(s)
    BY <1>1 DEF Settled
  <2>4. Tidy(t) /\ Roomy(t)
    BY <2>1, <2>2, <2>3, TidyEffects DEF Roomy
  <2> QED
    BY <2>1, <2>4 DEF Settled, Known
<1>2. CASE s.panic # NoPanic
  BY <1>2, SetPteStuck
<1> QED
  BY <1>1, <1>2

(* The counts of the tables once an entry of the list was evicted, or not. *)
LEMMA TrimmedCounts ==
  ASSUME NEW s \in VmStates, NEW t, Trimmed(s, t), Counts(s), Refd1(s)
  PROVE  Counts(t) /\ Refd1(t)
<1>1. ASSUME NEW q \in Pages, IsTable(t, q)
      PROVE  /\ IsTable(s, q) /\ t.page[q].nonswap = s.page[q].nonswap
             /\ t.page[q].refcnt = s.page[q].refcnt
  <2>1. CASE Same(s, t)
    BY <1>1, <2>1 DEF Same, SameRec, IsTable
  <2>2. ASSUME NEW a \in PteAddr, EvictedAt(s, t, a)
        PROVE  /\ IsTable(s, q) /\ t.page[q].nonswap = s.page[q].nonswap
               /\ t.page[q].refcnt = s.page[q].refcnt
    <3> DEFINE r == Entry(s, a).page
    <3>1. IsAnon(s, r) /\ t.page[r].use = s.page[r].use /\ \A b \in Pages \ {r} : SameRec(s, t, b)
      BY <2>2 DEF EvictedAt
    <3> HIDE DEF r
    <3>2. q # r
      BY <1>1, <3>1 DEF IsTable, IsAnon, TableUses
    <3> QED
      BY <1>1, <3>1, <3>2 DEF SameRec, IsTable
  <2> QED
    BY <2>1, <2>2 DEF Trimmed
<1> QED
  BY <1>1 DEF Counts, Refd1

(* A new table, which has its two references, is entered in the list and   *)
(* in its directory.                                                       *)
LEMMA EnterTableSettled ==
  ASSUME NEW s \in VmStates, NEW dir \in Pages, NEW i \in Idx, NEW p \in Pages \ {Root},
         NEW a, Enterable(s, dir, i, a, p), NEW home, Fit(s, home, p, {}, p),
         s.page[p].refcnt >= s.page[p].nonswap + 2
  PROVE  Settled(NewEntry(s, dir, i, p))
<1> DEFINE x  == HwPte(p, TRUE)
           s1 == OneWiring(s, p)
           k  == TableKey(p)
           s2 == WslInsert(s1, k, TRUE)
           s3 == NonswapPteCreated(s2, dir, TRUE)
           s4 == SetPte(s3, a, x)
<1>1. /\ IsTable(s, p) /\ IsTable(s, dir) /\ s.page[p].use = Below(s.page[dir].use)
      /\ a = << dir, i >> /\ dir # p
  BY DEF Enterable
<1>2. s4 = NewEntry(s, dir, i, p)
  <2>1. s1 = Then(s, s1)
    BY DEF Then, Fit
  <2> QED
    BY <1>1, <2>1 DEF NewEntry, EnterTable, OneWiring
<1>3. a \in PteAddr /\ k \in WsKey
  BY <1>1, TableKeyType DEF PteAddr
<1>4. x.kind = "Valid"
  BY DEF HwPte, ZeroPte
<1> HIDE DEF x
<1>5. /\ s1 \in VmStates /\ Adjusted(s, s1, p, 0, 1, 1) /\ s1.wsl = s.wsl /\ s1.panic = NoPanic
  <2>1. s1.wsl = s.wsl /\ s1.panic = s.panic
    BY DEF OneWiring, VmStates
  <2> QED
    BY <2>1, TableCounted DEF Fit
<1> HIDE DEF s1
<1>6. Steady(s, s1) /\ \A b \in PteAddr : Entry(s1, b) = Entry(s, b)
  BY <1>5, SteadySteps
<1>7. /\ \A q \in Pages \ {p} : SameRec(s, s1, q)
      /\ s1.page[p].refcnt = s.page[p].refcnt + 0 /\ s1.page[p].nonswap = s.page[p].nonswap + 1
  BY <1>5, Zenon DEF Adjusted
<1>8. \A q \in Pages : s.page[q].refcnt \in Int /\ s.page[q].nonswap \in Int
  BY PagePart
<1>9. \A q \in Pages : s1.page[q].refcnt = s.page[q].refcnt
  BY <1>7, <1>8 DEF SameRec
<1>10. Good(s1, home, {}, p)
  <2>1. /\ SameLeaves(s, s1) /\ Tabs(s1, p) = Tabs(s, p)
        /\ Spare(s1, p) \ {p} = Spare(s, p) \ {p}
    BY <1>5, AdjustedSets
  <2>2. p \notin Spare(s1, p) /\ p \notin Spare(s, p)
    BY DEF Spare, Tabs
  <2>3. Spare(s1, p) = Spare(s, p)
    BY <2>1, <2>2
  <2> QED
    BY <1>5, <2>1, <2>3, GoodKept DEF Fit
<1>11. Forest(s1, home, p) /\ Roomy(s1) /\ Tidy(s1)
  BY <1>1, <1>5, <1>6, ForestKept, TidyEffects DEF Fit, Steady, Roomy
<1>12. Evictable(s1, {})
  <2>1. {} \subseteq {} /\ Evictable(s, {})
    BY DEF Fit
  <2> QED
    BY <1>6, <1>9, <2>1, EvictableKept DEF Steady
<1>13. Counts(s1) /\ Refd1(s1) /\ s1.page[p].nonswap # 0 /\ IsTable(s1, p)
  <2>1. IsTable(s1, p) /\ \A q \in Pages : IsTable(s1, q) <=> IsTable(s, q)
    BY <1>1, <1>6 DEF Steady, IsTable
  <2>2. s.page[p].nonswap >= 0
    BY <1>1 DEF Fit, Counts
  <2>3. \A q \in Pages \ {p} : s1.page[q].nonswap = s.page[q].nonswap
    BY <1>7 DEF SameRec
  <2>4. Counts(s1)
    BY <1>7, <1>8, <2>1, <2>2, <2>3 DEF Fit, Counts
  <2>5. Refd1(s1)
    BY <1>7, <1>8, <1>9, <2>1, <2>3 DEF Fit, Refd1
  <2> QED
    BY <1>7, <1>8, <2>1, <2>2, <2>4, <2>5
<1>14. k \notin s1.wsl.tree
  <2>1. s1.wsl.tree = Keys(home, Leaves(s1) \ {}) \cup TKeys(Tabs(s1, p))
    BY <1>10 DEF Good, Held, WslIs
  <2>2. p \notin Tabs(s1, p)
    BY DEF Tabs
  <2> QED
    BY <2>1, <2>2, KeyKinds
<1>15. s2 \in VmStates
  BY <1>3, <1>5, TRUE \in BOOLEAN, WslInsertType
<1>16. Known(s2)
  BY <1>3, <1>5, <1>10, <1>11, <1>12, <1>14, TRUE \in BOOLEAN, InsertKnown
<1>17. ASSUME s2.panic = NoPanic
       PROVE  /\ Good(s2, home, {}, NoPage) /\ Trimmed(s1, s2) /\ Forest(s2, home, p)
              /\ Counts(s2) /\ Refd1(s2) /\ Tidy(s2) /\ Roomy(s2)
  <2>1. Trimmed(s1, s2)
    BY <1>3, <1>5, <1>17, TRUE \in BOOLEAN, WslInsertEffect
  <2>2. Roomy(s2)
    BY <1>3, <1>5, <1>11, <1>17, TRUE \in BOOLEAN, InsertRoom
  <2>3. Good(s2, home, {}, NoPage)
    BY <1>5, <1>10, <1>11, <1>13, <1>17, InsertTableGood
  <2> HIDE DEF s2
  <2> QED
    BY <1>5, <1>11, <1>13, <2>1, <2>2, <2>3, TrimmedForest, TrimmedCounts, TidyEffects
<1> HIDE DEF k, s2
<1>18. Settled(s2)
  BY <1>16, <1>17 DEF Settled
<1>19. s3 \in VmStates /\ Settled(s3)
  <2> DEFINE isNew == TRUE
  <2>1. s3 = NonswapPteCreated(s2, dir, isNew) /\ isNew \in BOOLEAN
    OBVIOUS
  <2> HIDE DEF s3, isNew
  <2>2. s3 \in VmStates /\ SameRoom(s2, s3)
    BY <1>15, <2>1, NonswapPteCreatedType, CreatedRoom
  <2>3. CASE s2.panic = NoPanic
    <3>1. Steady(s1, s2)
      BY <1>5, <1>17, <2>3, SteadySteps
    <3>2. IsTable(s2, dir) /\ dir # NoPage
      BY <1>1, <1>6, <3>1 DEF Steady, IsTable, NoPage, Pages
    <3>3. s2.page[dir].nonswap >= 0 /\ (IsRootTable(s2, dir) <=> dir = Root)
      BY <1>1, <1>15, <1>17, <2>3, <3>2, DirFacts
    <3>4. s2.page[dir].refcnt > 0
      <4>1. s2.page[dir].refcnt >= s2.page[dir].nonswap + 1
        BY <1>17, <2>3, <3>2 DEF Refd1
      <4>2. s2.page[dir].refcnt \in Int /\ s2.page[dir].nonswap \in Int
        BY <1>15, PagePart
      <4> QED
        BY <3>3, <4>1, <4>2
    <3>5. s3.panic = NoPanic
      BY <1>15, <1>17, <2>1, <2>3, <3>2, <3>3, <3>4, CreatedPasses
    <3>6. Adjusted(s2, s3, dir, 1, IF isNew THEN 1 ELSE 0, 1)
      BY <1>15, <2>1, <3>5, NonswapPteCreatedEffect
    <3>7. Tidy(s3)
      BY <1>15, <1>17, <2>3, <3>2, <3>6, TidyEffects
    <3>8. Roomy(s3)
      BY <1>17, <2>2, <2>3 DEF Roomy, SameRoom
    <3> QED
      BY <2>2, <3>5, <3>7, <3>8 DEF Settled, Known
  <2>4. CASE s2.panic # NoPanic
    <3>1. s3 = s2
      BY <2>1, <2>4, CreatedStuck
    <3> QED
      BY <1>15, <1>18, <3>1
  <2> QED
    BY <2>3, <2>4
<1> HIDE DEF s3
<1> QED
  BY <1>2, <1>3, <1>4, <1>19, SetPteSettled

(* A table is made, if a page can be had.                                  *)
LEMMA NewTableSettled ==
  ASSUME NEW s \in VmStates, Orderly(s), Tidy(s), Roomy(s), s.panic = NoPanic,
         NEW dir \in Pages, NEW i \in Idx, NEW use \in TableUses, NEW a, a = << dir, i >>,
         Entry(s, a).kind = "Zero", IsTable(s, dir), use = Below(s.page[dir].use)
  PROVE  Settled(NewTable(s, dir, i, use))
<1> DEFINE p  == AllocatedPage(s)
           s1 == PageAlloc(s, use)
           s2 == PageRetain(s1, p)
           s3 == SetReferent(s2, p, a)
           s4 == NewEntry(s3, dir, i, p)
<1>1. NewTable(s, dir, i, use) = Kassert(s, CanAlloc(s), "tables.c:226", s4)
  BY DEF NewTable, NewEntry
<1> HIDE DEF s4
<1>2. CASE ~CanAlloc(s)
  <2> DEFINE f == [s EXCEPT !.panic = "tables.c:226"]
  <2>1. f.panic = "tables.c:226"
    BY DEF VmStates
  <2>2. NewTable(s, dir, i, use) = f
    BY <1>1, <1>2 DEF Kassert, Then
  <2> HIDE DEF f
  <2> QED
    BY <2>1, <2>2 DEF Settled, Known, ReachablePanics, NoPanic
<1>3. CASE CanAlloc(s)
  <2>1. NewTable(s, dir, i, use) = s4
    BY <1>1, <1>3 DEF Kassert, Then
  <2>2. s1 \in VmStates /\ Ready(s, s1, p, use) /\ Fit(s1, Home(s), p, {}, p)
    BY <1>3, AllocFit
  <2> HIDE DEF p, s1
  <2>3. p \in Pages \ {Root} /\ dir # p /\ IsTable(s1, p)
        /\ s1.page[p].use = use /\ s1.page[dir].use = s.page[dir].use
    BY <2>2 DEF Ready, Allocated, IsTable
  <2>4. a \in PteAddr /\ Entry(s1, a).kind = "Zero"
    <3>1. a \in PteAddr /\ a[1] # p
      BY <2>3 DEF PteAddr
    <3> QED
      BY <2>2, <3>1, Zenon DEF Ready, Allocated
  <2>5. s1.page[p].refcnt >= s1.page[p].nonswap + 1 /\ s1.page[p].nonswap >= 0
    BY <2>2, <2>3 DEF Fit, Refd1, Counts
  <2>6. s1.page[p].refcnt \in Int /\ s1.page[p].nonswap \in Int
    BY <2>2, <2>3, PagePart
  <2>7. s2 \in VmStates /\ Refd(s1, s2, p, 1) /\ Fit(s2, Home(s), p, {}, p)
    <3>1. s1.page[p].refcnt > 0
      BY <2>5, <2>6
    <3> QED
      BY <2>2, <2>3, <3>1, RetainFit
  <2> HIDE DEF s2
  <2>8. s2.page[p].refcnt >= s2.page[p].nonswap + 2
    BY <2>5, <2>6, <2>7 DEF Refd
  <2>9. /\ s2.page[p].use = use /\ s2.page[p].use # "Free"
        /\ s2.page[dir].use = s.page[dir].use /\ Entry(s2, a).kind = "Zero"
    BY <2>3, <2>4, <2>7 DEF Refd, SameRec, Entry, TableUses
  <2>10. s3 \in VmStates /\ Fit(s3, Home(s), p, {}, p)
    BY <2>3, <2>4, <2>7, <2>9, ReferFit
  <2>11. /\ s3.table = s2.table
         /\ \A q \in Pages : /\ s3.page[q].use = s2.page[q].use
                             /\ s3.page[q].refcnt = s2.page[q].refcnt
                             /\ s3.page[q].nonswap = s2.page[q].nonswap
    BY <2>3, <2>7, <2>9, ReferTidy
  <2> HIDE DEF s3
  <2>12. Enterable(s3, dir, i, a, p)
    BY <2>3, <2>9, <2>11 DEF Enterable, IsTable, Entry
  <2>13. s3.page[p].refcnt >= s3.page[p].nonswap + 2
    BY <2>3, <2>8, <2>11
  <2>14. Settled(s4)
    BY <2>3, <2>10, <2>12, <2>13, EnterTableSettled DEF s4
  <2> QED
    BY <2>1, <2>14
<1> QED
  BY <1>2, <1>3

(* A table that is in core is wired.                                       *)
LEMMA WiredSettled ==
  ASSUME NEW s \in VmStates, Orderly(s), Tidy(s), Roomy(s), s.panic = NoPanic,
         NEW p \in Pages, IsTable(s, p)
  PROVE  Settled(NonswapPteCreated(s, p, TRUE))
<1> DEFINE isNew == TRUE
           t == NonswapPteCreated(s, p, isNew)
<1>1. isNew \in BOOLEAN
  OBVIOUS
<1> HIDE DEF isNew
<1>2. Fit(s, Home(s), NoPage, {}, NoPage)
  BY OrderlyFit
<1>3. p # NoPage
  BY DEF NoPage, Pages
<1>4. Fit(t, Home(s), NoPage, {}, NoPage)
  BY <1>1, <1>2, <1>3, CreatedFit
<1>5. Settled(t)
  BY <1>4 DEF Fit, Settled, Known
<1> QED
  BY <1>5 DEF isNew

(* One level of the wiring.                                                *)
LEMMA WireTableSettled ==
  ASSUME NEW s \in VmStates, Orderly(s), Tidy(s), Roomy(s), s.panic = NoPanic,
         NEW dir \in Pages, NEW i \in Idx, NEW use \in TableUses,
         IsTable(s, dir), use = Below(s.page[dir].use)
  PROVE  Settled(WireTable(s, dir, i, use))
<1> DEFINE a == << dir, i >>
           p == Entry(s, a).page
           t == WireTable(s, dir, i, use)
<1>1. a \in PteAddr /\ a[1] = dir /\ Entry(s, a) = s.table[dir][i]
  BY DEF PteAddr, Entry
<1>2. p \in Pages /\ Entry(s, a).kind \in PteKind
  BY <1>1, EntryPart
<1>3. s.page[dir].use # "PML1"
  BY DEF Below, TableUses
<1>4. PICK busy, pins, uses, refs : Owed(s, busy, pins, uses, refs)
  BY DEF Orderly
<1>5. PtesLinked(s, Home(s), NoPage) /\ BusyLinked(s, Home(s), NoPage, busy)
  BY <1>4 DEF Owed, Maps, Linked
<1>6. CASE Entry(s, a).kind = "Valid"
  <2>1. t = NonswapPteCreated(s, p, TRUE)
    BY <1>1, <1>6 DEF WireTable
  <2>2. IsTable(s, p)
    BY <1>1, <1>5, <1>6 DEF IsTable, PtesLinked
  <2> QED
    BY <1>2, <2>1, <2>2, WiredSettled
<1>7. CASE Entry(s, a).kind = "Trans"
  BY <1>1, <1>3, <1>5, <1>7 DEF PtesLinked
<1>8. CASE Entry(s, a).kind = "Zero"
  <2>1. t = NewTable(s, dir, i, use)
    BY <1>1, <1>8 DEF WireTable
  <2> QED
    BY <1>8, <2>1, NewTableSettled
<1>9. CASE Entry(s, a).kind = "Busy"
  <2>1. PICK q \in Pages : << a, q >> \in busy
    BY <1>1, <1>5, <1>9 DEF BusyLinked
  <2> QED
    BY <1>1, <1>3, <1>5, <2>1 DEF BusyLinked
<1>10. CASE Entry(s, a).kind = "Swap"
  BY <1>1, <1>3, <1>10 DEF Tidy
<1> QED
  BY <1>2, <1>6, <1>7, <1>8, <1>9, <1>10 DEF PteKind

-----------------------------------------------------------------------------
(* A wiring is given back.                                                 *)
LEMMA UncountedRoom ==
  ASSUME NEW s \in VmStates, NEW p \in Pages
  PROVE  SameRoom(s, PteUncounted(s, p))
<1> DEFINE t == [s EXCEPT !.page[p].nonzero = @ - 1]
<1>1. t \in VmStates /\ t.wsl = s.wsl
  BY NonzeroLowered DEF VmStates
<1>2. PteUncounted(s, p) = PteBecameSwap(t, p)
  BY DEF PteUncounted, PteBecameSwap
<1> HIDE DEF t
<1> QED
  BY <1>1, <1>2, BecameSwapRoom DEF SameRoom

(* A PTE is uncounted in a table that others hold: the critical section    *)
(* leaves the pages tidy and raises no assertion.                          *)
LEMMA UncountedSettled ==
  ASSUME NEW s \in VmStates, Tidy(s), Roomy(s), NEW p \in Pages, s.panic = NoPanic,
         s.page[p].refcnt >= 2, s.page[p].nonswap >= 1, IsTable(s, p),
         IsRootTable(s, p) <=> p = Root, NEW home, Good(s, home, {}, NoPage)
  PROVE  Settled(PteUncounted(s, p))
<1> DEFINE t == PteUncounted(s, p)
<1>1. p # NoPage /\ s.page[p].use # "Deleted"
  BY DEF NoPage, Pages, IsTable, TableUses
<1>2. t.panic = NoPanic
  BY <1>1, UncountedPasses
<1>3. Adjusted(s, t, p, -1, -1, -1)
  BY <1>1, <1>2, PteUncountedEffect
<1>4. SameRoom(s, t)
  BY UncountedRoom
<1> HIDE DEF t
<1>5. Tidy(t)
  <2> DEFINE m == -1
  <2>1. Adjusted(s, t, p, m, m, m)
    BY <1>3
  <2> HIDE DEF m
  <2> QED
    BY <2>1, TidyEffects
<1>6. Roomy(t)
  BY <1>4 DEF Roomy, SameRoom
<1>7. Settled(t)
  BY <1>2, <1>5, <1>6 DEF Settled, Known
<1> QED
  BY <1>7 DEF t

(* vmp_md_delete_table_pointers() of a table whose directory keeps another *)
(* PTE or wiring: the referent may not be at the start of a page.          *)
LEMMA PointersKnown ==
  ASSUME NEW s \in VmStates, NEW p \in Pages, s.panic = NoPanic,
         NEW a, a = s.page[p].referent, NEW dir, dir = a[1],
         Entry(s, a).kind \in {"Valid", "Trans"}, ~LastPte(s, dir),
         IsTable(s, dir), s.page[dir].use # "PML1", s.page[dir].nonswap >= 1,
         s.page[dir].refcnt >= 2, IsRootTable(s, dir) <=> dir = Root,
         NEW home, NEW N, NEW x, dir # x, Good(s, home, N, x)
  PROVE  /\ Known(DeleteTablePointers(s, p)) /\ SameRoom(s, DeleteTablePointers(s, p))
<1> DEFINE i   == a[2]
           t   == [s EXCEPT !.table[dir][i] = ZeroPte]
           u   == PteUncounted(t, dir)
           c   == Kassert(s, ~LastPte(s, dir), "tables.c:97", u)
           d   == Kassert(s, s.table[dir][i].kind \in {"Valid", "Trans"}, "tables.c:94", c)
           e   == Kassert(s, i = 0, "resident.c:207", d)
           f   == [s EXCEPT !.panic = "resident.c:207"]
<1>1. a \in PteAddr /\ dir \in Pages /\ i \in Idx
  BY PagePart
<1>2. t \in VmStates /\ t.panic = s.panic /\ t.wsl = s.wsl
  <2>1. ZeroPte \in Pte
    BY ConstantTypes DEF Pte, PteKind, ZeroPte
  <2> HIDE DEF i
  <2> QED
    BY <1>1, <2>1, SetTableType DEF VmStates
<1>3. t = SetPte(s, a, ZeroPte)
  BY DEF SetPte, Then
<1>4. s.table[dir][i].kind \in {"Valid", "Trans"}
  <2>1. Entry(s, a) = s.table[dir][i]
    BY DEF Entry
  <2>2. Entry(s, a).kind \in {"Valid", "Trans"}
    OBVIOUS
  <2> QED
    BY ONLY <2>1, <2>2
<1>5. f.panic = "resident.c:207" /\ f.wsl = s.wsl
  BY DEF VmStates
<1> HIDE DEF t, u, f
<1>6. c = u
  BY DEF Kassert, Then
<1> HIDE DEF c
<1>7. d = c
  BY <1>4 DEF Kassert, Then
<1> HIDE DEF d
<1>8. e = IF i = 0 THEN d ELSE f
  BY DEF Kassert, Then, f
<1> HIDE DEF e
<1>9. e = DeleteTablePointers(s, p)
  BY Zenon DEF DeleteTablePointers, i, t, u, c, d, e
<1> HIDE DEF i
<1>10. Entered(s, t, a, ZeroPte)
  BY <1>1, <1>2, <1>3, SetPteEffect
<1>11. Good(t, home, N, x)
  BY <1>1, <1>2, <1>3, SetPteGood
<1>12. SameRec(s, t, dir)
  BY <1>1, <1>10 DEF Entered
<1>13. /\ IsTable(t, dir) /\ t.page[dir].nonswap >= 1 /\ t.page[dir].refcnt >= 2
       /\ (IsRootTable(t, dir) <=> dir = Root)
  BY <1>12 DEF SameRec, IsTable, IsRootTable
<1>14. u.panic = NoPanic
  BY <1>1, <1>2, <1>11, <1>13, UncountedPasses DEF u
<1>15. SameRoom(t, u)
  BY <1>1, <1>2, UncountedRoom DEF u
<1> QED
  BY <1>2, <1>5, <1>6, <1>7, <1>8, <1>9, <1>14, <1>15
     DEF Known, SameRoom, ReachablePanics

(* The entry of a deleted table, unlocked and removed.                     *)
LEMMA ForgetPasses ==
  ASSUME NEW s \in VmStates, NEW d \in VmStates, NEW p \in Pages, ForgetFrom(s, d, p),
         d.panic = NoPanic, p # Root, IsTable(s, p), s.page[p].nonswap = 1,
         NEW home, Good(s, home, {}, NoPage)
  PROVE  ForgetTable(d, p).panic = NoPanic /\ SameRoom(d, ForgetTable(d, p))
<1> DEFINE e == WslUnlockEntry(d, TableKey(p))
           g == WslRemove(e, TableKey(p))
           L == Leaves(s) \ {}
           V == Valids(s) \ {}
           Q == Tabs(s, NoPage)
           W == Spare(s, NoPage)
<1>1. ForgetTable(d, p) = g
  BY DEF ForgetTable, ForgetFrom
<1>2. e \in VmStates
  BY TableKeyType, WslUnlockEntryType
<1>3. p \in Q
  BY DEF Tabs, NoPage, Pages
<1>4. e.panic = NoPanic
  BY <1>3, TableEntry DEF ForgetFrom
<1>5. SameRoom(d, e) /\ SameRoom(e, g)
  BY <1>2, EntryRoom
<1> HIDE DEF g, L, V, Q, W
<1>6. Held(d, home, L, V, Q, W)
  BY DEF Good, Held, WslIs, ForgetFrom, L, V, Q, W
<1>7. Held(e, home, L, V, Q, W \cup {p})
  BY <1>4, <1>6, HeldTable
<1> HIDE DEF e
<1>8. WslIs(e, Keys(home, L) \cup TKeys(Q), Keys(home, V) \cup TKeys(W \cup {p}))
  BY <1>7 DEF Held
<1>9. TableKey(p) \in TKeys(W \cup {p})
  BY KeyKinds
<1>10. g.panic = NoPanic
  <2> DEFINE T == Keys(home, L) \cup TKeys(Q)
             E == Keys(home, V) \cup TKeys(W \cup {p})
             k == TableKey(p)
  <2>1. WslIs(e, T, E) /\ k \in E /\ g = WslRemove(e, k)
    BY <1>8, <1>9 DEF g
  <2> HIDE DEF T, E, k
  <2> QED
    BY <1>2, <1>4, <2>1, EntryPasses
<1> QED
  BY <1>1, <1>5, <1>10, KeptRoom

(* A table page marked as deleted.                                         *)
Doomed(s, p) == [s EXCEPT !.page[p].nonzero = @ - 1, !.page[p].use = "Deleted"]

(* A page that is marked as deleted has one PTE less and keeps the rest.   *)
LEMMA DeletedState ==
  ASSUME NEW s \in VmStates, NEW p \in Pages, s.page[p].nonswap = 1, IsTable(s, p),
         NEW d, d = Doomed(s, p)
  PROVE  /\ d \in VmStates /\ ForgetFrom(s, d, p)
         /\ d.panic = s.panic /\ d.wsl = s.wsl /\ d.table = s.table
         /\ d.page[p].use = "Deleted" /\ d.page[p].refcnt = s.page[p].refcnt
         /\ d.page[p].referent = s.page[p].referent
         /\ d.page[p].nonzero = s.page[p].nonzero - 1
<1>1. s.page[p].nonzero - 1 \in Int
  BY PagePart
<1>2. [s.page[p] EXCEPT !.nonzero = @ - 1, !.use = "Deleted"] \in PageRec
  BY <1>1, PagePart, PageRecUpdate2, Zenon DEF PageUse
<1>3. [s.page EXCEPT ![p].nonzero = @ - 1, ![p].use = "Deleted"] \in PageDb
  BY <1>2, Parts DEF PageDb
<1>4. d \in VmStates
  BY <1>3 DEF VmStates, Doomed
<1>5. /\ d.table = s.table /\ d.panic = s.panic /\ d.wsl = s.wsl
      /\ \A q \in Pages \ {p} : SameRec(s, d, q)
      /\ d.page[p].use = "Deleted" /\ d.page[p].refcnt = s.page[p].refcnt
      /\ d.page[p].referent = s.page[p].referent /\ d.page[p].nonswap = 1
      /\ d.page[p].nonzero = s.page[p].nonzero - 1
  BY DEF VmStates, PageDb, PageRec, SameRec, Doomed
<1> QED
  BY <1>4, <1>5 DEF ForgetFrom, IsTable, TableUses

(* The fields of the freed table that vmp_pagetable_page_pte_deleted()     *)
(* clears.                                                                 *)
Cleared(s, p) == [s EXCEPT !.page[p].nonswap = 0, !.page[p].referent = NullRef]

(* A freed table counts nothing and has no referent.                       *)
LEMMA ClearedState ==
  ASSUME NEW s \in VmStates, NEW p \in Pages,
         NEW n, n = Cleared(s, p)
  PROVE  /\ n \in VmStates /\ n.panic = s.panic /\ n.wsl = s.wsl
         /\ n.page[p].use = s.page[p].use /\ n.page[p].refcnt = s.page[p].refcnt
         /\ n.page[p].nonzero = s.page[p].nonzero /\ n.page[p].referent = NullRef
<1>1. NullRef \in PteAddr
  BY ConstantTypes, Zenon
<1>2. [s.page[p] EXCEPT !.nonswap = 0, !.referent = NullRef] \in PageRec
  <2>1. s.page[p] \in PageRec /\ 0 \in Int
    BY PagePart
  <2> HIDE DEF NullRef
  <2> QED
    BY <1>1, <2>1, PageRecUpdate2, Zenon
<1>3. [s.page EXCEPT ![p].nonswap = 0, ![p].referent = NullRef] \in PageDb
  BY <1>2, Parts DEF PageDb
<1>4. n \in VmStates
  BY <1>3 DEF VmStates, Cleared
<1> HIDE DEF NullRef
<1> QED
  BY <1>4 DEF VmStates, PageDb, PageRec, Cleared

(* A halted program releases no page.                                    *)
LEMMA ReleaseStuck ==
  ASSUME NEW s, s.panic # NoPanic, NEW p
  PROVE  PageRelease(s, p) = s
BY Zenon DEF PageRelease, Kassert, Then

(* A page that was deleted gives back its two references.                  *)
LEMMA DeletedReleased ==
  ASSUME NEW s \in VmStates, NEW p \in Pages, s.panic = NoPanic,
         s.page[p].use = "Deleted", s.page[p].refcnt = 2,
         NEW t, t = PageRelease(PageRelease(s, p), p)
  PROVE  /\ t.panic = NoPanic /\ t.wsl = s.wsl
         /\ t.page[p].nonzero = s.page[p].nonzero /\ t.page[p].referent = s.page[p].referent
<1> DEFINE v == PageRelease(s, p)
<1>1. v \in VmStates /\ v.wsl = s.wsl
  BY PageReleaseType, WslKept
<1>2. v.panic = NoPanic
  BY ReleasePasses, 2 > 0
<1>3. /\ v.page[p].use = "Deleted" /\ v.page[p].refcnt = 1
      /\ v.page[p].nonzero = s.page[p].nonzero /\ v.page[p].referent = s.page[p].referent
  <2>1. 2 # 1 /\ 2 - 1 = 1
    OBVIOUS
  <2> QED
    BY <1>2, <2>1, ReleaseDeletedEffect
<1> HIDE DEF v
<1>4. t = PageRelease(v, p)
  BY DEF v
<1>5. t.panic = NoPanic /\ t.wsl = v.wsl
  BY <1>1, <1>2, <1>3, <1>4, ReleasePasses, WslKept, 1 > 0
<1>6. t.page[p].nonzero = v.page[p].nonzero /\ t.page[p].referent = v.page[p].referent
  BY <1>1, <1>3, <1>4, <1>5, ReleaseDeletedEffect
<1> QED
  BY <1>1, <1>3, <1>5, <1>6

(* A table is freed: the page is as clean as the free list wants it.       *)
LEMMA RetiredTidy ==
  ASSUME NEW s \in VmStates, NEW t, NEW p \in Pages, NEW a \in PteAddr, a[1] \in Pages \ {p},
         IsTable(s, a[1]), Retired(s, t, p, a), Tidy(s),
         t.page[p].nonzero = 0, t.page[p].referent = NullRef
  PROVE  Tidy(t)
<1>1. \A q \in Pages \ {p} : t.page[q].use = s.page[q].use
  <2> TAKE q \in Pages \ {p}
  <2>1. CASE q = a[1]
    BY <2>1 DEF Retired
  <2>2. CASE q # a[1]
    <3>1. SameRec(s, t, q)
      BY <2>2 DEF Retired
    <3> QED
      BY <3>1 DEF SameRec
  <2> QED
    BY <2>1, <2>2
<1>2. \A q \in Pages \ {p, a[1]} : /\ t.page[q].nonzero = s.page[q].nonzero
                                   /\ t.page[q].referent = s.page[q].referent
  BY DEF Retired, SameRec
<1>3. t.page[p].use = "Free" /\ s.page[a[1]].use \notin {"Free", "AnonPrivate"}
  BY DEF Retired, IsTable, TableUses
<1>4. \A q \in Pages : t.page[q].use \in {"Free", "AnonPrivate"} => t.page[q].nonzero = 0
  BY <1>1, <1>2, <1>3, Zenon DEF Tidy
<1>5. \A q \in Pages : t.page[q].use = "Free" => t.page[q].referent = NullRef
  BY <1>1, <1>2, <1>3, Zenon DEF Tidy
<1>6. ASSUME NEW b \in PteAddr, Entry(t, b).kind = "Swap", IsTable(t, b[1])
      PROVE  t.page[b[1]].use = "PML1"
  <2>1. b[1] \in Pages /\ b[1] # p
    BY <1>3, <1>6, AddrParts DEF IsTable, TableUses
  <2>2. Entry(t, b) = Entry(s, b)
    <3>1. ZeroPte.kind # "Swap"
      BY DEF ZeroPte
    <3> HIDE DEF ZeroPte
    <3> QED
      BY <1>6, <3>1, Zenon DEF Retired
  <2>3. t.page[b[1]].use = s.page[b[1]].use
    BY <1>1, <2>1
  <2> QED
    BY <1>6, <2>2, <2>3, Zenon DEF Tidy, IsTable
<1> QED
  BY <1>4, <1>5, <1>6, Zenon DEF Tidy

(* vmp_pagetable_page_pte_deleted() of the last PTE of p, when the         *)
(* directory that names it keeps another.                                  *)
LEMMA FreeTableSettled ==
  ASSUME NEW s \in VmStates, Tidy(s), Roomy(s), s.panic = NoPanic, NEW p \in Pages,
         p # Root, IsTable(s, p), Blank(s, p),
         s.page[p].nonswap = 1, s.page[p].nonzero = 1, s.page[p].refcnt = 2,
         NEW ref, ref = s.page[p].referent, Entry(s, ref).kind \in {"Valid", "Trans"},
         NEW dir, dir = ref[1], dir # p, IsTable(s, dir), s.page[dir].use # "PML1",
         s.page[dir].nonswap >= 1, s.page[dir].refcnt >= 2, ~LastPte(s, dir),
         IsRootTable(s, dir) <=> dir = Root, NEW home, Good(s, home, {}, NoPage)
  PROVE  Settled(FreeTable(s, p))
<1> DEFINE d == Doomed(s, p)
           g == ForgetTable(d, p)
           t == DeleteTablePointers(g, p)
           n == Cleared(t, p)
           u == Then(t, n)
           w == PageRelease(PageRelease(u, p), p)
<1>1. ref \in PteAddr /\ dir \in Pages /\ dir # NoPage
  BY PagePart, AddrParts DEF NoPage, Pages
<1>2. w = FreeTable(s, p)
  BY Zenon DEF FreeTable, Doomed, Cleared, d, g, t, n, u, w
<1>3. /\ d \in VmStates /\ ForgetFrom(s, d, p) /\ d.panic = NoPanic /\ d.wsl = s.wsl
      /\ d.table = s.table /\ d.page[p].use = "Deleted" /\ d.page[p].refcnt = 2
      /\ d.page[p].referent = ref /\ d.page[p].nonzero = 0
  BY DeletedState, 1 - 1 = 0
<1> HIDE DEF d
<1>4. g \in VmStates /\ g.panic = NoPanic /\ SameRoom(d, g)
  BY <1>3, ForgetPasses, ForgetTableType
<1>5. Same(d, g)
  BY <1>3, <1>4, ForgetTableEffect
<1>6. Good(g, home, {}, NoPage)
  BY <1>3, <1>4, ForgetGood
<1> HIDE DEF g
<1>7. SameRec(s, d, dir) /\ SameRec(d, g, dir) /\ SameRec(d, g, p)
  BY <1>1, <1>3, <1>5 DEF Same, ForgetFrom
<1>8. /\ g.page[p].referent = ref /\ g.page[p].use = "Deleted" /\ g.page[p].refcnt = 2
      /\ g.page[p].nonzero = 0
  BY <1>3, <1>7, Zenon DEF SameRec
<1>9. /\ g.page[dir].use = s.page[dir].use /\ g.page[dir].nonswap = s.page[dir].nonswap
      /\ g.page[dir].refcnt = s.page[dir].refcnt /\ g.page[dir].nonzero = s.page[dir].nonzero
  BY <1>7, Zenon DEF SameRec
<1>10. /\ IsTable(g, dir) /\ g.page[dir].use # "PML1" /\ g.page[dir].nonswap >= 1
       /\ g.page[dir].refcnt >= 2 /\ ~LastPte(g, dir) /\ (IsRootTable(g, dir) <=> dir = Root)
  BY <1>9 DEF IsTable, IsRootTable, LastPte
<1>11. Entry(g, ref) = Entry(s, ref)
  BY <1>3, <1>5, Zenon DEF Entry, Same
<1>12. t \in VmStates /\ Known(t) /\ SameRoom(g, t)
  <2>1. t = DeleteTablePointers(g, p) /\ t \in VmStates
    BY <1>4, DeleteTablePointersType
  <2> HIDE DEF t
  <2>2. Entry(g, ref).kind \in {"Valid", "Trans"}
    BY <1>11
  <2> QED
    BY <1>1, <1>4, <1>6, <1>8, <1>10, <2>1, <2>2, PointersKnown
<1>13. SameRoom(s, t)
  BY <1>3, <1>4, <1>12 DEF SameRoom
<1>14. t.panic = NoPanic => /\ t.page[p].use = "Deleted" /\ t.page[p].refcnt = 2
                            /\ t.page[p].nonzero = 0
  <2> SUFFICES ASSUME t.panic = NoPanic
               PROVE  /\ t.page[p].use = "Deleted" /\ t.page[p].refcnt = 2
                      /\ t.page[p].nonzero = 0
    OBVIOUS
  <2>1. g.page[g.page[p].referent[1]].use # "Deleted"
    BY <1>8, <1>10 DEF IsTable, TableUses
  <2>2. Unmapped(g, t, g.page[p].referent)
    BY <1>4, <2>1, DeleteTablePointersEffect DEF t
  <2>3. Unmapped(g, t, ref) /\ p \in Pages \ {ref[1]}
    BY <1>8, <2>2
  <2>4. SameRec(g, t, p)
    BY <2>3, Zenon DEF Unmapped
  <2> QED
    BY <1>8, <2>4 DEF SameRec
<1> HIDE DEF t
<1>15. CASE t.panic # NoPanic
  <2>1. u = t
    BY <1>15, Zenon DEF u, Then
  <2> HIDE DEF u
  <2>2. w = t
    BY <1>15, <2>1, ReleaseStuck
  <2> QED
    BY <1>2, <1>12, <1>15, <2>2 DEF Settled
<1>16. CASE t.panic = NoPanic
  <2>1. u = n
    BY <1>16, Zenon DEF u, Then
  <2>2. /\ n \in VmStates /\ n.panic = NoPanic /\ n.wsl = t.wsl
        /\ n.page[p].use = "Deleted" /\ n.page[p].refcnt = 2 /\ n.page[p].nonzero = 0
        /\ n.page[p].referent = NullRef
    BY <1>12, <1>14, <1>16, ClearedState
  <2> HIDE DEF n, u
  <2>3. /\ w.panic = NoPanic /\ w.wsl = t.wsl
        /\ w.page[p].nonzero = 0 /\ w.page[p].referent = NullRef
    BY <2>1, <2>2, DeletedReleased
  <2> HIDE DEF w
  <2>4. Roomy(w)
    BY <1>13, <2>3 DEF Roomy, SameRoom
  <2>5. Retired(s, w, p, ref)
    <3>1. s.page[dir].use # "Deleted"
      BY DEF IsTable, TableUses
    <3> QED
      BY <1>2, <2>3, <3>1, FreeTableEffect
  <2>6. Tidy(w)
    BY <1>1, <2>3, <2>5, RetiredTidy
  <2> QED
    BY <1>2, <2>3, <2>4, <2>6 DEF Settled, Known
<1> QED
  BY <1>15, <1>16

(* A directory with a wiring and a PTE does not lose its last PTE.         *)
LEMMA WiredDirectory ==
  ASSUME NEW s \in VmStates, NEW wired \in Ledger, NEW d \in Pages, IsTable(s, d),
         wired[d] >= 1, Counted(s, wired, wired), Refd1(s),
         NEW a \in PteAddr, a[1] = d, Entry(s, a).kind \in {"Valid", "Trans"}
  PROVE  s.page[d].nonswap >= 2 /\ s.page[d].refcnt >= 2 /\ ~LastPte(s, d)
<1>1. /\ s.page[d].nonswap = wired[d] + NumIn(s, d)
      /\ s.page[d].nonzero >= wired[d] + NumUse(s, d)
  BY DEF Counted
<1>2. /\ IsFiniteSet(InCoreSet(s.table[d])) /\ IsFiniteSet(InUseSet(s.table[d]))
      /\ NumIn(s, d) \in Nat /\ NumUse(s, d) \in Nat /\ wired[d] \in Int
  BY CountsType DEF Ledger
<1>3. a[2] \in Idx /\ s.table[d][a[2]].kind \in {"Valid", "Trans"}
  BY AddrParts DEF Entry
<1>4. a[2] \in InCoreSet(s.table[d]) /\ a[2] \in InUseSet(s.table[d])
  BY <1>3 DEF InCoreSet, InUseSet
<1>5. NumIn(s, d) # 0 /\ NumUse(s, d) # 0
  BY <1>2, <1>4, FS_EmptySet DEF NumIn, NumUse
<1>6. s.page[d].nonswap >= 2 /\ s.page[d].nonzero >= 2
  BY <1>1, <1>2, <1>5, PagePart
<1>7. s.page[d].refcnt >= s.page[d].nonswap + 1
  BY DEF Refd1
<1> QED
  BY <1>6, <1>7, PagePart DEF LastPte

(* vmp_pagetable_page_pte_deleted() of a table that the thread has wired,  *)
(* with all the tables above it.                                           *)
LEMMA PteDeletedSettled ==
  ASSUME NEW s \in VmStates, Tidy(s), Roomy(s), s.panic = NoPanic,
         NEW p \in Pages, IsTable(s, p),
         NEW wired \in Ledger, wired[p] >= 1, NEW refs \in Ledger, NEW busy,
         \A q \in Pages : wired[q] >= 0,
         \A q \in Pages : refs[q] >= 0, \A q \in Pages : refs[q] > 0 => IsAnon(s, q),
         Maps(s, Home(s), NoPage, busy, wired, wired, refs),
         Placed(s, NoPage), Good(s, Home(s), {}, NoPage),
         p # Root => wired[s.page[p].referent[1]] >= 1
  PROVE  Settled(PteDeleted(s, p))
<1> DEFINE home == Home(s)
<1>1. Owed(s, busy, wired, wired, refs)
  BY Zenon DEF Owed
<1>2. Forest(s, home, NoPage) /\ Counts(s)
  BY <1>1, OrderlyForest DEF Orderly
<1>3. Counted(s, wired, wired) /\ PtesLinked(s, home, NoPage)
  BY DEF Maps, Linked
<1>4. \A q \in Pages : q \in Pages \ {NoPage}
  BY DEF NoPage, Pages
<1>5. Refd1(s)
  BY MapsRefd, Zenon
<1>6. s.page[p].nonswap >= 1
  BY <1>3, WiringOfPte
<1>7. CASE LastPte(s, p)
  <2> DEFINE ref == s.page[p].referent
             dir == ref[1]
             t   == FreeTable(s, p)
  <2>1. PteDeleted(s, p) = t
    BY <1>7 DEF PteDeleted, Then
  <2>2. /\ p # Root /\ s.page[p].refcnt = 2 /\ s.page[p].nonzero = 1
        /\ ref \in PteAddr /\ dir \in Pages /\ dir # p /\ IsTable(s, dir)
        /\ Entry(s, ref).kind \in {"Valid", "Trans"} /\ Entry(s, ref).page = p
    BY <1>7, LastTable
  <2>3. s.page[p].nonswap = 1 /\ \A j \in Idx : s.table[p][j].kind = "Zero"
    BY <1>3, <2>2, LastWiring
  <2>4. wired[dir] >= 1
    BY <2>2
  <2> HIDE DEF t, ref, dir
  <2>5. Blank(s, p)
    BY <2>3, AddrParts DEF Blank, Entry
  <2>6. s.page[p].use = Below(s.page[dir].use)
    BY <1>3, <2>2 DEF PtesLinked, dir
  <2>7. s.page[dir].use # "PML1"
    BY <2>6 DEF IsTable, TableUses, Below
  <2>8. s.page[dir].nonswap >= 2 /\ s.page[dir].refcnt >= 2 /\ ~LastPte(s, dir)
    <3>1. ref[1] = dir
      BY DEF dir
    <3> QED
      BY <1>3, <1>5, <2>2, <2>4, <3>1, WiredDirectory
  <2>9. s.page[dir].nonswap >= 1
    BY <2>2, <2>8, PagePart
  <2>10. IsRootTable(s, dir) <=> dir = Root
    BY <1>2, <1>4, <2>2, DirFacts
  <2>11. Settled(t)
    BY <2>1, <2>2, <2>3, <2>5, <2>7, <2>8, <2>9, <2>10, FreeTableSettled DEF t, ref, dir
  <2> QED
    BY <2>1, <2>11
<1>8. CASE ~LastPte(s, p)
  <2>1. PteDeleted(s, p) = PteUncounted(s, p)
    BY <1>8 DEF PteDeleted, Then
  <2>2. IsRootTable(s, p) <=> p = Root
    BY <1>2, <1>4, DirFacts
  <2>3. s.page[p].refcnt >= 2
    BY <1>5, <1>6, PagePart DEF Refd1
  <2> QED
    BY <1>6, <2>1, <2>2, <2>3, UncountedSettled
<1> QED
  BY <1>7, <1>8

-----------------------------------------------------------------------------
(* What holds between critical sections, and what a section leaves.        *)
Sane(s) == Known(s) /\ Tidy(s) /\ Roomy(s)

PanicInv == WslInv /\ Sane(vm)

(* A step that changes neither the tables, the page records nor the list.  *)
LEMMA QuietSane ==
  ASSUME NEW s \in VmStates, Sane(s), NEW t, Same(s, t), t.wsl = s.wsl, Known(t)
  PROVE  Sane(t)
BY TidyEffects, Zenon DEF Sane, Roomy

(* A critical section that ends well or in a known panic, which leaves     *)
(* everything but the panic as it was.                                     *)
LEMMA CommitSane ==
  ASSUME vm \in VmStates, Sane(vm), NEW s, Settled(s), NEW x, NEW w, NEW g, Commit(s, x, w, g)
  PROVE  Sane(vm')
<1>1. CASE s.panic = NoPanic
  BY <1>1 DEF Commit, Settled, Sane
<1>2. CASE s.panic # NoPanic
  <2>1. vm' = [vm EXCEPT !.panic = s.panic]
    BY <1>2 DEF Commit
  <2>2. Same(vm, vm') /\ vm'.wsl = vm.wsl /\ vm'.panic = s.panic
    BY <2>1 DEF VmStates, Same, SameRec
  <2>3. Known(vm')
    BY <2>2 DEF Settled, Known
  <2> QED
    BY <2>2, <2>3, QuietSane
<1> QED
  BY <1>1, <1>2

(* ... of a thread.                                                        *)
LEMMA FaultSane ==
  ASSUME PanicInv, NEW f \in Faulters, NEW s, Settled(s), NEW x, CommitFault(f, s, x)
  PROVE  Sane(vm')
<1>1. vm \in VmStates /\ Sane(vm)
  BY WslFacts DEF PanicInv
<1>2. Commit(s, [flt EXCEPT ![f] = x], wr, pf)
  BY DEF CommitFault
<1> QED
  BY <1>1, <1>2, CommitSane

(* The state of PanicInv is one of those the lemmas above are about.       *)
LEMMA PanicFacts ==
  ASSUME PanicInv, vm.panic = NoPanic
  PROVE  /\ WslInv /\ MapInv /\ vm \in VmStates /\ Orderly(vm) /\ Tidy(vm) /\ Roomy(vm)
         /\ Settled(vm)
BY WslFacts DEF PanicInv, Sane, Settled

(* do_fault() has looked at the leaf PTE.                                  *)
LEMMA HandledSane ==
  ASSUME PanicInv, NEW f \in Faulters, NEW s, NEW x, Handled(f, s, x), Settled(s)
  PROVE  Sane(vm')
<1>1. CommitFault(f, s, x)
  BY DEF Handled
<1> QED
  BY <1>1, FaultSane

(* A fault on a PTE that is valid, or for which there is no page, or on a  *)
(* busy one.                                                               *)
LEMMA ValidLeafSane ==
  ASSUME PanicInv, NEW f \in Faulters,
         MakeWriteable(f) \/ ValidFault(f) \/ AllocFails(f) \/ BusyFault(f)
  PROVE  Sane(vm')
<1> DEFINE a == FaultPteAddr(f)
           q == FaultPte(f).page
<1>1. vm.panic = NoPanic /\ pc[f] = "fault"
  BY DEF MakeWriteable, ValidFault, AllocFails, BusyFault, FaultsOn
<1>2. vm \in VmStates /\ MapInv /\ Settled(vm)
  BY <1>1, PanicFacts
<1>3. a \in PteAddr
  BY <1>1, <1>2, LeafMap
<1>4. CASE MakeWriteable(f)
  <2> DEFINE e == HwPte(q, TRUE)
             s == SetPte(vm, a, e)
  <2>1. Handled(f, s, Result(f, "ok")) /\ e.kind # "Swap"
    BY <1>4 DEF MakeWriteable, HwPte
  <2> HIDE DEF a, e
  <2>2. Settled(s)
    BY <1>2, <1>3, <2>1, SetPteSettled
  <2> HIDE DEF s
  <2> QED
    BY <2>1, <2>2, HandledSane
<1>5. CASE ValidFault(f)
  <2>1. Handled(f, vm, Result(f, "ok"))
    BY <1>5 DEF ValidFault
  <2> QED
    BY <1>2, <2>1, HandledSane
<1>6. CASE AllocFails(f)
  <2> DEFINE s == PageAlloc(vm, "AnonPrivate")
  <2>1. Same(vm, s)
    BY <1>1, <1>2, <1>6, AllocFailsEffect DEF AllocFails
  <2>2. s = CheckShortage(vm)
    BY <1>1, <1>6 DEF AllocFails, PageAlloc, Then
  <2>3. s.wsl = vm.wsl
    BY <1>2, <2>2, WslKept, ConstantTypes
  <2>4. s.panic = vm.panic
    BY <1>2, <2>2 DEF CheckShortage, VmStates
  <2>5. Handled(f, s, Result(f, "again"))
    BY <1>6 DEF AllocFails
  <2> HIDE DEF s
  <2>6. Tidy(s) /\ Roomy(s) /\ Known(s)
    <3>1. Tidy(vm) /\ Roomy(vm)
      BY <1>1, PanicFacts
    <3> QED
      BY <1>1, <1>2, <2>1, <2>3, <2>4, <3>1, TidyEffects DEF Roomy, Known
  <2> QED
    BY <2>5, <2>6, HandledSane DEF Settled
<1>7. CASE BusyFault(f)
  <2> DEFINE s == Kfatal(vm, "fault.c:170")
  <2>1. s.panic = "fault.c:170"
    BY <1>1, <1>2 DEF Kfatal, Kassert, Then, VmStates
  <2>2. Handled(f, s, Result(f, "ok"))
    BY <1>7 DEF BusyFault
  <2> HIDE DEF s
  <2>3. Settled(s)
    BY <2>1 DEF Settled, Known, ReachablePanics, NoPanic
  <2> QED
    BY <2>2, <2>3, HandledSane
<1> QED
  BY <1>4, <1>5, <1>6, <1>7

(* do_fault() gives a zero, a transition or a swap PTE its page.           *)
LEMMA FillLeafSane ==
  ASSUME PanicInv, NEW f \in Faulters, DemandZero(f) \/ TransFault(f) \/ SwapFault(f)
  PROVE  Sane(vm')
<1> DEFINE a == FaultPteAddr(f)
           q == FaultPte(f).page
           v == flt[f].va
           w == flt[f].write
<1>1. vm.panic = NoPanic /\ pc[f] = "fault"
  BY DEF DemandZero, TransFault, SwapFault, FaultsOn
<1>2. /\ vm \in VmStates /\ Orderly(vm) /\ Tidy(vm) /\ Roomy(vm) /\ MapInv /\ WslInv
  BY <1>1, PanicFacts
<1>3. /\ a \in PteAddr /\ Entry(vm, a) = FaultPte(f) /\ q \in Pages
      /\ w \in BOOLEAN /\ vm.page[a[1]].use = "PML1" /\ a[1] = flt[f].pages[1]
  BY <1>1, <1>2, LeafMap
<1>4. v = Addr(Home(vm), a) /\ v \in VAddrs
  BY <1>1, <1>2, FaultAddr
<1>5. CASE DemandZero(f)
  <2> DEFINE s == ZeroFill(vm, a, LeafKey(v), w)
  <2>1. CanAlloc(vm) /\ Entry(vm, a).kind = "Zero"
    BY <1>3, <1>5 DEF DemandZero, FaultsOn
  <2>2. Handled(f, s, Result(f, "ok"))
    BY <1>3, <1>5 DEF DemandZero, ZeroFill
  <2> HIDE DEF a, v, w
  <2>3. Settled(s)
    BY <1>1, <1>2, <1>3, <1>4, <2>1, ZeroFillSettled
  <2> HIDE DEF s
  <2> QED
    BY <2>2, <2>3, HandledSane
<1>6. CASE TransFault(f)
  <2> DEFINE s == Reclaim(vm, a, LeafKey(v), q)
  <2>1. Entry(vm, a).kind = "Trans" /\ Entry(vm, a).page = q
    BY <1>3, <1>6 DEF TransFault, FaultsOn
  <2>2. Handled(f, s, Result(f, "ok"))
    BY <1>6 DEF TransFault, Reclaim
  <2> HIDE DEF a, v, q
  <2>3. Settled(s)
    BY <1>1, <1>2, <1>3, <1>4, <2>1, ReclaimSettled
  <2> HIDE DEF s
  <2> QED
    BY <2>2, <2>3, HandledSane
<1>7. CASE SwapFault(f)
  <2> DEFINE p == AllocatedPage(vm)
             s == StartRead(vm, a, LeafKey(v))
             x == [Result(f, "read") EXCEPT !.page = p, !.pte = a, !.slot = FaultPte(f).slot]
  <2>1. CanAlloc(vm) /\ Entry(vm, a).kind = "Swap"
    BY <1>3, <1>7 DEF SwapFault, FaultsOn
  <2>2. Handled(f, s, x)
    BY <1>3, <1>7 DEF SwapFault, StartRead
  <2> HIDE DEF a, v
  <2>3. Settled(s)
    BY <1>1, <1>2, <1>3, <1>4, <2>1, StartReadSettled
  <2> HIDE DEF s, x
  <2> QED
    BY <2>2, <2>3, HandledSane
<1> QED
  BY <1>5, <1>6, <1>7

(* vmp_wire_pte(): the root is wired, then the tables below it.            *)
LEMMA WireSane ==
  ASSUME PanicInv, NEW f \in Faulters, WireRoot(f) \/ WireLevel(f)
  PROVE  Sane(vm')
<1>1. vm.panic = NoPanic /\ pc[f] = "wire"
  <2>1. WireRoot(f) => vm.panic = NoPanic /\ pc[f] = "wire"
    BY Zenon DEF WireRoot, Goto
  <2>2. WireLevel(f) => vm.panic = NoPanic /\ pc[f] = "wire"
    BY Zenon DEF WireLevel, Goto
  <2> QED
    BY <2>1, <2>2
<1>2. /\ vm \in VmStates /\ Orderly(vm) /\ Tidy(vm) /\ Roomy(vm) /\ MapInv /\ WslInv
  BY <1>1, PanicFacts
<1>3. CASE WireRoot(f)
  <2> DEFINE s == NonswapPteCreated(vm, Root, TRUE)
             x == [flt[f] EXCEPT !.level = Levels, !.pages[Levels] = Root]
  <2>1. CommitFault(f, s, x)
    BY <1>3 DEF WireRoot
  <2>2. IsTable(vm, Root) /\ Root \in Pages
    <3>1. Levels \in 1 .. Levels
      BY VmAssumption
    <3> QED
      BY <1>2, <3>1, WslFacts, ConstantTypes, LevelUse DEF Forest, IsTable
  <2>3. Settled(s)
    BY <1>1, <1>2, <2>2, WiredSettled
  <2> HIDE DEF s, x
  <2> QED
    BY <2>1, <2>3, FaultSane
<1>4. CASE WireLevel(f)
  <2> DEFINE l   == flt[f].level
             dir == flt[f].pages[l]
             i   == flt[f].va[l]
             use == TableUse[l - 1]
             s   == WireTable(vm, dir, i, use)
             x   == [flt[f] EXCEPT !.level = l - 1, !.pages[l - 1] = s.table[dir][i].page]
  <2>1. l \in 2 .. Levels /\ CommitFault(f, s, x)
    BY <1>4, Zenon DEF WireLevel
  <2>2. /\ Owing(vm, flt, wr) /\ LocalOK(pc[f], flt[f]) /\ TypeInv
    BY <1>1, <1>2, MapFacts, ZenonT(60)
  <2>3. /\ l \in 1 .. Levels /\ l - 1 \in 1 .. Levels /\ l \in {2, 3, 4}
        /\ dir \in Pages /\ i \in Idx
    <3>1. l \in 1 .. Levels /\ l - 1 \in 1 .. Levels /\ l \in {2, 3, 4} /\ l >= l
      <4>1. l \in 2 .. Levels /\ Levels \in 2 .. 4
        BY <2>1, VmAssumption, ZenonT(60)
      <4> HIDE DEF l
      <4> QED
        BY ONLY <4>1, SMTT(60)
    <3>2. i \in Idx
      BY <1>1, <2>2, <3>1, FaulterFacts, Zenon
    <3> QED
      BY <1>1, <2>2, <3>1, <3>2, Zenon DEF LocalOK
  <2>4. vm.page[dir].use = TableUse[l]
    BY <2>2, <2>3 DEF Owing, TablesWired
  <2>5. IsTable(vm, dir) /\ use \in TableUses /\ use = Below(vm.page[dir].use)
    BY <2>3, <2>4 DEF IsTable, TableUse, TableUses, Below
  <2> HIDE DEF l, dir, i, use
  <2>6. Settled(s)
    BY <1>1, <1>2, <2>3, <2>5, WireTableSettled
  <2> HIDE DEF s, x
  <2> QED
    BY <2>1, <2>6, FaultSane
<1> QED
  BY <1>3, <1>4

(* vmp_pte_wire_state_release(), one level: the table above is wired too.  *)
LEMMA UnwireSane ==
  ASSUME PanicInv, NEW f \in Faulters, Unwire(f)
  PROVE  Sane(vm')
<1> DEFINE l == flt[f].level
           p == flt[f].pages[l]
           n == IF l = Levels THEN l ELSE l + 1
           s == PteDeleted(vm, p)
           x == [flt[f] EXCEPT !.level = n, !.pages[l] = NoPage]
<1>1. vm.panic = NoPanic /\ pc[f] = "unwire" /\ CommitFault(f, s, x)
  BY DEF Unwire, Goto
<1>2. /\ vm \in VmStates /\ Tidy(vm) /\ Roomy(vm) /\ MapInv /\ WslInv
  BY <1>1, PanicFacts
<1>3. /\ Owing(vm, flt, wr) /\ LocalOK(pc[f], flt[f]) /\ Placed(vm, NoPage)
      /\ WiredOf(flt) \in Ledger /\ HeldOf(wr) \in Ledger
      /\ \A q \in Pages : HeldOf(wr)[q] >= 0
      /\ Maps(vm, Home(vm), NoPage, BusyOf(flt), WiredOf(flt), WiredOf(flt), HeldOf(wr))
  BY <1>1, <1>2, MapFacts
<1>4. /\ Good(vm, Home(vm), {}, NoPage) /\ Forest(vm, Home(vm), NoPage)
      /\ Chain(vm, flt[f]) /\ \A q \in Pages : WiredOf(flt)[q] >= 0
  BY <1>1, <1>2, WslFacts DEF Walks
<1>5. l \in 1 .. Levels /\ Levels \in Nat
  BY <1>1, <1>3, VmAssumption, SMTT(60) DEF LocalOK
<1>6. p \in Pages /\ vm.page[p].use = TableUse[l]
  BY <1>1, <1>3, <1>5 DEF LocalOK, Owing, TablesWired
<1>7. IsTable(vm, p) /\ WiredOf(flt)[p] >= 1
  BY <1>5, <1>6, LevelUse, WiredType DEF IsTable
<1>8. ASSUME p # Root PROVE WiredOf(flt)[vm.page[p].referent[1]] >= 1
  <2>1. l # Levels
    <3>1. IsRootTable(vm, p) <=> p = Root
      <4>1. Orderly(vm) /\ Counts(vm)
        BY <1>1, <1>2, PanicFacts, OrderlyForest
      <4>2. p \in Pages \ {NoPage}
        BY <1>6 DEF NoPage, Pages
      <4> QED
        BY <1>2, <1>4, <1>7, <4>1, <4>2, DirFacts
    <3> QED
      BY <1>6, <1>8, <3>1 DEF IsRootTable
  <2>2. l \in 1 .. Levels - 1 /\ l + 1 \in 1 .. Levels /\ l + 1 >= l
    BY <1>5, <2>1
  <2>3. flt[f].pages[l + 1] \in Pages
    BY <1>1, <1>3, <2>2 DEF LocalOK
  <2>4. vm.page[p].referent[1] = flt[f].pages[l + 1]
    <3>1. vm.page[p].referent = << flt[f].pages[l + 1], flt[f].va[l + 1] >>
      <4> HIDE DEF l
      <4>1. flt[f].pages[l] \in Pages
        BY <1>6
      <4> QED
        BY <1>4, <2>2, <4>1 DEF Chain
    <3> QED
      BY <3>1
  <2> QED
    BY <2>2, <2>3, <2>4, WiredType
<1>9. Settled(s)
  <2>1. \A q \in Pages : HeldOf(wr)[q] > 0 => IsAnon(vm, q)
    BY <1>3 DEF Owing, AnonHeld
  <2> HIDE DEF p
  <2> QED
    BY <1>1, <1>2, <1>3, <1>4, <1>6, <1>7, <1>8, <2>1, PteDeletedSettled
<1> HIDE DEF s, x
<1> QED
  BY <1>1, <1>9, FaultSane

(* The entry of a PTE that is being read in is locked, so that it can be   *)
(* unlocked.                                                               *)
LEMMA BusyEntry ==
  ASSUME NEW s \in VmStates, NEW home, Forest(s, home, NoPage), Good(s, home, {}, NoPage),
         NEW a \in PteAddr, Entry(s, a).kind = "Busy", s.page[a[1]].use = "PML1",
         NEW v, v = Addr(home, a), NEW t \in VmStates, t.panic = NoPanic, t.wsl = s.wsl
  PROVE  WslUnlockEntry(t, LeafKey(v)).panic = NoPanic
<1> DEFINE L == Leaves(s) \ {}
           V == Valids(s) \ {}
           Q == Tabs(s, NoPage)
           W == Spare(s, NoPage)
           T == Keys(home, L) \cup TKeys(Q)
           E == Keys(home, V) \cup TKeys(W)
           k == LeafKey(v)
<1>1. a \in L /\ a \notin V
  BY DEF Leaves, Valids, Kinds
<1>2. \A b \in V : b \in PteAddr /\ b[1] # NoPage /\ s.page[b[1]].use = "PML1"
  BY AddrParts DEF Valids, Leaves, NoPage, Pages
<1>3. a[1] # NoPage
  BY AddrParts DEF NoPage, Pages
<1>4. WslIs(s, T, E)
  BY DEF Good, Held
<1> HIDE DEF L, V, Q, W
<1>5. k \in T
  BY <1>1, KeyKinds
<1>6. k \notin E
  <2>1. LeafKey(v) \notin TKeys(W)
    BY KeyKinds
  <2>2. LeafKey(v) \notin Keys(home, V)
    <3> SUFFICES ASSUME LeafKey(v) \in Keys(home, V)
                 PROVE  FALSE
      OBVIOUS
    <3>1. PICK b \in V : Addr(home, b) = v
      BY KeyKinds
    <3>2. b = a
      BY <1>2, <1>3, <3>1, AddrOnce
    <3> QED
      BY <1>1, <3>2
  <2> QED
    BY <2>1, <2>2
<1> HIDE DEF T, E, k
<1>7. WslIs(t, T, E)
  BY <1>4 DEF WslIs
<1>8. WslUnlockEntry(t, k).panic = NoPanic
  BY <1>5, <1>6, <1>7, EntryPasses
<1> QED
  BY <1>8 DEF k

(* finish_fault(): the PTE becomes valid and its entry is unlocked.        *)
LEMMA FinishReadSane ==
  ASSUME PanicInv, NEW f \in Faulters, FinishRead(f)
  PROVE  Sane(vm')
<1> DEFINE a == flt[f].pte
           p == flt[f].page
           v == flt[f].va
           e == HwPte(p, FALSE)
           t == SetPte(vm, a, e)
           s == WslUnlockEntry(t, LeafKey(v))
           x == [flt[f] EXCEPT !.page = NoPage, !.pte = NullRef, !.slot = NoSlot]
           home == Home(vm)
<1>1. vm.panic = NoPanic /\ pc[f] = "finish" /\ CommitFault(f, s, x)
  BY DEF FinishRead, Goto
<1>2. /\ vm \in VmStates /\ Tidy(vm) /\ Roomy(vm) /\ Settled(vm) /\ MapInv /\ WslInv
  BY <1>1, PanicFacts
<1>3. /\ flt \in [Faulters -> FaultLocals] /\ wr \in WriterLocals
      /\ Owing(vm, flt, wr) /\ LocalOK(pc[f], flt[f])
  BY <1>1, <1>2, MapFacts
<1>4. Good(vm, home, {}, NoPage) /\ Forest(vm, home, NoPage) /\ Walks(vm, pc[f], flt[f])
  BY <1>1, <1>2, WslFacts
<1>5. p \in Pages
  BY <1>1, <1>3 DEF LocalOK
<1>6. /\ a \in PteAddr /\ Entry(vm, a).kind = "Busy" /\ vm.page[a[1]].use = "PML1"
      /\ v = Addr(home, a)
  BY <1>2, <1>3, <1>4, <1>5, ReadRefd DEF Walks
<1>7. e \in Pte /\ e.kind # "Swap"
  <2>1. FALSE \in BOOLEAN /\ 0 \in Nat \cup {NoSlot}
    OBVIOUS
  <2>2. e \in Pte
    BY ONLY <1>5, <2>1, PteTypes
  <2> QED
    BY <2>2 DEF HwPte
<1> HIDE DEF a, p, v, e, x, home
<1>8. t \in VmStates /\ t.wsl = vm.wsl /\ Settled(t)
  BY <1>2, <1>6, <1>7, SetPteType, SetPteSettled, WslKept, ConstantTypes
<1>9. t.panic = NoPanic
  BY <1>1, <1>2 DEF t, SetPte, Then, VmStates
<1> HIDE DEF t
<1>10. s.panic = NoPanic
  BY <1>2, <1>4, <1>6, <1>8, <1>9, BusyEntry
<1>11. Same(t, s) /\ SameRoom(t, s)
  BY <1>8, <1>10, WslEntryEffect, EntryRoom
<1> HIDE DEF s
<1>12. Settled(s)
  BY <1>8, <1>9, <1>10, <1>11, TidyEffects DEF Settled, Known, Roomy, SameRoom
<1> QED
  BY <1>1, <1>12, FaultSane

(* The page writer retains a modified page and marks it clean.             *)
LEMMA CleanSettled ==
  ASSUME NEW s \in VmStates, Orderly(s), Tidy(s), Roomy(s), s.panic = NoPanic,
         Placed(s, NoPage), s.modified # << >>, NEW p, p = Head(s.modified), NEW slot
  PROVE  Settled(CleanPage(s, p, slot))
<1> DEFINE r  == PageRetain(s, p)
           ok == r.page[p].use \in {"AnonPrivate", "PML1", "PML2", "PML3", "PML4"}
           t  == [r EXCEPT !.page[p].drumslot = slot, !.page[p].dirty = FALSE]
           k  == Kassert(r, ok, "pgwriter.c:164", t)
<1>1. k = CleanPage(s, p, slot)
  BY DEF CleanPage
<1>2. p \in Pages /\ s.page[p].use = "AnonPrivate"
  <2> DEFINE S == ModifiedSet(s)
  <2>1. s.modified \in Seq(Pages) /\ Lists(s.modified, S)
    BY Parts DEF Queue, Placed
  <2> HIDE DEF S
  <2>2. p \in S
    BY ONLY <2>1, s.modified # << >>, p = Head(s.modified), ListsTail
  <2> QED
    BY <2>2 DEF S, ModifiedSet
<1>3. Fit(s, Home(s), NoPage, {}, NoPage)
  BY OrderlyFit
<1>4. r \in VmStates /\ Refd(s, r, p, 1) /\ Fit(r, Home(s), NoPage, {}, NoPage)
  <2> DEFINE home == Home(s)
             N == {}
             y == NoPage
  <2>1. Fit(s, home, y, N, y)
    BY <1>3
  <2> HIDE DEF home, N, y, r
  <2>2. r = PageRetain(s, p)
    BY DEF r
  <2>3. r \in VmStates /\ Refd(s, r, p, 1) /\ Fit(r, home, y, N, y)
    BY <1>2, <2>1, <2>2, RetainFit
  <2> QED
    BY <2>3 DEF home, N, y
<1> HIDE DEF r
<1>5. ok
  BY <1>2, <1>4 DEF Refd
<1>6. r.panic = NoPanic /\ Tidy(r) /\ Roomy(r)
  BY <1>4 DEF Fit
<1>7. k = t
  BY <1>5, <1>6 DEF Kassert, Then
<1> HIDE DEF k, ok
<1>8. t.wsl = r.wsl /\ t.panic = r.panic /\ Same(r, t)
  <2>1. r.page \in PageDb /\ t.table = r.table /\ t.wsl = r.wsl /\ t.panic = r.panic
    BY <1>4, Parts DEF VmStates
  <2>2. t.page = [r.page EXCEPT ![p].drumslot = slot, ![p].dirty = FALSE]
    BY <1>4 DEF VmStates
  <2> HIDE DEF t
  <2> QED
    BY <2>1, <2>2 DEF PageDb, PageRec, Same, SameRec
<1> HIDE DEF t
<1>9. Settled(t)
  BY <1>4, <1>6, <1>8, TidyEffects DEF Settled, Known, Roomy
<1> QED
  BY <1>1, <1>7, <1>9

(* The page writer.                                                        *)
LEMMA WriterSane ==
  ASSUME PanicInv, WriterStep
  PROVE  Sane(vm')
<1>1. vm.panic = NoPanic
  BY DEF WriterStep, WriterCollect, WriterIdle, WriterSend, WriterRelease, Goto
<1>2. /\ vm \in VmStates /\ Orderly(vm) /\ Tidy(vm) /\ Roomy(vm) /\ Settled(vm) /\ MapInv
      /\ Sane(vm)
  BY <1>1, PanicFacts DEF PanicInv
<1>3. /\ wr \in WriterLocals /\ Placed(vm, NoPage) /\ Owing(vm, flt, wr) /\ LocalMaps
  BY <1>2, DaemonFacts
<1>4. CASE WriterCollect
  <2> DEFINE p == Head(vm.modified)
  <2>1. PICK slot, pf1 :
          Commit(CleanPage(vm, p, slot), flt, [wr EXCEPT !.page = p, !.slot = slot], pf1)
    BY <1>4, Zenon DEF WriterCollect
  <2>2. vm.modified # << >>
    BY <1>4 DEF WriterCollect
  <2> DEFINE s == CleanPage(vm, p, slot)
             w == [wr EXCEPT !.page = p, !.slot = slot]
  <2>3. Settled(s)
    BY <1>1, <1>2, <1>3, <2>2, CleanSettled
  <2>4. Commit(s, flt, w, pf1)
    BY <2>1
  <2> HIDE DEF s, w
  <2> QED
    BY <1>2, <2>3, <2>4, CommitSane
<1>5. CASE WriterIdle \/ WriterSend
  <2>1. vm' = vm \/ vm' = [vm EXCEPT !.ev.pgwriter = FALSE]
    BY <1>5 DEF WriterIdle, WriterSend
  <2>2. Same(vm, vm') /\ vm'.panic = vm.panic /\ vm'.wsl = vm.wsl
    BY <1>2, <2>1 DEF VmStates, Same, SameRec
  <2> QED
    BY <1>2, <2>2, QuietSane DEF Sane, Known
<1>6. CASE WriterRelease
  <2> DEFINE p == Head(wr.iops)
             s == PageRelease(vm, p)
             w == [wr EXCEPT !.iops = Tail(@)]
  <2>1. pc["pgwriter"] = "drain"
    BY <1>6 DEF WriterRelease, Goto
  <2>2. wr.iops # << >> /\ Commit(s, flt, w, pf)
    BY <1>6 DEF WriterRelease
  <2>3. wr.page = NoPage /\ w.iops = Tail(wr.iops) /\ w.page = wr.page
    <3>1. wr.page = NoPage
      BY <1>3, <2>1 DEF LocalMaps
    <3> QED
      BY <1>3, <3>1 DEF WriterLocals
  <2>4. w \in WriterLocals
    <3>1. wr.iops \in Seq(Pages) /\ Tail(wr.iops) \in Seq(Pages)
      BY <1>3, <2>2 DEF WriterLocals
    <3> QED
      BY <1>3, <3>1 DEF WriterLocals
  <2>5. p \in Pages /\ HeldOf(wr)[p] > 0
    <3> HIDE DEF w
    <3>1. p \in Pages /\ HeldOf(w) = Plus(HeldOf(wr), p, -1)
      BY <1>3, <2>2, <2>3, <2>4, HeldLess
    <3>2. HeldOf(w)[p] >= 0 /\ HeldOf(wr) \in Ledger /\ -1 \in Int
      <4>1. -1 \in Int
        OBVIOUS
      <4> HIDE DEF p
      <4> QED
        BY <1>3, <2>4, <3>1, <4>1, HeldType
    <3> HIDE DEF p
    <3>3. Plus(HeldOf(wr), p, -1)[p] = HeldOf(wr)[p] + (-1) /\ HeldOf(wr)[p] \in Int
      BY <3>1, <3>2, PlusAt
    <3> QED
      BY <3>1, <3>2, <3>3
  <2> HIDE DEF p, w
  <2>6. vm.page[p].use = "AnonPrivate" /\ vm.page[p].refcnt > 0
    BY <1>2, <1>3, <2>5, HeldRefd DEF Owing, AnonHeld, IsAnon
  <2>7. s.panic = NoPanic
    BY <1>1, <1>2, <2>5, <2>6, ReleasePasses
  <2>8. Refd(vm, s, p, -1) /\ s.wsl = vm.wsl
    BY <1>2, <2>5, <2>6, <2>7, PageReleaseEffect, WslKept
  <2> HIDE DEF s
  <2>9. Tidy(s)
    <3> DEFINE n == -1
    <3>1. Refd(vm, s, p, n)
      BY <2>8
    <3> HIDE DEF n
    <3> QED
      BY <1>2, <2>5, <3>1, TidyEffects
  <2>10. Settled(s)
    BY <1>2, <2>7, <2>8, <2>9 DEF Settled, Known, Roomy
  <2> QED
    BY <1>2, <2>2, <2>10, CommitSane
<1> QED
  BY <1>4, <1>5, <1>6 DEF WriterStep

(* vmp_wsl_trim_n(): the balancer evicts the oldest entry of the list.     *)
LEMMA TrimSettled ==
  ASSUME NEW s \in VmStates, Orderly(s), Tidy(s), Roomy(s), s.panic = NoPanic,
         s.wsl.queue # << >>
  PROVE  Settled(WslTrim1(s))
<1> DEFINE t == WslTrim1(s)
           home == Home(s)
           N == {}
           y == NoPage
<1>1. Fit(s, home, y, N, y)
  BY OrderlyFit
<1> HIDE DEF home, N, y
<1>2. /\ Forest(s, home, y) /\ Good(s, home, N, y) /\ Evictable(s, N)
  BY <1>1 DEF Fit
<1>3. Known(t)
  BY <1>2, TrimKnown
<1>4. ASSUME t.panic = NoPanic PROVE Tidy(t) /\ Roomy(t)
  <2>1. t.wsl.nentries = s.wsl.nentries - 1 /\ t.wsl.max = s.wsl.max
    BY <1>4, TrimRoom
  <2>2. s.wsl.nentries \in Int /\ s.wsl.max \in Int
    BY Parts DEF VmStates, WsList
  <2>3. Forest(s, Home(s), NoPage)
    BY <1>2 DEF home, y
  <2>4. Trimmed(s, t)
    BY <1>4, <2>3, WslTrim1Effect
  <2> HIDE DEF t
  <2>5. Roomy(t)
    BY <2>1, <2>2 DEF Roomy
  <2> QED
    BY <2>4, <2>5, TidyEffects
<1> QED
  BY <1>3, <1>4 DEF Settled

(* The balancer.                                                           *)
LEMMA BalancerSane ==
  ASSUME PanicInv, BalancerStep
  PROVE  Sane(vm')
<1>1. vm.panic = NoPanic
  BY DEF BalancerStep, BalancerWake, BalancerTrim, BalancerUnlock, BalancerCheck, Goto
<1>2. vm \in VmStates /\ Orderly(vm) /\ Tidy(vm) /\ Roomy(vm) /\ Sane(vm)
  BY <1>1, PanicFacts DEF PanicInv
<1>3. CASE BalancerTrim
  <2> DEFINE s == WslTrim1(vm)
  <2>1. vm.wsl.queue # << >> /\ Commit(s, flt, wr, pf)
    BY <1>3 DEF BalancerTrim
  <2>2. Settled(s)
    BY <1>1, <1>2, <2>1, TrimSettled
  <2> HIDE DEF s
  <2> QED
    BY <1>2, <2>1, <2>2, CommitSane
<1>4. CASE ~BalancerTrim
  <2>1. vm' = vm \/ vm' = [vm EXCEPT !.ev.balancer = FALSE]
    BY <1>4 DEF BalancerStep, BalancerWake, BalancerUnlock, BalancerCheck
  <2>2. Same(vm, vm') /\ vm'.panic = vm.panic /\ vm'.wsl = vm.wsl
    BY <1>2, <2>1 DEF VmStates, Same, SameRec
  <2> QED
    BY <1>2, <2>2, QuietSane DEF Sane, Known
<1> QED
  BY <1>3, <1>4

(* The steps of a thread that take no page and change no table.            *)
LEMMA PassSane ==
  ASSUME PanicInv, NEW f \in Faulters,
         \/ \E va \in VAddrs, write \in Writes : Pick(f, va, write)
         \/ AccessHit(f) \/ AccessFault(f) \/ Translate(f) \/ LockVad(f) \/ LockWs(f)
         \/ Awake(f) \/ SendRead(f) \/ RelockVad(f) \/ RelockWs(f)
  PROVE  Sane(vm')
<1>1. vm \in VmStates /\ Sane(vm)
  BY WslFacts DEF PanicInv
<1>2. vm' = vm \/ \E q, d : vm' = [vm EXCEPT !.data[q] = d]
  BY Zenon DEF Pick, AccessHit, AccessFault, Translate, LockVad, LockWs, Awake, SendRead,
     RelockVad, RelockWs
<1>3. vm'.table = vm.table /\ vm'.page = vm.page /\ vm'.wsl = vm.wsl /\ vm'.panic = vm.panic
  BY <1>1, <1>2 DEF VmStates
<1>4. Same(vm, vm') /\ Known(vm')
  BY <1>1, <1>3 DEF Same, SameRec, Sane, Known
<1> QED
  BY <1>1, <1>3, <1>4, QuietSane

(* The page records that main() leaves are tidy, and the list is empty.    *)
LEMMA InitSane == Init => PanicInv
<1> SUFFICES ASSUME Init PROVE PanicInv
  OBVIOUS
<1>1. \A a \in PteAddr : Entry(vm, a) = ZeroPte
  BY DEF Init, VmInit, PteAddr, Entry
<1>2. \A q \in Pages : vm.page[q].nonzero = 0 /\ vm.page[q].referent = NullRef
  BY DEF Init, VmInit
<1>3. Tidy(vm)
  <2>1. ZeroPte.kind # "Swap"
    BY DEF ZeroPte
  <2> HIDE DEF ZeroPte, NullRef
  <2> QED
    BY <1>1, <1>2, <2>1, Zenon DEF Tidy
<1>4. Roomy(vm)
  BY VmAssumption DEF Init, VmInit, Roomy
<1>5. Known(vm)
  BY DEF Init, VmInit, Known
<1> QED
  BY <1>3, <1>4, <1>5, InitWsl DEF PanicInv, Sane

(* Every operation passes its assertions, or fails one of the five.        *)
LEMMA NextSane == PanicInv /\ [Next]_vars => PanicInv'
<1> SUFFICES ASSUME PanicInv, [Next]_vars PROVE PanicInv'
  OBVIOUS
<1>1. WslInv'
  BY NextWsl DEF PanicInv
<1>2. Sane(vm')
  <2>1. CASE \E f \in Faulters, va \in VAddrs, write \in Writes : Pick(f, va, write)
    BY <2>1, PassSane
  <2>2. ASSUME NEW f \in Faulters, FaulterStep(f) PROVE Sane(vm')
    BY <2>2, PassSane, WireSane, ValidLeafSane, FillLeafSane, UnwireSane, FinishReadSane, Zenon
       DEF FaulterStep
  <2>3. CASE WriterStep
    BY <2>3, WriterSane
  <2>4. CASE BalancerStep
    BY <2>4, BalancerSane
  <2>5. CASE UNCHANGED vars
    BY <2>5 DEF vars, PanicInv
  <2> QED
    BY <2>1, <2>2, <2>3, <2>4, <2>5 DEF Next, Halted
<1>3. Sane(vm)'
  BY ONLY <1>2, Zenon DEF Sane, Known, Tidy, Roomy, Entry, IsTable
<1> QED
  BY <1>1, <1>3 DEF PanicInv

(* Of all the kassert() and kfatal() of vm/ only five can be met, whatever *)
(* the number of pages, tables, addresses and threads and however they and *)
(* the daemons interleave: vmp_page_retain_locked() finds its page on its  *)
(* queue, vmp_page_release_locked() a reference, the functions of ws.c the *)
(* entry they are asked for, and the allocator a clean page.               *)
THEOREM OnlyKnownAssertionsFail == Spec => []OnlyKnownPanics
<1>1. PanicInv => OnlyKnownPanics
  BY DEF PanicInv, Sane, Known, OnlyKnownPanics
<1> QED
  BY <1>1, InitSane, NextSane, PTL DEF Spec
=============================================================================
