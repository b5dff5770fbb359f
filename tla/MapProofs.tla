----------------------------- MODULE MapProofs -----------------------------
(***************************************************************************)
(* Who holds which reference: the PTEs and the pages name one another, the *)
(* reference counts and the PTE counts of the page tables are those of the *)
(* PTEs, the wirings and the page writer, whatever the number of pages,    *)
(* page tables and threads.                                                *)
(***************************************************************************)
EXTENDS VmmProofs

Entry(s, a)   == s.table[a[1]][a[2]]
IsTable(s, q) == s.page[q].use \in TableUses
IsAnon(s, q)  == s.page[q].use = "AnonPrivate"

(* The use of the pages that the PTEs of a table of the given use name.    *)
Below(use) ==
  CASE use = "PML4" -> "PML3"
    [] use = "PML3" -> "PML2"
    [] use = "PML2" -> "PML1"
    [] OTHER        -> "AnonPrivate"

InCoreSet(tb) == {i \in Idx : tb[i].kind \in {"Valid", "Trans", "Busy"}}
InUseSet(tb)  == {i \in Idx : tb[i].kind # "Zero"}
NumIn(s, q)   == Cardinality(InCoreSet(s.table[q]))
NumUse(s, q)  == Cardinality(InUseSet(s.table[q]))

(***************************************************************************)
(* The invariant is needed in the middle of a critical section, where it   *)
(* does not hold as it stands.  It is therefore stated of a state s and of *)
(* what is owed:                                                           *)
(*   home    where the PTE of each page is;                                *)
(*   hole    a page that no PTE names yet, or NoPage;                      *)
(*   busy    the PTEs that are busy, with the pages being read in;         *)
(*   pins    per table, what nonswap counts besides in-core PTEs;          *)
(*   uses    per table, what nonzero counts besides PTEs in use;           *)
(*   refs    per page, what refcnt counts besides its PTE and, for a       *)
(*           table, its nonswap count and the working set.                 *)
(***************************************************************************)
PtesLinked(s, home, hole) ==
  \A a \in PteAddr :
    Entry(s, a).kind \in {"Valid", "Trans"} =>
      /\ IsTable(s, a[1])
      /\ Entry(s, a).page # hole /\ home[Entry(s, a).page] = a
      /\ s.page[Entry(s, a).page].use = Below(s.page[a[1]].use)
      /\ Entry(s, a).kind = "Trans" => s.page[a[1]].use = "PML1"

PagesLinked(s, home, hole, busy) ==
  \A q \in Pages \ {Root, hole} :
    IsAnon(s, q) \/ IsTable(s, q) =>
      \/ Entry(s, home[q]).kind \in {"Valid", "Trans"} /\ Entry(s, home[q]).page = q
      \/ << home[q], q >> \in busy

BusyLinked(s, home, hole, busy) ==
  /\ \A a \in PteAddr : Entry(s, a).kind = "Busy" => \E q \in Pages : << a, q >> \in busy
  /\ \A a \in PteAddr, q \in Pages :
       << a, q >> \in busy =>
         /\ Entry(s, a).kind = "Busy" /\ s.page[a[1]].use = "PML1"
         /\ home[q] = a /\ IsAnon(s, q) /\ q # hole
         /\ \A r \in Pages : << a, r >> \in busy => r = q

Linked(s, home, hole, busy) ==
  /\ PtesLinked(s, home, hole)
  /\ PagesLinked(s, home, hole, busy)
  /\ BusyLinked(s, home, hole, busy)
  /\ s.page[Root].use = TableUse[Levels]

Counted(s, pins, uses) ==
  \A q \in Pages :
    IF IsTable(s, q)
    THEN /\ s.page[q].nonswap = pins[q] + NumIn(s, q)
         /\ s.page[q].nonzero >= uses[q] + NumUse(s, q)
    ELSE /\ pins[q] = 0 /\ uses[q] = 0
         /\ s.page[q].use # "Deleted" => s.page[q].nonswap = 0

(* The reference of the PTE, or those of the PTEs of a table.              *)
Mapped(s, home, hole, q) == q # hole /\ Entry(s, home[q]).kind \in {"Valid", "Busy"}

Base(s, home, hole, q) ==
  IF IsAnon(s, q) THEN IF Mapped(s, home, hole, q) THEN 1 ELSE 0
  ELSE IF IsTable(s, q) THEN s.page[q].nonswap + 1 ELSE 0

Referenced(s, home, hole, refs) ==
  \A q \in Pages : s.page[q].refcnt = refs[q] + Base(s, home, hole, q)

Maps(s, home, hole, busy, pins, uses, refs) ==
  /\ Linked(s, home, hole, busy)
  /\ Counted(s, pins, uses)
  /\ Referenced(s, home, hole, refs)

(* What is owed between critical sections, to threads whose locals are x   *)
(* and to the page writer, whose locals are w.                             *)
Home(s)    == [q \in Pages |-> s.page[q].referent]
BusyOf(x)  == {b \in PteAddr \X Pages : \E f \in Faulters : b = << x[f].pte, x[f].page >>}
WiredOf(x) == [q \in Pages |-> Cardinality({fl \in Faulters \X (1 .. Levels) :
                                             x[fl[1]].pages[fl[2]] = q})]
HeldOf(w)  == [q \in Pages |-> Cardinality({i \in 1 .. Len(w.iops) : w.iops[i] = q})
                                 + (IF w.page = q THEN 1 ELSE 0)]

(* What a thread has wired is a table of the level it wired it for.        *)
TablesWired(s, x) ==
  \A f \in Faulters, k \in 1 .. Levels :
    x[f].pages[k] \in Pages => s.page[x[f].pages[k]].use = TableUse[k]

AnonHeld(s, w) == \A q \in Pages : HeldOf(w)[q] > 0 => IsAnon(s, q)

(* A page that is read in is read in by one thread and is not written out. *)
ReadAlone(x, w) ==
  /\ \A f, g \in Faulters : x[f].page \in Pages /\ x[f].page = x[g].page => f = g
  /\ \A f \in Faulters : x[f].page \in Pages => HeldOf(w)[x[f].page] = 0

Owing(s, x, w) ==
  /\ Maps(s, Home(s), NoPage, BusyOf(x), WiredOf(x), WiredOf(x), HeldOf(w))
  /\ TablesWired(s, x) /\ AnonHeld(s, w) /\ ReadAlone(x, w)

(* Where a faulting thread has tables wired and a page to read in.         *)
LocalMap(c, x) ==
  /\ \A k \in 1 .. Levels :
       x.pages[k] # NoPage =>
         \/ c = "fault"
         \/ c \in {"wire", "unwire"} /\ k >= x.level
  /\ x.page # NoPage =>
       c \in {"read", "readVad", "readWs", "finish"} \/ (c = "unwire" /\ x.result = "read")

LocalMaps ==
  /\ vm.panic = NoPanic => \A f \in Faulters : LocalMap(pc[f], flt[f])
  /\ \A f \in Faulters : pc[f] \in {"read", "readVad", "readWs", "finish"} => flt[f].page \in Pages
  /\ pc["pgwriter"] # "send" => wr.page = NoPage

MapInv == TypeInv /\ Placed(vm, NoPage) /\ LocalMaps /\ Owing(vm, flt, wr)

-----------------------------------------------------------------------------
(* What the functions of the code do to the parts of the state that the    *)
(* invariant is about, when no assertion fails.                            *)
SameRec(s, t, q) ==
  /\ t.page[q].use = s.page[q].use /\ t.page[q].refcnt = s.page[q].refcnt
  /\ t.page[q].nonzero = s.page[q].nonzero /\ t.page[q].nonswap = s.page[q].nonswap
  /\ t.page[q].referent = s.page[q].referent

Same(s, t) == t.table = s.table /\ \A q \in Pages : SameRec(s, t, q)

(* Page p has n more references.                                           *)
Refd(s, t, p, n) ==
  /\ t.table = s.table
  /\ \A q \in Pages \ {p} : SameRec(s, t, q)
  /\ t.page[p].use = s.page[p].use /\ t.page[p].refcnt = s.page[p].refcnt + n
  /\ t.page[p].nonzero = s.page[p].nonzero /\ t.page[p].nonswap = s.page[p].nonswap
  /\ t.page[p].referent = s.page[p].referent

(* ... and counts n more nonzero PTEs and m more nonswap PTEs.             *)
Adjusted(s, t, p, r, n, m) ==
  /\ t.table = s.table
  /\ \A q \in Pages \ {p} : SameRec(s, t, q)
  /\ t.page[p].use = s.page[p].use /\ t.page[p].refcnt = s.page[p].refcnt + r
  /\ t.page[p].nonzero = s.page[p].nonzero + n /\ t.page[p].nonswap = s.page[p].nonswap + m
  /\ t.page[p].referent = s.page[p].referent

(* PTE a becomes x.                                                        *)
Entered(s, t, a, x) ==
  /\ \A q \in Pages : SameRec(s, t, q)
  /\ \A b \in PteAddr : Entry(t, b) = IF b = a THEN x ELSE Entry(s, b)

(* PTE a, of a page in use, becomes a transition PTE, and its reference to *)
(* the page is dropped.                                                    *)
EvictedAt(s, t, a) ==
  LET q == Entry(s, a).page
  IN  /\ Entry(s, a).kind = "Valid" /\ IsAnon(s, q)
      /\ \A b \in PteAddr : Entry(t, b) = IF b = a THEN TransPte(q) ELSE Entry(s, b)
      /\ \A r \in Pages \ {q} : SameRec(s, t, r)
      /\ t.page[q].use = s.page[q].use /\ t.page[q].refcnt = s.page[q].refcnt - 1
      /\ t.page[q].nonzero = s.page[q].nonzero /\ t.page[q].nonswap = s.page[q].nonswap
      /\ t.page[q].referent = s.page[q].referent

Trimmed(s, t) == Same(s, t) \/ \E a \in PteAddr : EvictedAt(s, t, a)

(* A failed assertion is seen in the state.                                *)
LEMMA PanicSeen ==
  ASSUME NEW s \in VmStates
  PROVE  \A site : [s EXCEPT !.panic = site].panic = site
  BY DEF VmStates

(* kfatal() is never passed.                                               *)
LEMMA KfatalPassed ==
  ASSUME NEW s \in VmStates, NEW site, site # NoPanic
  PROVE  Kfatal(s, site).panic # NoPanic
  BY PanicSeen DEF Kfatal, Kassert, Then

(* What follows a call that has not failed.                                *)
LEMMA ThenPassed ==
  ASSUME NEW s, NEW t, Then(s, t).panic = NoPanic
  PROVE  s.panic = NoPanic /\ Then(s, t) = t
  BY DEF Then

(* Nothing has happened to a state and itself.                             *)
LEMMA SameSelf == \A s : Same(s, s)
  BY DEF Same, SameRec

(* vmp_page_retain_locked().                                               *)
LEMMA PageRetainEffect ==
  ASSUME NEW s \in VmStates, NEW p \in Pages, PageRetain(s, p).panic = NoPanic
  PROVE  s.panic = NoPanic /\ Refd(s, PageRetain(s, p), p, 1)
<1> DEFINE t == [s EXCEPT !.page[p].refcnt = @ + 1]
           m == [t EXCEPT !.modified = Unlink(@, p), !.stat.nmodified = @ - 1,
                          !.stat.nactive = @ + 1]
           b == [t EXCEPT !.standby = Unlink(@, p), !.stat.nstandby = @ - 1,
                          !.stat.nactive = @ + 1]
           km == Kassert(s, Contains(s.modified, p), "resident.c:147", m)
           kb == Kassert(s, Contains(s.standby, p), "resident.c:151", b)
           kk == IF s.page[p].dirty THEN km ELSE kb
           k == Kassert(s, s.page[p].use # "Deleted", "resident.c:145", kk)
<1>1. Refd(s, t, p, 1)
  BY DEF VmStates, PageDb, PageRec, Refd, SameRec
<1>2. m.page = t.page /\ b.page = t.page /\ m.table = t.table /\ b.table = t.table
  BY DEF VmStates
<1> HIDE DEF t, m, b
<1>3. Refd(s, m, p, 1) /\ Refd(s, b, p, 1)
  BY <1>1, <1>2 DEF Refd, SameRec
<1>4. /\ km.panic = NoPanic => km = m
      /\ kb.panic = NoPanic => kb = b
  BY PanicSeen DEF Kassert, Then, NoPanic
<1> HIDE DEF km, kb
<1>5. kk.panic = NoPanic => Refd(s, kk, p, 1)
  BY <1>3, <1>4
<1> HIDE DEF kk
<1>6. k.panic = NoPanic => s.panic = NoPanic /\ k = kk
  BY PanicSeen DEF Kassert, Then, NoPanic
<1>7. Then(s, t).panic = NoPanic => s.panic = NoPanic /\ Then(s, t) = t
  BY ThenPassed
<1> HIDE DEF k
<1>8. PageRetain(s, p) = IF s.page[p].refcnt # 0 THEN Then(s, t) ELSE k
  BY DEF PageRetain, t, m, b, km, kb, kk, k
<1> QED
  BY <1>1, <1>5, <1>6, <1>7, <1>8

(* vmp_page_release_locked() of a page that has not been deleted.          *)
LEMMA PageReleaseEffect ==
  ASSUME NEW s \in VmStates, NEW p \in Pages, PageRelease(s, p).panic = NoPanic,
         s.page[p].use # "Deleted"
  PROVE  s.panic = NoPanic /\ Refd(s, PageRelease(s, p), p, -1)
<1> DEFINE ok == s.page[p].refcnt > 0 /\ s.page[p].use # "Free"
           t == [s EXCEPT !.page[p].refcnt = @ - 1]
           r == IF t.page[p].refcnt = 0 THEN Requeue(t, p) ELSE t
           k == Kassert(s, ok, "resident.c:164", r)
<1> HIDE DEF r
<1>1. k.panic = NoPanic => s.panic = NoPanic /\ ok /\ k = r
  BY PanicSeen DEF Kassert, Then, NoPanic
<1>2. PageRelease(s, p) = k
  BY DEF PageRelease, r, t
<1>3. s.panic = NoPanic /\ ok /\ PageRelease(s, p) = r /\ r.panic = NoPanic
  BY <1>1, <1>2
<1>4. t \in VmStates
  <2>1. s.page[p].refcnt - 1 \in Nat
    BY <1>3, PagePart
  <2> QED
    BY <2>1, SetFieldType
<1>5. Refd(s, t, p, -1)
  BY DEF VmStates, PageDb, PageRec, Refd, SameRec
<1> HIDE DEF t
<1>6. Requeue(t, p).panic = NoPanic =>
        Requeue(t, p).page = t.page /\ Requeue(t, p).table = t.table
  <2> DEFINE n == [t EXCEPT !.stat.nactive = @ - 1]
             m == [n EXCEPT !.modified = Append(@, p), !.stat.nmodified = @ + 1]
             b == [n EXCEPT !.standby = Append(@, p), !.stat.nstandby = @ + 1]
             am == AnnounceSufficience(CheckShortage(m))
             ab == AnnounceSufficience(CheckShortage(b))
  <2>1. /\ am.page = t.page /\ am.table = t.table
        /\ ab.page = t.page /\ ab.table = t.table
    BY <1>4 DEF AnnounceSufficience, CheckShortage, VmStates
  <2>2. Kfatal(t, "resident.c:183").panic # NoPanic
    BY <1>4, KfatalPassed, Zenon DEF NoPanic
  <2>3. t.page[p].use # "Deleted"
    BY <1>5 DEF Refd
  <2> HIDE DEF n, m, b, am, ab
  <2>4. Requeue(t, p) = IF t.page[p].use = "AnonPrivate"
                        THEN IF t.page[p].dirty THEN am ELSE ab
                        ELSE Kfatal(t, "resident.c:183")
    BY <2>3 DEF Requeue, n, m, b, am, ab
  <2> QED
    BY <2>1, <2>2, <2>4, Zenon
<1>7. r.page = t.page /\ r.table = t.table
  BY <1>3, <1>6 DEF r
<1>8. Refd(s, r, p, -1)
  BY <1>5, <1>7 DEF Refd, SameRec
<1> QED
  BY <1>3, <1>8

(* The working set list is no part of what the invariant is about.         *)
LEMMA WslEntryEffect ==
  ASSUME NEW s \in VmStates, NEW k
  PROVE  /\ WslLockEntry(s, k).panic = NoPanic => s.panic = NoPanic /\ Same(s, WslLockEntry(s, k))
         /\ WslUnlockEntry(s, k).panic = NoPanic =>
              s.panic = NoPanic /\ Same(s, WslUnlockEntry(s, k))
         /\ WslRemove(s, k).panic = NoPanic => s.panic = NoPanic /\ Same(s, WslRemove(s, k))
<1> DEFINE l == [s EXCEPT !.wsl.queue = Unlink(@, k), !.wsl.nlocked = @ + 1]
           u == [s EXCEPT !.wsl.queue = Append(@, k), !.wsl.nlocked = @ - 1]
           r == [s EXCEPT !.wsl.tree = @ \ {k}, !.wsl.queue = Unlink(@, k)]
<1>1. /\ l.page = s.page /\ l.table = s.table
      /\ u.page = s.page /\ u.table = s.table
      /\ r.page = s.page /\ r.table = s.table
  BY DEF VmStates
<1> HIDE DEF l, u, r
<1>2. Same(s, l) /\ Same(s, u) /\ Same(s, r)
  BY <1>1 DEF Same, SameRec
<1>3. /\ WslLockEntry(s, k).panic = NoPanic => s.panic = NoPanic /\ WslLockEntry(s, k) = l
      /\ WslUnlockEntry(s, k).panic = NoPanic => s.panic = NoPanic /\ WslUnlockEntry(s, k) = u
      /\ WslRemove(s, k).panic = NoPanic => s.panic = NoPanic /\ WslRemove(s, k) = r
  BY PanicSeen DEF WslLockEntry, WslUnlockEntry, WslRemove, Kassert, Then, NoPanic, l, u, r
<1> QED
  BY <1>2, <1>3

(* The parts of the address of a PTE.                                      *)
LEMMA AddrParts ==
  ASSUME NEW b \in PteAddr
  PROVE  b = << b[1], b[2] >> /\ b[1] \in Pages /\ b[2] \in Idx
  BY DEF PteAddr

(* wsl_evict().                                                            *)
LEMMA WslEvictEffect ==
  ASSUME NEW s \in VmStates, NEW t \in Pages, NEW i \in Idx, WslEvict(s, t, i).panic = NoPanic
  PROVE  s.panic = NoPanic /\ EvictedAt(s, WslEvict(s, t, i), << t, i >>)
<1> DEFINE pte == s.table[t][i]
           p   == pte.page
           d   == s.page[p].dirty \/ pte.writeable
           u   == [s EXCEPT !.page[p].dirty = @ \/ pte.writeable, !.table[t][i] = TransPte(p)]
           r   == PageRelease(u, p)
<1>1. p \in Pages /\ TransPte(p) \in Pte /\ d \in BOOLEAN
  BY TablePart, PteTypes, Zenon
<1> HIDE DEF r
<1>2. /\ s.panic = NoPanic /\ pte.kind = "Valid" /\ s.page[p].use = "AnonPrivate"
      /\ WslEvict(s, t, i) = r /\ r.panic = NoPanic
  BY PanicSeen, Zenon DEF WslEvict, Kassert, Then, NoPanic, r
<1> HIDE DEF p, pte
<1>3. /\ u.page = [s.page EXCEPT ![p].dirty = d]
      /\ u.table = [s.table EXCEPT ![t][i] = TransPte(p)]
  BY DEF VmStates
<1>4. u \in VmStates
  <2>1. [s.page EXCEPT ![p].dirty = d] \in PageDb
    <3>1. [s.page[p] EXCEPT !.dirty = d] \in PageRec
      BY <1>1, PagePart, PageRecUpdate
    <3> QED
      BY <1>1, <3>1, Parts DEF PageDb
  <2>2. [s.table EXCEPT ![t][i] = TransPte(p)] \in TableMem
    BY <1>1, Parts DEF TableMem
  <2> QED
    BY <2>1, <2>2 DEF VmStates
<1> HIDE DEF u, d
<1>5. \A q \in Pages : SameRec(s, u, q)
  <2>1. s.page \in PageDb
    BY Parts
  <2> QED
    BY <1>1, <1>3, <2>1 DEF PageDb, PageRec, SameRec
<1>6. \A b \in PteAddr : Entry(u, b) = IF b = << t, i >> THEN TransPte(p) ELSE Entry(s, b)
  <2> DEFINE x == TransPte(p)
  <2>1. u.table = [s.table EXCEPT ![t][i] = x] /\ s.table \in TableMem
    BY <1>3, Parts
  <2> HIDE DEF x
  <2>2. \A e \in Pages, j \in Idx :
          u.table[e][j] = IF e = t /\ j = i THEN x ELSE s.table[e][j]
    BY <2>1 DEF TableMem
  <2>3. \A b \in PteAddr : Entry(u, b) = IF b = << t, i >> THEN x ELSE Entry(s, b)
    BY <2>2, AddrParts DEF Entry
  <2> QED
    BY <2>3 DEF x
<1>7. Refd(u, r, p, -1)
  <2>1. u.page[p].use # "Deleted"
    BY <1>1, <1>2, <1>5 DEF SameRec
  <2> QED
    BY <1>1, <1>2, <1>4, <2>1, PageReleaseEffect DEF r
<1>8. \A b \in PteAddr : Entry(r, b) = Entry(u, b)
  BY <1>7 DEF Refd, Entry
<1>9. Entry(s, << t, i >>) = pte
  BY DEF Entry, pte
<1>10. /\ \A q \in Pages \ {p} : SameRec(s, r, q)
       /\ r.page[p].use = s.page[p].use /\ r.page[p].refcnt = s.page[p].refcnt - 1
       /\ r.page[p].nonzero = s.page[p].nonzero /\ r.page[p].nonswap = s.page[p].nonswap
       /\ r.page[p].referent = s.page[p].referent
  <2>1. u.page[p].refcnt + (-1) = s.page[p].refcnt - 1
    BY <1>1, <1>5, PagePart DEF SameRec
  <2> QED
    BY <1>1, <1>5, <1>7, <2>1 DEF Refd, SameRec
<1>11. EvictedAt(s, r, << t, i >>)
  BY <1>2, <1>6, <1>8, <1>9, <1>10 DEF EvictedAt, IsAnon, p
<1> QED
  BY <1>2, <1>11

(* wsl_trim_1().                                                           *)
LEMMA WslTrim1Effect ==
  ASSUME NEW s \in VmStates, s.wsl.queue # << >>, WslTrim1(s).panic = NoPanic
  PROVE  s.panic = NoPanic /\ Trimmed(s, WslTrim1(s))
<1> DEFINE k == Head(s.wsl.queue)
           w == [s.wsl EXCEPT !.queue = Tail(@), !.tree = @ \ {k}, !.nentries = @ - 1]
           t == [s EXCEPT !.wsl.queue = Tail(@), !.wsl.tree = @ \ {k},
                          !.wsl.nentries = @ - 1]
           pt == FetchPte(s, k[2])
           e == WslEvict(t, pt, k[2][1])
<1>1. k \in WsKey
  BY WslPart
<1> HIDE DEF k
<1>2. t \in VmStates
  <2>1. Tail(s.wsl.queue) \in Seq(WsKey)
    BY WslPart
  <2>2. s.wsl.tree \ {k} \in SUBSET WsKey /\ s.wsl.nentries - 1 \in Int
    BY WslPart
  <2>3. w \in WsList
    BY <2>1, <2>2, Parts, WslPart, WslUpdate, Zenon
  <2> QED
    BY <2>3, Zenon DEF VmStates
<1>3. t.page = s.page /\ t.table = s.table
  BY DEF VmStates
<1> HIDE DEF t, pt, e
<1>4. Kfatal(s, "tables.c:87").panic # NoPanic
  BY KfatalPassed, ZenonT(60) DEF NoPanic
<1>5. WslTrim1(s) = IF k[1] = "table"
                    THEN Kassert(s, s.page[k[2]].referent[2] = 0, "resident.c:207",
                                 Kfatal(s, "tables.c:87"))
                    ELSE Kassert(s, pt \in Pages, "ws.c:77", e)
  BY Zenon DEF WslTrim1, k, t, pt, e
<1>6. /\ s.panic = NoPanic /\ k[1] # "table" /\ pt \in Pages
      /\ WslTrim1(s) = e /\ e.panic = NoPanic
  BY <1>4, <1>5, PanicSeen DEF Kassert, Then, NoPanic
<1>7. k[2][1] \in Idx
  BY <1>1, <1>6, VmAssumption DEF WsKey, VAddr
<1>8. EvictedAt(t, e, << pt, k[2][1] >>)
  BY <1>2, <1>6, <1>7, WslEvictEffect, Zenon DEF e
<1>9. EvictedAt(s, e, << pt, k[2][1] >>)
  <2>1. /\ \A b : Entry(t, b) = Entry(s, b)
        /\ \A q : SameRec(t, e, q) => SameRec(s, e, q)
        /\ \A q : t.page[q] = s.page[q]
    BY <1>3 DEF Entry, SameRec
  <2> QED
    BY <1>8, <2>1 DEF EvictedAt, IsAnon
<1>10. << pt, k[2][1] >> \in PteAddr
  BY <1>6, <1>7 DEF PteAddr
<1> QED
  BY <1>6, <1>9, <1>10 DEF Trimmed

(* What follows what has changed nothing.                                  *)
LEMMA SameThen ==
  ASSUME NEW s, NEW t, NEW u, Same(s, t), Same(t, u)
  PROVE  Same(s, u)
  BY DEF Same, SameRec

(* A trim, and what changes nothing.                                       *)
LEMMA TrimmedThen ==
  ASSUME NEW s \in VmStates, NEW t, NEW u, Trimmed(s, t), Same(t, u)
  PROVE  Trimmed(s, u)
<1>1. CASE Same(s, t)
  BY <1>1, SameThen DEF Trimmed
<1>2. ASSUME NEW a \in PteAddr, EvictedAt(s, t, a) PROVE EvictedAt(s, u, a)
  <2>1. \A b : Entry(u, b) = Entry(t, b)
    BY DEF Same, Entry
  <2>2. \A q \in Pages : SameRec(t, u, q)
    BY DEF Same
  <2>3. Entry(s, a).page \in Pages
    BY <1>2, TablePart DEF Entry, PteAddr
  <2> QED
    BY <1>2, <2>1, <2>2, <2>3 DEF EvictedAt, SameRec
<1> QED
  BY <1>1, <1>2 DEF Trimmed

(* vmp_wsl_insert().                                                       *)
LEMMA WslInsertEffect ==
  ASSUME NEW s \in VmStates, NEW k \in WsKey, NEW locked \in BOOLEAN,
         WslInsert(s, k, locked).panic = NoPanic
  PROVE  s.panic = NoPanic /\ Trimmed(s, WslInsert(s, k, locked))
<1> DEFINE r == WslMakeRoom(s)
           a == [r EXCEPT !.wsl.nentries = @ + 1,
                          !.wsl.nlocked = IF locked THEN @ + 1 ELSE @,
                          !.wsl.queue = IF locked THEN @ ELSE Append(@, k),
                          !.wsl.tree = @ \cup {k}]
           x == [s EXCEPT !.wsl.max = @ + WsPageExpansionCount]
           c == Kassert(s, s.wsl.queue # << >>, "ws.c:112", WslTrim1(s))
<1>1. r \in VmStates
  BY WslMakeRoomType
<1> HIDE DEF r
<1>2. s.panic = NoPanic /\ WslInsert(s, k, locked) = a /\ r.panic = NoPanic
  BY PanicSeen DEF WslInsert, WslAdd, Kassert, Then, NoPanic, r
<1>3. a.page = r.page /\ a.table = r.table
  BY <1>1 DEF VmStates
<1>4. x.page = s.page /\ x.table = s.table
  BY DEF VmStates
<1>5. c.panic = NoPanic => s.wsl.queue # << >> /\ c = WslTrim1(s)
  BY PanicSeen DEF Kassert, Then, NoPanic
<1> HIDE DEF a, x, c
<1>6. r = IF s.wsl.nentries # s.wsl.max THEN s
          ELSE IF Available(s) > MinAvailForExpansion THEN x ELSE c
  BY DEF r, WslMakeRoom, x, c
<1>7. Same(s, s) /\ Same(s, x) /\ Same(r, a)
  BY <1>3, <1>4 DEF Same, SameRec
<1>8. c.panic = NoPanic => Trimmed(s, c)
  BY <1>5, WslTrim1Effect
<1>9. Trimmed(s, r)
  BY <1>2, <1>6, <1>7, <1>8 DEF Trimmed
<1> QED
  BY <1>2, <1>7, <1>9, TrimmedThen

(* A change to the references or the counts of page p, and what changes    *)
(* nothing.                                                                *)
LEMMA AdjustedThen ==
  ASSUME NEW s, NEW t, NEW u, NEW p \in Pages, NEW r, NEW n, NEW m,
         Adjusted(s, t, p, r, n, m), Same(t, u)
  PROVE  Adjusted(s, u, p, r, n, m)
  BY DEF Adjusted, Same, SameRec

(* Two changes to the same page.                                           *)
LEMMA AdjustedTwice ==
  ASSUME NEW s \in VmStates, NEW t, NEW u, NEW p \in Pages,
         NEW r \in Int, NEW n \in Int, NEW m \in Int,
         NEW r2 \in Int, NEW n2 \in Int, NEW m2 \in Int,
         Adjusted(s, t, p, r, n, m), Adjusted(t, u, p, r2, n2, m2)
  PROVE  Adjusted(s, u, p, r + r2, n + n2, m + m2)
<1>1. s.page[p].refcnt \in Int /\ s.page[p].nonzero \in Int /\ s.page[p].nonswap \in Int
  BY PagePart
<1> QED
  BY <1>1 DEF Adjusted, SameRec

(* A change to the references alone.                                       *)
LEMMA RefdAdjusted ==
  ASSUME NEW s \in VmStates, NEW t, NEW p \in Pages, NEW n \in Int, Refd(s, t, p, n)
  PROVE  Adjusted(s, t, p, n, 0, 0)
<1>1. s.page[p].nonzero \in Int /\ s.page[p].nonswap \in Int
  BY PagePart
<1> QED
  BY <1>1 DEF Adjusted, Refd

(* vmp_pagetable_page_nonswap_pte_created().                               *)
LEMMA NonswapPteCreatedEffect ==
  ASSUME NEW s \in VmStates, NEW p \in Pages, NEW isNew \in BOOLEAN,
         NonswapPteCreated(s, p, isNew).panic = NoPanic
  PROVE  /\ s.panic = NoPanic
         /\ Adjusted(s, NonswapPteCreated(s, p, isNew), p, 1, IF isNew THEN 1 ELSE 0, 1)
<1> DEFINE r == PageRetain(s, p)
           n == IF isNew THEN 1 ELSE 0
           a == IF isNew THEN r.page[p].nonzero + 1 ELSE r.page[p].nonzero
           b == r.page[p].nonswap + 1
           t == [r EXCEPT !.page[p].nonzero = a, !.page[p].nonswap = b]
           w == WslLockEntry(t, TableKey(p))
           u == IF r.page[p].nonswap = 0 /\ ~IsRootTable(r, p) THEN w ELSE t
<1>1. r \in VmStates
  BY PageRetainType
<1>2. r.panic = NoPanic => s.panic = NoPanic /\ Adjusted(s, r, p, 1, 0, 0)
  BY PageRetainEffect, RefdAdjusted
<1> HIDE DEF r
<1>3. a \in Int /\ b \in Int /\ a = r.page[p].nonzero + n /\ n \in Int
  BY <1>1, PagePart, SMTT(60)
<1>4. t \in VmStates
  <2> HIDE DEF a, b
  <2>1. r.page[p].use \in PageUse /\ r.page[p].referent \in PteAddr
    BY <1>1, PagePart
  <2> QED
    BY <1>1, <1>3, <2>1, TwoFieldsType, Zenon
<1>5. Adjusted(r, t, p, 0, n, 1)
  <2> HIDE DEF a, b, n
  <2>1. r.page[p].refcnt + 0 = r.page[p].refcnt
    BY <1>1, PagePart
  <2>2. /\ t.table = r.table
        /\ \A q \in Pages \ {p} : SameRec(r, t, q)
        /\ t.page[p].use = r.page[p].use /\ t.page[p].refcnt = r.page[p].refcnt
        /\ t.page[p].nonzero = a /\ t.page[p].nonswap = b
        /\ t.page[p].referent = r.page[p].referent
    BY <1>1 DEF VmStates, PageDb, PageRec, SameRec
  <2> HIDE DEF t
  <2> QED
    BY <1>3, <2>1, <2>2 DEF Adjusted, b
<1>6. NonswapPteCreated(s, p, isNew) = Then(r, u)
  BY DEF NonswapPteCreated, r
<1> HIDE DEF t, a, b, n
<1>7. w.panic = NoPanic => Same(t, w)
  BY <1>4, WslEntryEffect
<1> HIDE DEF w
<1>8. r.panic = NoPanic /\ NonswapPteCreated(s, p, isNew) = u /\ u.panic = NoPanic
  BY <1>6 DEF Then
<1>9. Adjusted(r, u, p, 0, n, 1)
  BY <1>5, <1>7, <1>8, AdjustedThen
<1>10. Adjusted(s, u, p, 1 + 0, 0 + n, 0 + 1)
  BY <1>2, <1>3, <1>8, <1>9, AdjustedTwice
<1> QED
  BY <1>2, <1>3, <1>8, <1>10 DEF n

(* The last nonswap PTE of a table is gone.                                *)
LEMMA NonswapPteGoneEffect ==
  ASSUME NEW s \in VmStates, NEW p \in Pages, NonswapPteGone(s, p).panic = NoPanic
  PROVE  s.panic = NoPanic /\ Adjusted(s, NonswapPteGone(s, p), p, 0, 0, -1)
<1> DEFINE t == [s EXCEPT !.page[p].nonswap = @ - 1]
           w == WslUnlockEntry(t, TableKey(p))
           u == IF s.page[p].nonswap = 1 /\ ~IsRootTable(s, p) THEN w ELSE t
<1>1. t \in VmStates
  <2>1. s.page[p].nonswap - 1 \in Int
    BY PagePart
  <2> QED
    BY <2>1, SetFieldType
<1>2. Adjusted(s, t, p, 0, 0, -1)
  BY PagePart DEF VmStates, PageDb, PageRec, SameRec, Adjusted
<1>3. NonswapPteGone(s, p) = Then(s, u)
  BY DEF NonswapPteGone
<1> HIDE DEF t
<1>4. w.panic = NoPanic => Same(t, w)
  BY <1>1, WslEntryEffect
<1> HIDE DEF w
<1>5. s.panic = NoPanic /\ NonswapPteGone(s, p) = u /\ u.panic = NoPanic
  BY <1>3 DEF Then
<1> QED
  BY <1>2, <1>4, <1>5, AdjustedThen

(* vmp_pagetable_page_pte_became_swap().                                   *)
LEMMA PteBecameSwapEffect ==
  ASSUME NEW s \in VmStates, NEW p \in Pages, PteBecameSwap(s, p).panic = NoPanic,
         s.page[p].use # "Deleted"
  PROVE  s.panic = NoPanic /\ Adjusted(s, PteBecameSwap(s, p), p, -1, 0, -1)
<1> DEFINE g == NonswapPteGone(s, p)
           r == PageRelease(g, p)
<1>1. g \in VmStates /\ (g.panic = NoPanic => s.panic = NoPanic /\ Adjusted(s, g, p, 0, 0, -1))
  BY NonswapPteGoneType, NonswapPteGoneEffect
<1>2. r.panic = NoPanic
  BY DEF PteBecameSwap
<1> HIDE DEF g
<1>3. g.panic = NoPanic
  BY <1>1, <1>2 DEF PageRelease, Kassert, Then
<1>4. g.page[p].use # "Deleted"
  BY <1>1, <1>3 DEF Adjusted
<1>5. Adjusted(g, r, p, -1, 0, 0)
  BY <1>1, <1>2, <1>4, PageReleaseEffect, RefdAdjusted
<1> HIDE DEF r
<1>6. Adjusted(s, r, p, 0 + (-1), 0 + 0, (-1) + 0)
  BY <1>1, <1>3, <1>5, AdjustedTwice
<1> QED
  BY <1>1, <1>3, <1>6 DEF PteBecameSwap, g, r

(* vmp_pagetable_page_pte_deleted() of a PTE that is not the last.         *)
LEMMA PteUncountedEffect ==
  ASSUME NEW s \in VmStates, NEW p \in Pages, PteUncounted(s, p).panic = NoPanic,
         s.page[p].use # "Deleted"
  PROVE  s.panic = NoPanic /\ Adjusted(s, PteUncounted(s, p), p, -1, -1, -1)
<1> DEFINE t == [s EXCEPT !.page[p].nonzero = @ - 1]
<1>1. t \in VmStates
  BY NonzeroLowered
<1>2. Adjusted(s, t, p, 0, -1, 0) /\ t.panic = s.panic
  BY PagePart DEF VmStates, PageDb, PageRec, SameRec, Adjusted
<1>3. PteUncounted(s, p) = PteBecameSwap(t, p)
  BY DEF PteUncounted, PteBecameSwap
<1> HIDE DEF t
<1>4. t.page[p].use # "Deleted"
  BY <1>2 DEF Adjusted
<1>5. t.panic = NoPanic /\ Adjusted(t, PteUncounted(s, p), p, -1, 0, -1)
  BY <1>1, <1>3, <1>4, PteBecameSwapEffect
<1>6. Adjusted(s, PteUncounted(s, p), p, 0 + (-1), (-1) + 0, 0 + (-1))
  BY ONLY s \in VmStates, p \in Pages, <1>2, <1>5, AdjustedTwice, -1 \in Int, 0 \in Int
<1> QED
  BY <1>2, <1>5, <1>6

(* *pte = x.                                                               *)
LEMMA SetPteEffect ==
  ASSUME NEW s \in VmStates, NEW a \in PteAddr, NEW x, SetPte(s, a, x).panic = NoPanic
  PROVE  s.panic = NoPanic /\ Entered(s, SetPte(s, a, x), a, x)
<1> DEFINE t == [s EXCEPT !.table[a[1]][a[2]] = x]
<1>1. t.page = s.page /\ t.table = [s.table EXCEPT ![a[1]][a[2]] = x] /\ s.table \in TableMem
  BY Parts DEF VmStates
<1>2. s.panic = NoPanic /\ SetPte(s, a, x) = t
  BY DEF SetPte, Then
<1> HIDE DEF t
<1>3. a[1] \in Pages /\ a[2] \in Idx /\ a = << a[1], a[2] >>
  BY AddrParts
<1>4. \A e \in Pages, j \in Idx :
        t.table[e][j] = IF e = a[1] /\ j = a[2] THEN x ELSE s.table[e][j]
  BY <1>1, <1>3 DEF TableMem
<1>5. \A b \in PteAddr : Entry(t, b) = IF b = a THEN x ELSE Entry(s, b)
  BY <1>3, <1>4, AddrParts DEF Entry
<1>6. \A q \in Pages : SameRec(s, t, q)
  BY <1>1 DEF SameRec
<1> QED
  BY <1>2, <1>5, <1>6 DEF Entered

(* The referent of page p becomes a.                                       *)
Referred(s, t, p, a) ==
  /\ t.table = s.table
  /\ \A q \in Pages \ {p} : SameRec(s, t, q)
  /\ t.page[p].use = s.page[p].use /\ t.page[p].refcnt = s.page[p].refcnt
  /\ t.page[p].nonzero = s.page[p].nonzero /\ t.page[p].nonswap = s.page[p].nonswap
  /\ t.page[p].referent = a

(* page->referent_pte = a.                                                 *)
LEMMA SetReferentEffect ==
  ASSUME NEW s \in VmStates, NEW p \in Pages, NEW a, SetReferent(s, p, a).panic = NoPanic
  PROVE  s.panic = NoPanic /\ Referred(s, SetReferent(s, p, a), p, a)
<1> DEFINE t == [s EXCEPT !.page[p].referent = a]
<1>1. s.panic = NoPanic /\ SetReferent(s, p, a) = t
  BY DEF SetReferent, Then
<1>2. Referred(s, t, p, a)
  BY DEF VmStates, PageDb, PageRec, SameRec, Referred
<1> HIDE DEF t
<1> QED
  BY <1>1, <1>2

-----------------------------------------------------------------------------
(* What is owed to the pages.                                              *)
Ledger == [Pages -> Int]

Plus(l, p, n) == [l EXCEPT ![p] = @ + n]

(* One page is owed n more.                                                *)
LEMMA PlusAt ==
  ASSUME NEW l \in Ledger, NEW p \in Pages, NEW n \in Int
  PROVE  /\ Plus(l, p, n) \in Ledger
         /\ Plus(l, p, n)[p] = l[p] + n
         /\ \A q \in Pages \ {p} : Plus(l, p, n)[q] = l[q]
         /\ \A q \in Pages : l[q] \in Int
  BY DEF Ledger, Plus

(* What is paid back is not owed.                                          *)
LEMMA PlusBack ==
  ASSUME NEW l \in Ledger, NEW p \in Pages
  PROVE  /\ Plus(Plus(l, p, 1), p, -1) = l /\ Plus(Plus(l, p, -1), p, 1) = l
         /\ Plus(l, p, 0) = l
<1>1. l \in [Pages -> Int] /\ l[p] \in Int
  BY DEF Ledger
<1>2. (l[p] + 1) + (-1) = l[p] /\ (l[p] + (-1)) + 1 = l[p] /\ l[p] + 0 = l[p]
  BY <1>1
<1>3. l = [l EXCEPT ![p] = l[p]]
  BY <1>1
<1>4. Plus(l, p, 0) = l
  BY <1>2, <1>3 DEF Plus
<1>5. Plus(Plus(l, p, 1), p, -1) = [l EXCEPT ![p] = (l[p] + 1) + (-1)]
  BY <1>1 DEF Plus
<1>6. Plus(Plus(l, p, -1), p, 1) = [l EXCEPT ![p] = (l[p] + (-1)) + 1]
  BY <1>1 DEF Plus
<1> QED
  BY <1>2, <1>3, <1>4, <1>5, <1>6

(* A PTE and the parts of its address.                                     *)
LEMMA EntryPart ==
  ASSUME NEW s \in VmStates, NEW a \in PteAddr
  PROVE  /\ Entry(s, a) \in Pte /\ Entry(s, a).page \in Pages /\ Entry(s, a).kind \in PteKind
         /\ a[1] \in Pages /\ a[2] \in Idx
  BY AddrParts, TablePart DEF Entry, Pte

(* The PTEs of a table can be counted.                                     *)
LEMMA CountsType ==
  ASSUME NEW s, NEW q
  PROVE  /\ IsFiniteSet(InCoreSet(s.table[q])) /\ IsFiniteSet(InUseSet(s.table[q]))
         /\ NumIn(s, q) \in Nat /\ NumUse(s, q) \in Nat
<1>1. IsFiniteSet(Idx)
  BY FS_Interval, VmAssumption DEF Idx
<1>2. InCoreSet(s.table[q]) \subseteq Idx /\ InUseSet(s.table[q]) \subseteq Idx
  BY DEF InCoreSet, InUseSet
<1> QED
  BY <1>1, <1>2, FS_Subset, FS_CardinalityType DEF NumIn, NumUse

(* The links depend on the PTEs and on the uses of the pages.              *)
LEMMA LinkedSame ==
  ASSUME NEW s \in VmStates, NEW t, NEW home, NEW hole, NEW busy, Linked(s, home, hole, busy),
         \A a : Entry(t, a) = Entry(s, a),
         \A q \in Pages : t.page[q].use = s.page[q].use
  PROVE  Linked(t, home, hole, busy)
<1>1. \A q \in Pages : (IsAnon(t, q) <=> IsAnon(s, q)) /\ (IsTable(t, q) <=> IsTable(s, q))
  BY DEF IsAnon, IsTable
<1>2. PtesLinked(t, home, hole)
  BY <1>1, EntryPart DEF Linked, PtesLinked
<1>3. PagesLinked(t, home, hole, busy)
  BY <1>1 DEF Linked, PagesLinked
<1>4. BusyLinked(t, home, hole, busy)
  BY <1>1, EntryPart DEF Linked, BusyLinked
<1> QED
  BY <1>2, <1>3, <1>4, ConstantTypes DEF Linked

(* Code that changes neither the PTEs nor the uses and the counts.         *)
LEMMA SameMaps ==
  ASSUME NEW s \in VmStates, NEW t, Same(s, t),
         NEW home, NEW hole, NEW busy, NEW pins, NEW uses, NEW refs,
         Maps(s, home, hole, busy, pins, uses, refs)
  PROVE  Maps(t, home, hole, busy, pins, uses, refs)
<1>1. \A a : Entry(t, a) = Entry(s, a)
  BY DEF Same, Entry
<1>2. \A q \in Pages : SameRec(s, t, q) /\ NumIn(t, q) = NumIn(s, q) /\ NumUse(t, q) = NumUse(s, q)
  BY DEF Same, NumIn, NumUse
<1>3. \A q \in Pages : (IsAnon(t, q) <=> IsAnon(s, q)) /\ (IsTable(t, q) <=> IsTable(s, q))
  BY <1>2 DEF SameRec, IsAnon, IsTable
<1>4. Linked(t, home, hole, busy)
  BY <1>1, <1>2, LinkedSame DEF Maps, SameRec
<1>5. Counted(t, pins, uses)
  BY <1>2, <1>3 DEF Maps, Counted, SameRec
<1>6. Referenced(t, home, hole, refs)
  BY <1>1, <1>2, <1>3 DEF Maps, Referenced, Base, Mapped, SameRec
<1> QED
  BY <1>4, <1>5, <1>6 DEF Maps

(* The references and the counts of a page change.                         *)
LEMMA AdjustedMaps ==
  ASSUME NEW s \in VmStates, NEW t \in VmStates, NEW p \in Pages,
         NEW r \in Int, NEW n \in Int, NEW m \in Int, Adjusted(s, t, p, r, n, m),
         IsTable(s, p) \/ (n = 0 /\ m = 0),
         NEW home, NEW hole, NEW busy, NEW pins \in Ledger, NEW uses \in Ledger,
         NEW refs \in Ledger, Maps(s, home, hole, busy, pins, uses, refs)
  PROVE  Maps(t, home, hole, busy, Plus(pins, p, m), Plus(uses, p, n), Plus(refs, p, r - m))
<1>1. \A a : Entry(t, a) = Entry(s, a)
  BY DEF Adjusted, Entry
<1>2. \A q \in Pages : /\ t.page[q].use = s.page[q].use
                       /\ NumIn(t, q) = NumIn(s, q) /\ NumUse(t, q) = NumUse(s, q)
  BY DEF Adjusted, SameRec, NumIn, NumUse
<1>3. \A q \in Pages : (IsAnon(t, q) <=> IsAnon(s, q)) /\ (IsTable(t, q) <=> IsTable(s, q))
  BY <1>2 DEF IsAnon, IsTable
<1>4. Linked(t, home, hole, busy)
  BY <1>1, <1>2, LinkedSame DEF Maps
<1>5. \A q \in Pages : IsAnon(s, q) => ~IsTable(s, q)
  BY DEF IsAnon, IsTable, TableUses
<1> DEFINE pins2 == Plus(pins, p, m)
           uses2 == Plus(uses, p, n)
           refs2 == Plus(refs, p, r - m)
<1>6. /\ \A q \in Pages : pins[q] \in Int /\ uses[q] \in Int /\ refs[q] \in Int
      /\ pins2[p] = pins[p] + m /\ uses2[p] = uses[p] + n /\ refs2[p] = refs[p] + (r - m)
      /\ \A q \in Pages \ {p} : pins2[q] = pins[q] /\ uses2[q] = uses[q] /\ refs2[q] = refs[q]
  <2>1. /\ \A q \in Pages : pins[q] \in Int
        /\ pins2[p] = pins[p] + m /\ \A q \in Pages \ {p} : pins2[q] = pins[q]
    BY PlusAt
  <2>2. /\ \A q \in Pages : uses[q] \in Int
        /\ uses2[p] = uses[p] + n /\ \A q \in Pages \ {p} : uses2[q] = uses[q]
    BY PlusAt
  <2>3. /\ \A q \in Pages : refs[q] \in Int
        /\ refs2[p] = refs[p] + (r - m) /\ \A q \in Pages \ {p} : refs2[q] = refs[q]
    BY PlusAt, r - m \in Int
  <2> HIDE DEF pins2, uses2, refs2
  <2> QED
    BY <2>1, <2>2, <2>3
<1> HIDE DEF pins2, uses2, refs2
<1>7. Counted(t, pins2, uses2)
  <2> SUFFICES ASSUME NEW q \in Pages
               PROVE  IF IsTable(t, q)
                      THEN /\ t.page[q].nonswap = pins2[q] + NumIn(t, q)
                           /\ t.page[q].nonzero >= uses2[q] + NumUse(t, q)
                      ELSE /\ pins2[q] = 0 /\ uses2[q] = 0
                           /\ t.page[q].use # "Deleted" => t.page[q].nonswap = 0
    BY DEF Counted
  <2>1. IF IsTable(s, q)
        THEN /\ s.page[q].nonswap = pins[q] + NumIn(s, q)
             /\ s.page[q].nonzero >= uses[q] + NumUse(s, q)
        ELSE /\ pins[q] = 0 /\ uses[q] = 0
             /\ s.page[q].use # "Deleted" => s.page[q].nonswap = 0
    BY DEF Maps, Counted
  <2>2. NumIn(s, q) \in Int /\ NumUse(s, q) \in Int
    BY CountsType
  <2>3. CASE q # p
    BY <1>2, <1>3, <1>6, <2>1, <2>3 DEF Adjusted, SameRec
  <2>4. CASE q = p
    <3>1. /\ t.page[p].nonzero = s.page[p].nonzero + n
          /\ t.page[p].nonswap = s.page[p].nonswap + m
          /\ s.page[p].nonzero \in Int /\ s.page[p].nonswap \in Int
      BY PagePart DEF Adjusted
    <3>2. CASE IsTable(s, p)
      BY <1>2, <1>3, <1>6, <2>1, <2>2, <2>4, <3>1, <3>2
    <3>3. CASE ~IsTable(s, p)
      BY <1>2, <1>3, <1>6, <2>1, <2>4, <3>1, <3>3
    <3> QED
      BY <3>2, <3>3
  <2> QED
    BY <2>3, <2>4
<1>8. Referenced(t, home, hole, refs2)
  <2> SUFFICES ASSUME NEW q \in Pages
               PROVE  t.page[q].refcnt = refs2[q] + Base(t, home, hole, q)
    BY DEF Referenced
  <2>1. s.page[q].refcnt = refs[q] + Base(s, home, hole, q)
    BY DEF Maps, Referenced
  <2>2. Mapped(t, home, hole, q) <=> Mapped(s, home, hole, q)
    BY <1>1 DEF Mapped
  <2>3. CASE q # p
    BY <1>3, <1>6, <2>1, <2>2, <2>3 DEF Base, Adjusted, SameRec
  <2>4. CASE q = p
    <3>1. /\ t.page[p].refcnt = s.page[p].refcnt + r
          /\ t.page[p].nonswap = s.page[p].nonswap + m
      BY DEF Adjusted
    <3>2. Base(s, home, hole, p) \in Int /\ Base(t, home, hole, p) = Base(s, home, hole, p) + m
      BY <1>3, <1>5, <2>2, <2>4, <3>1, PagePart DEF Base
    <3> QED
      BY <1>6, <2>1, <2>4, <3>1, <3>2
  <2> QED
    BY <2>3, <2>4
<1> QED
  BY <1>4, <1>7, <1>8 DEF Maps, pins2, uses2, refs2

-----------------------------------------------------------------------------
(* What a PTE adds to the counts of its table.                             *)
InBit(x)  == IF x.kind \in {"Valid", "Trans", "Busy"} THEN 1 ELSE 0
UseBit(x) == IF x.kind # "Zero" THEN 1 ELSE 0

(* A set of indexes in which one index may change sides.                   *)
LEMMA OneIndex ==
  ASSUME NEW A, IsFiniteSet(A), NEW B, NEW i, \A j : j # i => (j \in B <=> j \in A)
  PROVE  Cardinality(B) = Cardinality(A) + (IF i \in B THEN 1 ELSE 0) - (IF i \in A THEN 1 ELSE 0)
<1>1. Cardinality(A) \in Nat
  BY FS_CardinalityType
<1>2. CASE i \in A /\ i \in B
  BY <1>1, <1>2, A = B
<1>3. CASE i \notin A /\ i \notin B
  BY <1>1, <1>3, A = B
<1>4. CASE i \in B /\ i \notin A
  <2>1. B = A \cup {i}
    BY <1>4
  <2> QED
    BY <1>1, <1>4, <2>1, FS_AddElement
<1>5. CASE i \in A /\ i \notin B
  <2>1. B = A \ {i}
    BY <1>5
  <2> QED
    BY <1>1, <1>5, <2>1, FS_RemoveElement
<1> QED
  BY <1>2, <1>3, <1>4, <1>5

(* A PTE becomes another: the PTEs of its table that are in core or in use.*)
LEMMA CountEntry ==
  ASSUME NEW s \in VmStates, NEW t \in VmStates, NEW a \in PteAddr, NEW x, Entered(s, t, a, x)
  PROVE  /\ \A q \in Pages \ {a[1]} : NumIn(t, q) = NumIn(s, q) /\ NumUse(t, q) = NumUse(s, q)
         /\ NumIn(t, a[1]) = NumIn(s, a[1]) + InBit(x) - InBit(Entry(s, a))
         /\ NumUse(t, a[1]) = NumUse(s, a[1]) + UseBit(x) - UseBit(Entry(s, a))
<1> DEFINE d == a[1]
           i == a[2]
<1>1. d \in Pages /\ i \in Idx /\ a = << d, i >>
  BY AddrParts
<1> HIDE DEF d, i
<1>2. \A e \in Pages, j \in Idx :
        t.table[e][j] = IF e = d /\ j = i THEN x ELSE s.table[e][j]
  <2> TAKE e \in Pages, j \in Idx
  <2>1. << e, j >> \in PteAddr /\ (<< e, j >> = a <=> (e = d /\ j = i))
    BY <1>1 DEF PteAddr
  <2>2. Entry(t, << e, j >>) = IF << e, j >> = a THEN x ELSE Entry(s, << e, j >>)
    BY <2>1 DEF Entered
  <2> QED
    BY <2>1, <2>2 DEF Entry
<1>3. Entry(s, a) = s.table[d][i]
  BY DEF Entry, d, i
<1>4. ASSUME NEW q \in Pages \ {d}
      PROVE  NumIn(t, q) = NumIn(s, q) /\ NumUse(t, q) = NumUse(s, q)
  <2>1. \A j \in Idx : t.table[q][j] = s.table[q][j]
    BY <1>2
  <2>2. InCoreSet(t.table[q]) = InCoreSet(s.table[q]) /\ InUseSet(t.table[q]) = InUseSet(s.table[q])
    BY <2>1 DEF InCoreSet, InUseSet
  <2> QED
    BY <2>2 DEF NumIn, NumUse
<1>5. NumIn(t, d) = NumIn(s, d) + InBit(x) - InBit(s.table[d][i])
  <2> DEFINE A == InCoreSet(s.table[d])
             B == InCoreSet(t.table[d])
  <2>1. \A j : j # i => (j \in B <=> j \in A)
    BY <1>1, <1>2 DEF InCoreSet
  <2>2. /\ InBit(x) = IF i \in B THEN 1 ELSE 0
        /\ InBit(s.table[d][i]) = IF i \in A THEN 1 ELSE 0
    BY <1>1, <1>2 DEF InCoreSet, InBit
  <2>3. IsFiniteSet(A)
    BY CountsType
  <2> HIDE DEF A, B
  <2>4. Cardinality(B) = Cardinality(A) + (IF i \in B THEN 1 ELSE 0) - (IF i \in A THEN 1 ELSE 0)
    BY <2>1, <2>3, OneIndex
  <2> QED
    BY <2>2, <2>4 DEF NumIn, A, B
<1>6. NumUse(t, d) = NumUse(s, d) + UseBit(x) - UseBit(s.table[d][i])
  <2> DEFINE A == InUseSet(s.table[d])
             B == InUseSet(t.table[d])
  <2>1. \A j : j # i => (j \in B <=> j \in A)
    BY <1>1, <1>2 DEF InUseSet
  <2>2. /\ UseBit(x) = IF i \in B THEN 1 ELSE 0
        /\ UseBit(s.table[d][i]) = IF i \in A THEN 1 ELSE 0
    BY <1>1, <1>2 DEF InUseSet, UseBit
  <2>3. IsFiniteSet(A)
    BY CountsType
  <2> HIDE DEF A, B
  <2>4. Cardinality(B) = Cardinality(A) + (IF i \in B THEN 1 ELSE 0) - (IF i \in A THEN 1 ELSE 0)
    BY <2>1, <2>3, OneIndex
  <2> QED
    BY <2>2, <2>4 DEF NumUse, A, B
<1> QED
  BY <1>3, <1>4, <1>5, <1>6 DEF d

(* What is owed to a table when one of its PTEs becomes another: n more    *)
(* pins and m more uses, with m no larger than the uses that are gone.     *)
LEMMA EnteredCounted ==
  ASSUME NEW s \in VmStates, NEW t \in VmStates, NEW a \in PteAddr, NEW x, Entered(s, t, a, x),
         IsTable(s, a[1]), NEW pins \in Ledger, NEW uses \in Ledger, Counted(s, pins, uses),
         NEW n \in Int, n = InBit(Entry(s, a)) - InBit(x),
         NEW m \in Int, m <= UseBit(Entry(s, a)) - UseBit(x)
  PROVE  Counted(t, Plus(pins, a[1], n), Plus(uses, a[1], m))
<1> DEFINE d == a[1]
           pins2 == Plus(pins, d, n)
           uses2 == Plus(uses, d, m)
           y == Entry(s, a)
<1>1. d \in Pages
  BY AddrParts
<1>2. /\ \A q \in Pages \ {d} : NumIn(t, q) = NumIn(s, q) /\ NumUse(t, q) = NumUse(s, q)
      /\ NumIn(t, d) = NumIn(s, d) + InBit(x) - InBit(y)
      /\ NumUse(t, d) = NumUse(s, d) + UseBit(x) - UseBit(y)
  BY CountEntry
<1>3. \A q \in Pages : SameRec(s, t, q)
  BY DEF Entered
<1>4. \A q \in Pages : IsTable(t, q) <=> IsTable(s, q)
  BY <1>3 DEF SameRec, IsTable
<1>5. /\ \A q \in Pages : pins[q] \in Int
      /\ pins2[d] = pins[d] + n /\ \A q \in Pages \ {d} : pins2[q] = pins[q]
  BY <1>1, PlusAt, ZenonT(60)
<1>6. /\ \A q \in Pages : uses[q] \in Int
      /\ uses2[d] = uses[d] + m /\ \A q \in Pages \ {d} : uses2[q] = uses[q]
  BY <1>1, PlusAt, ZenonT(60)
<1>7. /\ s.page[d].nonswap = pins[d] + NumIn(s, d)
      /\ s.page[d].nonzero >= uses[d] + NumUse(s, d)
      /\ s.page[d].nonswap \in Int /\ s.page[d].nonzero \in Int
  BY <1>1, PagePart DEF Counted
<1>8. NumIn(s, d) \in Int /\ NumUse(s, d) \in Int
  BY CountsType
<1>9. InBit(x) \in Int /\ InBit(y) \in Int /\ UseBit(x) \in Int /\ UseBit(y) \in Int
  BY DEF InBit, UseBit
<1>10. n = InBit(y) - InBit(x) /\ m <= UseBit(y) - UseBit(x)
  OBVIOUS
<1> HIDE DEF pins2, uses2, y
<1>11. /\ t.page[d].nonswap = pins2[d] + NumIn(t, d)
       /\ t.page[d].nonzero >= uses2[d] + NumUse(t, d)
  <2>1. t.page[d].nonswap = s.page[d].nonswap /\ t.page[d].nonzero = s.page[d].nonzero
    BY <1>1, <1>3 DEF SameRec
  <2>2. pins[d] \in Int /\ uses[d] \in Int
    BY <1>1, <1>5, <1>6
  <2> HIDE DEF d
  <2>3. t.page[d].nonswap = pins2[d] + NumIn(t, d)
    BY <1>2, <1>5, <1>7, <1>8, <1>9, <1>10, <2>1, <2>2
  <2>4. t.page[d].nonzero >= uses2[d] + NumUse(t, d)
    BY <1>2, <1>6, <1>7, <1>8, <1>9, <1>10, <2>1, <2>2
  <2> QED
    BY <2>3, <2>4
<1> HIDE DEF d
<1>12. ASSUME NEW q \in Pages
       PROVE  IF IsTable(t, q)
              THEN /\ t.page[q].nonswap = pins2[q] + NumIn(t, q)
                   /\ t.page[q].nonzero >= uses2[q] + NumUse(t, q)
              ELSE /\ pins2[q] = 0 /\ uses2[q] = 0
                   /\ t.page[q].use # "Deleted" => t.page[q].nonswap = 0
  <2>1. CASE q = d
    BY <1>4, <1>11, <2>1 DEF d
  <2>2. CASE q # d
    BY <1>2, <1>3, <1>4, <1>5, <1>6, <2>2 DEF Counted, SameRec
  <2> QED
    BY <2>1, <2>2
<1> QED
  BY <1>12 DEF Counted, d, pins2, uses2

-----------------------------------------------------------------------------
(* The PTE at a names page p: a new PTE of a page that has none yet, the   *)
(* PTE of p in another form, or the busy PTE of a page that has been read  *)
(* in.                                                                     *)
MayName(s, hole, busy, a, p) ==
  \/ hole = p /\ Entry(s, a).kind \in {"Zero", "Swap"}
  \/ Entry(s, a).kind \in {"Valid", "Trans"} /\ Entry(s, a).page = p
  \/ << a, p >> \in busy

(* The PTE at a becomes x, which names page p of the use that it should.   *)
Named(s, t, a, x, p) ==
  /\ Entered(s, t, a, x)
  /\ x.kind \in {"Valid", "Trans"} /\ x.page = p
  /\ IsTable(s, a[1]) /\ s.page[p].use = Below(s.page[a[1]].use)
  /\ x.kind = "Trans" => s.page[a[1]].use = "PML1"

Moved(home, home2, p, a) == home2[p] = a /\ \A q \in Pages \ {p} : home2[q] = home[q]

Filled(hole, p) == IF hole = p THEN NoPage ELSE hole

(* The links when the PTE at a is set to name page p.                      *)
LEMMA NamedLinked ==
  ASSUME NEW s \in VmStates, NEW t \in VmStates, NEW a \in PteAddr, NEW p \in Pages, NEW x,
         Named(s, t, a, x, p), NEW home \in [Pages -> PteAddr], NEW hole, NEW busy,
         Linked(s, home, hole, busy), MayName(s, hole, busy, a, p),
         NEW home2, Moved(home, home2, p, a)
  PROVE  Linked(t, home2, Filled(hole, p), busy \ {<< a, p >>})
<1> DEFINE hole2 == Filled(hole, p)
<1>1. /\ Entered(s, t, a, x) /\ x.kind \in {"Valid", "Trans"} /\ x.page = p
      /\ IsTable(s, a[1]) /\ s.page[p].use = Below(s.page[a[1]].use)
      /\ x.kind = "Trans" => s.page[a[1]].use = "PML1"
      /\ home2[p] = a /\ \A q \in Pages \ {p} : home2[q] = home[q]
      /\ hole2 = IF hole = p THEN NoPage ELSE hole
  BY DEF Named, Moved, Filled
<1> USE <1>1
<1> HIDE DEF hole2
<1> DEFINE busy2 == busy \ {<< a, p >>}
<1>2. \A q \in Pages : t.page[q].use = s.page[q].use
  BY DEF Entered, SameRec
<1>3. \A q \in Pages : (IsAnon(t, q) <=> IsAnon(s, q)) /\ (IsTable(t, q) <=> IsTable(s, q))
  BY <1>2 DEF IsAnon, IsTable
<1>4. \A b \in PteAddr : Entry(t, b) = IF b = a THEN x ELSE Entry(s, b)
  BY DEF Entered
<1>5. a[1] \in Pages /\ NoPage \notin Pages
  BY AddrParts, ConstantTypes DEF NoPage
<1>6. /\ PtesLinked(s, home, hole) /\ PagesLinked(s, home, hole, busy)
      /\ BusyLinked(s, home, hole, busy)
  BY DEF Linked
<1>7. Entry(s, a).kind = "Busy" <=> << a, p >> \in busy
  <2>1. << a, p >> \in busy => Entry(s, a).kind = "Busy"
    BY <1>6 DEF BusyLinked
  <2> QED
    BY <2>1 DEF MayName
<1>8. ASSUME NEW b \in PteAddr, b # a, Entry(s, b).kind \in {"Valid", "Trans"}
      PROVE  Entry(s, b).page # p
  <2>1. Entry(s, b).page # hole /\ home[Entry(s, b).page] = b
    BY <1>6, <1>8 DEF PtesLinked
  <2>2. hole # p => home[p] = a
    BY <1>6 DEF MayName, PtesLinked, BusyLinked
  <2> QED
    BY <1>8, <2>1, <2>2
<1>9. PtesLinked(t, home2, hole2)
  <2> SUFFICES ASSUME NEW b \in PteAddr, Entry(t, b).kind \in {"Valid", "Trans"}
               PROVE  /\ IsTable(t, b[1])
                      /\ Entry(t, b).page # hole2 /\ home2[Entry(t, b).page] = b
                      /\ t.page[Entry(t, b).page].use = Below(t.page[b[1]].use)
                      /\ Entry(t, b).kind = "Trans" => t.page[b[1]].use = "PML1"
    BY DEF PtesLinked
  <2>1. CASE b = a
    <3>1. p # hole2
      BY <1>5
    <3> QED
      BY <1>2, <1>3, <1>4, <1>5, <2>1, <3>1
  <2>2. CASE b # a
    <3> DEFINE e == Entry(s, b)
    <3>1. Entry(t, b) = e /\ e.page \in Pages /\ b[1] \in Pages
      BY <1>4, <2>2, EntryPart
    <3>2. e.page # p /\ home2[e.page] = home[e.page]
      BY <1>8, <2>2, <3>1
    <3>3. /\ IsTable(s, b[1]) /\ e.page # hole /\ home[e.page] = b
          /\ s.page[e.page].use = Below(s.page[b[1]].use)
          /\ e.kind = "Trans" => s.page[b[1]].use = "PML1"
      BY <1>6, <3>1 DEF PtesLinked
    <3> HIDE DEF e
    <3>4. e.page # hole2
      BY <1>5, <3>1, <3>3
    <3> QED
      BY <1>2, <1>3, <3>1, <3>2, <3>3, <3>4
  <2> QED
    BY <2>1, <2>2
<1>10. PagesLinked(t, home2, hole2, busy2)
  <2> SUFFICES ASSUME NEW q \in Pages \ {Root, hole2}, IsAnon(t, q) \/ IsTable(t, q)
               PROVE  \/ Entry(t, home2[q]).kind \in {"Valid", "Trans"}
                         /\ Entry(t, home2[q]).page = q
                      \/ << home2[q], q >> \in busy2
    BY DEF PagesLinked
  <2>1. CASE q = p
    BY <1>4, <2>1
  <2>2. CASE q # p
    <3>1. /\ home2[q] = home[q] /\ q # hole
          /\ \/ Entry(s, home[q]).kind \in {"Valid", "Trans"} /\ Entry(s, home[q]).page = q
             \/ << home[q], q >> \in busy
      <4>1. q # hole
        BY <2>2
      <4> QED
        BY <1>3, <1>6, <2>2, <4>1 DEF PagesLinked
    <3>2. CASE << home[q], q >> \in busy
      BY <2>2, <3>1, <3>2
    <3>3. CASE Entry(s, home[q]).kind \in {"Valid", "Trans"} /\ Entry(s, home[q]).page = q
      <4>1. home[q] # a
        BY <1>7, <2>2, <3>1, <3>3 DEF MayName
      <4>2. home[q] \in PteAddr
        OBVIOUS
      <4> QED
        BY <1>4, <3>1, <3>3, <4>1, <4>2
    <3> QED
      BY <3>1, <3>2, <3>3
  <2> QED
    BY <2>1, <2>2
<1>11. BusyLinked(t, home2, hole2, busy2)
  <2>1. ASSUME NEW b \in PteAddr, Entry(t, b).kind = "Busy"
        PROVE  \E q \in Pages : << b, q >> \in busy2
    <3>1. b # a /\ Entry(s, b).kind = "Busy"
      BY <1>4, <2>1
    <3> QED
      BY <1>6, <3>1 DEF BusyLinked
  <2>2. ASSUME NEW b \in PteAddr, NEW q \in Pages, << b, q >> \in busy2
        PROVE  /\ Entry(t, b).kind = "Busy" /\ t.page[b[1]].use = "PML1"
               /\ home2[q] = b /\ IsAnon(t, q) /\ q # hole2
               /\ \A r \in Pages : << b, r >> \in busy2 => r = q
    <3>1. /\ Entry(s, b).kind = "Busy" /\ s.page[b[1]].use = "PML1"
          /\ home[q] = b /\ IsAnon(s, q) /\ q # hole
          /\ \A r \in Pages : << b, r >> \in busy => r = q
      BY <1>6, <2>2 DEF BusyLinked
    <3>2. b # a
      BY <1>7, <2>2, <3>1
    <3>3. q # p
      BY <1>6, <2>2, <3>1, <3>2 DEF MayName, PtesLinked, BusyLinked
    <3>4. q # hole2 /\ b[1] \in Pages
      BY <1>5, <3>1, AddrParts
    <3> QED
      BY <1>2, <1>3, <1>4, <3>1, <3>2, <3>3, <3>4
  <2> QED
    BY <2>1, <2>2 DEF BusyLinked
<1>12. t.page[Root].use = TableUse[Levels]
  BY <1>2, ConstantTypes DEF Linked
<1> QED
  BY <1>9, <1>10, <1>11, <1>12 DEF Linked, hole2

(* The references to p that are owed once x is its PTE: that of a valid    *)
(* PTE is the PTE's own.                                                   *)
Returned(s, hole, a, x, p) ==
  IF IsAnon(s, p)
  THEN (IF hole # p /\ Entry(s, a).kind # "Trans" THEN 1 ELSE 0)
         - (IF x.kind = "Valid" THEN 1 ELSE 0)
  ELSE 0

(* What is owed when the PTE at a is set to name page p.                   *)
LEMMA NamedMaps ==
  ASSUME NEW s \in VmStates, NEW t \in VmStates, NEW a \in PteAddr, NEW p \in Pages, NEW x,
         Named(s, t, a, x, p), NEW home \in [Pages -> PteAddr], NEW hole, NEW busy,
         MayName(s, hole, busy, a, p), NEW home2, Moved(home, home2, p, a),
         NEW pins \in Ledger, NEW uses \in Ledger, NEW refs \in Ledger,
         Maps(s, home, hole, busy, pins, uses, refs),
         NEW n \in Int, n = InBit(Entry(s, a)) - 1,
         NEW m \in Int, m <= UseBit(Entry(s, a)) - 1,
         NEW k \in Int, k = Returned(s, hole, a, x, p)
  PROVE  Maps(t, home2, Filled(hole, p), busy \ {<< a, p >>},
              Plus(pins, a[1], n), Plus(uses, a[1], m), Plus(refs, p, k))
<1> DEFINE hole2 == Filled(hole, p)
<1>1. Linked(t, home2, hole2, busy \ {<< a, p >>})
  BY NamedLinked DEF Maps
<1>2. /\ Entered(s, t, a, x) /\ x.kind \in {"Valid", "Trans"} /\ x.page = p
      /\ IsTable(s, a[1])
      /\ home2[p] = a /\ \A q \in Pages \ {p} : home2[q] = home[q]
      /\ hole2 = IF hole = p THEN NoPage ELSE hole
  BY DEF Named, Moved, Filled
<1> USE <1>2
<1> HIDE DEF hole2
<1>3. InBit(x) = 1 /\ UseBit(x) = 1
  BY DEF InBit, UseBit
<1>4. Counted(t, Plus(pins, a[1], n), Plus(uses, a[1], m))
  BY <1>3, EnteredCounted DEF Maps
<1>5. \A q \in Pages : SameRec(s, t, q)
  BY DEF Entered
<1>6. \A q \in Pages : (IsAnon(t, q) <=> IsAnon(s, q)) /\ (IsTable(t, q) <=> IsTable(s, q))
  BY <1>5 DEF IsAnon, IsTable, SameRec
<1>7. \A b \in PteAddr : Entry(t, b) = IF b = a THEN x ELSE Entry(s, b)
  BY DEF Entered
<1>8. /\ PagesLinked(s, home, hole, busy) /\ BusyLinked(s, home, hole, busy)
      /\ PtesLinked(s, home, hole) /\ s.page[Root].use = TableUse[Levels]
  BY DEF Maps, Linked
<1>9. NoPage \notin Pages /\ \A q \in Pages : ~(IsAnon(s, q) /\ IsTable(s, q))
  BY ConstantTypes DEF NoPage, IsAnon, IsTable, TableUses
<1>10. ~IsAnon(s, Root)
  <2>1. TableUse[Levels] # "AnonPrivate"
    <3>1. Levels \in {2, 3, 4}
      BY VmAssumption
    <3> QED
      BY <3>1 DEF TableUse
  <2> QED
    BY <1>8, <2>1 DEF IsAnon
<1>11. ASSUME NEW q \in Pages \ {p}
       PROVE  Base(t, home2, hole2, q) = Base(s, home, hole, q)
  <2>1. CASE ~IsAnon(s, q)
    BY <1>5, <1>6, <2>1 DEF Base, SameRec
  <2>2. CASE IsAnon(s, q)
    <3>1. q # hole2 <=> q # hole
      BY <1>9
    <3>2. q # hole => home[q] # a
      <4>1. SUFFICES ASSUME q # hole, home[q] = a PROVE FALSE
        OBVIOUS
      <4>2. q # Root
        BY <1>10, <2>2
      <4>3. (Entry(s, a).kind \in {"Valid", "Trans"} /\ Entry(s, a).page = q) \/ << a, q >> \in busy
        BY <1>8, <2>2, <4>1, <4>2 DEF PagesLinked
      <4>4. \A r \in Pages : << a, r >> \in busy => Entry(s, a).kind = "Busy"
        BY <1>8 DEF BusyLinked
      <4>5. << a, p >> \in busy /\ << a, q >> \in busy => p = q
        BY <1>8 DEF BusyLinked
      <4> QED
        BY <4>3, <4>4, <4>5 DEF MayName
    <3>3. home[q] \in PteAddr /\ home2[q] = home[q]
      OBVIOUS
    <3>4. Mapped(t, home2, hole2, q) <=> Mapped(s, home, hole, q)
      BY <1>7, <3>1, <3>2, <3>3 DEF Mapped
    <3> QED
      BY <1>6, <2>2, <3>4 DEF Base
  <2> QED
    BY <2>1, <2>2
<1>12. Base(t, home2, hole2, p) + k = Base(s, home, hole, p) /\ Base(s, home, hole, p) \in Int
       /\ Base(t, home2, hole2, p) \in Int
  <2>1. CASE ~IsAnon(s, p)
    <3>1. Base(t, home2, hole2, p) = Base(s, home, hole, p) /\ k = 0
      BY <1>5, <1>6, <2>1 DEF Base, SameRec, Returned
    <3>2. Base(s, home, hole, p) \in Int
      BY <2>1, PagePart DEF Base
    <3> QED
      BY <3>1, <3>2
  <2>2. CASE IsAnon(s, p)
    <3>1. Mapped(t, home2, hole2, p) <=> x.kind = "Valid"
      BY <1>7, <1>9 DEF Mapped
    <3>2. Mapped(s, home, hole, p) <=> (hole # p /\ Entry(s, a).kind # "Trans")
      <4>1. hole # p => home[p] = a
        BY <1>8 DEF MayName, PtesLinked, BusyLinked
      <4>2. << a, p >> \in busy => Entry(s, a).kind = "Busy"
        BY <1>8 DEF BusyLinked
      <4> QED
        BY <4>1, <4>2 DEF Mapped, MayName
    <3>3. /\ Base(t, home2, hole2, p) = IF x.kind = "Valid" THEN 1 ELSE 0
          /\ Base(s, home, hole, p) = IF hole # p /\ Entry(s, a).kind # "Trans" THEN 1 ELSE 0
      BY <1>6, <2>2, <3>1, <3>2 DEF Base
    <3> QED
      BY <2>2, <3>3 DEF Returned
  <2> QED
    BY <2>1, <2>2
<1>13. Referenced(t, home2, hole2, Plus(refs, p, k))
  <2> SUFFICES ASSUME NEW q \in Pages
               PROVE  t.page[q].refcnt = Plus(refs, p, k)[q] + Base(t, home2, hole2, q)
    BY DEF Referenced
  <2>1. t.page[q].refcnt = refs[q] + Base(s, home, hole, q)
    BY <1>5 DEF Maps, Referenced, SameRec
  <2>2. /\ Plus(refs, p, k)[p] = refs[p] + k /\ refs[p] \in Int
        /\ q # p => Plus(refs, p, k)[q] = refs[q]
    BY ONLY refs \in Ledger, p \in Pages, q \in Pages, k \in Int, PlusAt
  <2>3. CASE q = p
    BY <1>12, <2>1, <2>2, <2>3
  <2>4. CASE q # p
    BY <1>11, <2>1, <2>2, <2>4
  <2> QED
    BY <2>3, <2>4
<1> QED
  BY <1>1, <1>4, <1>13 DEF Maps, hole2

(* What is owed when a zero PTE becomes the PTE of a page that has none.   *)
LEMMA FillMaps ==
  ASSUME NEW s \in VmStates, NEW t \in VmStates, NEW a \in PteAddr, NEW p \in Pages, NEW x,
         Named(s, t, a, x, p), x.kind = "Valid", Entry(s, a).kind = "Zero",
         NEW home \in [Pages -> PteAddr], NEW busy, NEW home2, Moved(home, home2, p, a),
         NEW pins \in Ledger, NEW uses \in Ledger, NEW refs \in Ledger,
         Maps(s, home, p, busy, pins, uses, refs)
  PROVE  Maps(t, home2, NoPage, busy, Plus(pins, a[1], -1), Plus(uses, a[1], -1),
              Plus(refs, p, IF IsAnon(s, p) THEN -1 ELSE 0))
<1> DEFINE hole == p
           n == -1
           m == -1
           k == IF IsAnon(s, p) THEN -1 ELSE 0
<1>1. MayName(s, hole, busy, a, p) /\ Filled(hole, p) = NoPage
  BY DEF MayName, Filled
<1>2. /\ n \in Int /\ n = InBit(Entry(s, a)) - 1
      /\ m \in Int /\ m <= UseBit(Entry(s, a)) - 1
  BY DEF InBit, UseBit
<1>3. k \in Int /\ k = Returned(s, hole, a, x, p)
  BY DEF Returned
<1>4. << a, p >> \notin busy /\ Maps(s, home, hole, busy, pins, uses, refs)
  BY DEF Maps, Linked, BusyLinked
<1> HIDE DEF hole, n, m, k
<1>5. Maps(t, home2, Filled(hole, p), busy \ {<< a, p >>},
           Plus(pins, a[1], n), Plus(uses, a[1], m), Plus(refs, p, k))
  BY <1>1, <1>2, <1>3, <1>4, NamedMaps
<1>6. busy \ {<< a, p >>} = busy
  BY <1>4
<1> QED
  BY <1>1, <1>5, <1>6 DEF n, m, k

(* The root is not an anonymous page, and no page is two things.           *)
LEMMA UseFacts ==
  ASSUME NEW s \in VmStates, s.page[Root].use = TableUse[Levels]
  PROVE  /\ ~IsAnon(s, Root) /\ IsTable(s, Root) /\ NoPage \notin Pages
         /\ \A q \in Pages : ~(IsAnon(s, q) /\ IsTable(s, q))
<1>1. Levels \in {2, 3, 4}
  BY VmAssumption
<1>2. TableUse[Levels] \in TableUses /\ TableUse[Levels] # "AnonPrivate"
  BY <1>1 DEF TableUse, TableUses
<1> QED
  BY <1>2, ConstantTypes DEF IsAnon, IsTable, TableUses, NoPage

(* What is owed when a swap PTE at a becomes the busy PTE of page p.       *)
LEMMA BusyMaps ==
  ASSUME NEW s \in VmStates, NEW t \in VmStates, NEW a \in PteAddr, NEW p \in Pages,
         Entered(s, t, a, BusyPte), Entry(s, a).kind = "Swap", s.page[a[1]].use = "PML1",
         IsAnon(s, p), NEW home \in [Pages -> PteAddr], NEW busy,
         NEW home2, Moved(home, home2, p, a),
         NEW pins \in Ledger, NEW uses \in Ledger, NEW refs \in Ledger,
         Maps(s, home, p, busy, pins, uses, refs)
  PROVE  Maps(t, home2, NoPage, busy \cup {<< a, p >>},
              Plus(pins, a[1], -1), uses, Plus(refs, p, -1))
<1> DEFINE busy2 == busy \cup {<< a, p >>}
           x == BusyPte
<1>1. x.kind = "Busy" /\ Entered(s, t, a, x) /\ IsTable(s, a[1])
  BY DEF BusyPte, ZeroPte, IsTable, TableUses
<1> HIDE DEF x
<1>2. Counted(t, Plus(pins, a[1], -1), uses)
  <2>1. InBit(x) = 1 /\ UseBit(x) = 1 /\ InBit(Entry(s, a)) = 0 /\ UseBit(Entry(s, a)) = 1
    BY <1>1 DEF InBit, UseBit
  <2>2. -1 \in Int /\ 0 \in Int /\ -1 = 0 - 1 /\ 0 <= 1 - 1
    OBVIOUS
  <2>3. Counted(t, Plus(pins, a[1], -1), Plus(uses, a[1], 0))
    BY <1>1, <2>1, <2>2, EnteredCounted DEF Maps
  <2> QED
    BY <2>3, PlusBack, AddrParts
<1>3. \A q \in Pages : SameRec(s, t, q)
  BY DEF Entered
<1>4. \A q \in Pages : (IsAnon(t, q) <=> IsAnon(s, q)) /\ (IsTable(t, q) <=> IsTable(s, q))
  BY <1>3 DEF IsAnon, IsTable, SameRec
<1>5. \A b \in PteAddr : Entry(t, b) = IF b = a THEN x ELSE Entry(s, b)
  BY <1>1 DEF Entered
<1>6. /\ PagesLinked(s, home, p, busy) /\ BusyLinked(s, home, p, busy)
      /\ PtesLinked(s, home, p) /\ s.page[Root].use = TableUse[Levels]
  BY DEF Maps, Linked
<1>7. /\ NoPage \notin Pages /\ ~IsAnon(s, Root)
      /\ \A q \in Pages : ~(IsAnon(s, q) /\ IsTable(s, q))
  BY <1>6, UseFacts
<1>8. home2[p] = a /\ \A q \in Pages \ {p} : home2[q] = home[q] /\ home[q] \in PteAddr
  BY DEF Moved
<1>9. \A q \in Pages \ {p} : IsAnon(s, q) \/ (IsTable(s, q) /\ q # Root) => home[q] # a
  <2> SUFFICES ASSUME NEW q \in Pages \ {p}, IsAnon(s, q) \/ (IsTable(s, q) /\ q # Root)
               PROVE  home[q] # a
    OBVIOUS
  <2>1. \/ Entry(s, home[q]).kind \in {"Valid", "Trans"}
        \/ << home[q], q >> \in busy
    BY <1>6, <1>7 DEF PagesLinked
  <2>2. << home[q], q >> \in busy => Entry(s, home[q]).kind = "Busy"
    BY <1>6, <1>8 DEF BusyLinked
  <2> QED
    BY <2>1, <2>2
<1>10. PtesLinked(t, home2, NoPage)
  <2> SUFFICES ASSUME NEW b \in PteAddr, Entry(t, b).kind \in {"Valid", "Trans"}
               PROVE  /\ IsTable(t, b[1])
                      /\ Entry(t, b).page # NoPage /\ home2[Entry(t, b).page] = b
                      /\ t.page[Entry(t, b).page].use = Below(t.page[b[1]].use)
                      /\ Entry(t, b).kind = "Trans" => t.page[b[1]].use = "PML1"
    BY DEF PtesLinked
  <2> DEFINE e == Entry(s, b)
  <2>1. b # a /\ Entry(t, b) = e /\ e.page \in Pages /\ b[1] \in Pages
    BY <1>1, <1>5, EntryPart
  <2>2. /\ IsTable(s, b[1]) /\ e.page # p /\ home[e.page] = b
        /\ s.page[e.page].use = Below(s.page[b[1]].use)
        /\ e.kind = "Trans" => s.page[b[1]].use = "PML1"
    BY <1>6, <2>1 DEF PtesLinked
  <2> HIDE DEF e
  <2> QED
    BY <1>3, <1>4, <1>7, <1>8, <2>1, <2>2 DEF SameRec
<1>11. PagesLinked(t, home2, NoPage, busy2)
  <2> SUFFICES ASSUME NEW q \in Pages \ {Root, NoPage}, IsAnon(t, q) \/ IsTable(t, q)
               PROVE  \/ Entry(t, home2[q]).kind \in {"Valid", "Trans"}
                         /\ Entry(t, home2[q]).page = q
                      \/ << home2[q], q >> \in busy2
    BY DEF PagesLinked
  <2>1. CASE q = p
    BY <1>8, <2>1
  <2>2. CASE q # p
    <3>1. home[q] # a /\ home2[q] = home[q] /\ home[q] \in PteAddr
      BY <1>4, <1>8, <1>9, <2>2
    <3>2. \/ Entry(s, home[q]).kind \in {"Valid", "Trans"} /\ Entry(s, home[q]).page = q
          \/ << home[q], q >> \in busy
      BY <1>4, <1>6, <2>2 DEF PagesLinked
    <3> QED
      BY <1>5, <3>1, <3>2
  <2> QED
    BY <2>1, <2>2
<1>12. BusyLinked(t, home2, NoPage, busy2)
  <2>1. ASSUME NEW b \in PteAddr, Entry(t, b).kind = "Busy"
        PROVE  \E q \in Pages : << b, q >> \in busy2
    <3>1. CASE b = a
      BY <3>1
    <3>2. CASE b # a
      BY <1>5, <1>6, <2>1, <3>2 DEF BusyLinked
    <3> QED
      BY <3>1, <3>2
  <2>2. \A r \in Pages : << a, r >> \notin busy
    BY <1>6 DEF BusyLinked
  <2>3. ASSUME NEW b \in PteAddr, NEW q \in Pages, << b, q >> \in busy2
        PROVE  /\ Entry(t, b).kind = "Busy" /\ t.page[b[1]].use = "PML1"
               /\ home2[q] = b /\ IsAnon(t, q) /\ q # NoPage
               /\ \A r \in Pages : << b, r >> \in busy2 => r = q
    <3>1. CASE b = a
      <4>1. q = p
        BY <2>2, <2>3, <3>1
      <4>2. a[1] \in Pages
        BY AddrParts
      <4>3. \A r \in Pages : << b, r >> \in busy2 => r = q
        BY <2>2, <3>1, <4>1
      <4> QED
        BY <1>1, <1>3, <1>4, <1>5, <1>7, <1>8, <3>1, <4>1, <4>2, <4>3 DEF SameRec
    <3>2. CASE b # a
      <4>1. << b, q >> \in busy
        BY <2>3, <3>2
      <4>2. /\ Entry(s, b).kind = "Busy" /\ s.page[b[1]].use = "PML1"
            /\ home[q] = b /\ IsAnon(s, q) /\ q # p
            /\ \A r \in Pages : << b, r >> \in busy => r = q
        BY <1>6, <4>1 DEF BusyLinked
      <4>3. b[1] \in Pages
        BY AddrParts
      <4>4. \A r \in Pages : << b, r >> \in busy2 => r = q
        BY <3>2, <4>2
      <4> QED
        BY <1>3, <1>4, <1>5, <1>7, <1>8, <3>2, <4>2, <4>3, <4>4 DEF SameRec
    <3> QED
      BY <3>1, <3>2
  <2> QED
    BY <2>1, <2>3 DEF BusyLinked
<1>13. Linked(t, home2, NoPage, busy2)
  BY <1>3, <1>6, <1>10, <1>11, <1>12, ConstantTypes DEF Linked, SameRec
<1>14. Referenced(t, home2, NoPage, Plus(refs, p, -1))
  <2> SUFFICES ASSUME NEW q \in Pages
               PROVE  t.page[q].refcnt = Plus(refs, p, -1)[q] + Base(t, home2, NoPage, q)
    BY DEF Referenced
  <2>1. t.page[q].refcnt = refs[q] + Base(s, home, p, q)
    BY <1>3 DEF Maps, Referenced, SameRec
  <2>2. /\ Plus(refs, p, -1)[p] = refs[p] + (-1) /\ refs[p] \in Int
        /\ q # p => Plus(refs, p, -1)[q] = refs[q]
    BY ONLY refs \in Ledger, p \in Pages, q \in Pages, -1 \in Int, PlusAt
  <2>3. CASE q = p
    <3>1. Base(s, home, p, p) = 0
      BY DEF Base, Mapped
    <3>2. Mapped(t, home2, NoPage, p)
      BY <1>1, <1>5, <1>7, <1>8 DEF Mapped
    <3>3. Base(t, home2, NoPage, p) = 1
      BY <1>4, <3>2 DEF Base
    <3> QED
      BY <2>1, <2>2, <2>3, <3>1, <3>3
  <2>4. CASE q # p
    <3>1. IsAnon(s, q) => (Mapped(t, home2, NoPage, q) <=> Mapped(s, home, p, q))
      BY <1>5, <1>7, <1>8, <1>9, <2>4 DEF Mapped
    <3>2. Base(t, home2, NoPage, q) = Base(s, home, p, q)
      BY <1>3, <1>4, <3>1 DEF Base, SameRec
    <3> QED
      BY <2>1, <2>2, <2>4, <3>2
  <2> QED
    BY <2>3, <2>4
<1> QED
  BY <1>2, <1>13, <1>14 DEF Maps

(* What is owed when the PTE at a no longer names its page p, which has no *)
(* PTE then: the PTE of a stolen page or of a page table that is freed.    *)
LEMMA LostMaps ==
  ASSUME NEW s \in VmStates, NEW t \in VmStates, NEW a \in PteAddr, NEW p \in Pages, NEW x,
         Entered(s, t, a, x), x.kind \in {"Zero", "Swap"},
         Entry(s, a).kind \in {"Valid", "Trans"}, Entry(s, a).page = p,
         IsAnon(s, p) => Entry(s, a).kind = "Trans",
         NEW home \in [Pages -> PteAddr], NEW busy,
         NEW pins \in Ledger, NEW uses \in Ledger, NEW refs \in Ledger,
         Maps(s, home, NoPage, busy, pins, uses, refs),
         NEW m \in Int, m <= 1 - UseBit(x)
  PROVE  Maps(t, home, p, busy, Plus(pins, a[1], 1), Plus(uses, a[1], m), refs)
<1>1. /\ PagesLinked(s, home, NoPage, busy) /\ BusyLinked(s, home, NoPage, busy)
      /\ PtesLinked(s, home, NoPage) /\ s.page[Root].use = TableUse[Levels]
  BY DEF Maps, Linked
<1>2. IsTable(s, a[1]) /\ home[p] = a
  BY <1>1 DEF PtesLinked
<1>3. Counted(t, Plus(pins, a[1], 1), Plus(uses, a[1], m))
  <2>1. InBit(x) = 0 /\ InBit(Entry(s, a)) = 1 /\ UseBit(Entry(s, a)) = 1
    BY DEF InBit, UseBit
  <2>2. 1 \in Int /\ 1 = 1 - 0
    OBVIOUS
  <2> QED
    BY <1>2, <2>1, <2>2, EnteredCounted DEF Maps
<1>4. \A q \in Pages : SameRec(s, t, q)
  BY DEF Entered
<1>5. \A q \in Pages : (IsAnon(t, q) <=> IsAnon(s, q)) /\ (IsTable(t, q) <=> IsTable(s, q))
  BY <1>4 DEF IsAnon, IsTable, SameRec
<1>6. \A b \in PteAddr : Entry(t, b) = IF b = a THEN x ELSE Entry(s, b)
  BY DEF Entered
<1>7. /\ NoPage \notin Pages /\ ~IsAnon(s, Root)
      /\ \A q \in Pages : ~(IsAnon(s, q) /\ IsTable(s, q))
  BY <1>1, UseFacts
<1>8. \A r \in Pages : << a, r >> \notin busy
  BY <1>1 DEF BusyLinked
<1>9. \A q \in Pages \ {p, Root} :
        IsAnon(s, q) \/ IsTable(s, q) =>
          /\ home[q] # a
          /\ \/ Entry(s, home[q]).kind \in {"Valid", "Trans"} /\ Entry(s, home[q]).page = q
             \/ << home[q], q >> \in busy
  BY <1>1, <1>7, <1>8 DEF PagesLinked
<1>10. PtesLinked(t, home, p)
  <2> SUFFICES ASSUME NEW b \in PteAddr, Entry(t, b).kind \in {"Valid", "Trans"}
               PROVE  /\ IsTable(t, b[1])
                      /\ Entry(t, b).page # p /\ home[Entry(t, b).page] = b
                      /\ t.page[Entry(t, b).page].use = Below(t.page[b[1]].use)
                      /\ Entry(t, b).kind = "Trans" => t.page[b[1]].use = "PML1"
    BY DEF PtesLinked
  <2> DEFINE e == Entry(s, b)
  <2>1. b # a /\ Entry(t, b) = e /\ e.page \in Pages /\ b[1] \in Pages
    BY <1>6, EntryPart
  <2>2. /\ IsTable(s, b[1]) /\ home[e.page] = b
        /\ s.page[e.page].use = Below(s.page[b[1]].use)
        /\ e.kind = "Trans" => s.page[b[1]].use = "PML1"
    BY <1>1, <2>1 DEF PtesLinked
  <2> HIDE DEF e
  <2> QED
    BY <1>2, <1>4, <1>5, <2>1, <2>2 DEF SameRec
<1>11. PagesLinked(t, home, p, busy)
  <2> SUFFICES ASSUME NEW q \in Pages \ {Root, p}, IsAnon(t, q) \/ IsTable(t, q)
               PROVE  \/ Entry(t, home[q]).kind \in {"Valid", "Trans"}
                         /\ Entry(t, home[q]).page = q
                      \/ << home[q], q >> \in busy
    BY DEF PagesLinked
  <2>1. home[q] \in PteAddr
    OBVIOUS
  <2> QED
    BY <1>5, <1>6, <1>9, <2>1
<1>12. BusyLinked(t, home, p, busy)
  <2>1. ASSUME NEW b \in PteAddr, Entry(t, b).kind = "Busy"
        PROVE  \E q \in Pages : << b, q >> \in busy
    BY <1>1, <1>6, <2>1 DEF BusyLinked
  <2>2. ASSUME NEW b \in PteAddr, NEW q \in Pages, << b, q >> \in busy
        PROVE  /\ Entry(t, b).kind = "Busy" /\ t.page[b[1]].use = "PML1"
               /\ home[q] = b /\ IsAnon(t, q) /\ q # p
               /\ \A r \in Pages : << b, r >> \in busy => r = q
    <3>1. /\ Entry(s, b).kind = "Busy" /\ s.page[b[1]].use = "PML1"
          /\ home[q] = b /\ IsAnon(s, q)
          /\ \A r \in Pages : << b, r >> \in busy => r = q
      BY <1>1, <2>2 DEF BusyLinked
    <3>2. b # a /\ b[1] \in Pages
      BY <1>8, <2>2, AddrParts
    <3> QED
      BY <1>2, <1>4, <1>5, <1>6, <3>1, <3>2 DEF SameRec
  <2> QED
    BY <2>1, <2>2 DEF BusyLinked
<1>13. Linked(t, home, p, busy)
  BY <1>1, <1>4, <1>10, <1>11, <1>12, ConstantTypes DEF Linked, SameRec
<1>14. Referenced(t, home, p, refs)
  <2> SUFFICES ASSUME NEW q \in Pages
               PROVE  t.page[q].refcnt = refs[q] + Base(t, home, p, q)
    BY DEF Referenced
  <2>1. t.page[q].refcnt = refs[q] + Base(s, home, NoPage, q)
    BY <1>4 DEF Maps, Referenced, SameRec
  <2>2. IsAnon(s, q) => (Mapped(t, home, p, q) <=> Mapped(s, home, NoPage, q))
    <3>1. CASE q = p
      BY <1>2, <3>1 DEF Mapped
    <3>2. CASE q # p
      <4>1. home[q] \in PteAddr
        OBVIOUS
      <4> QED
        BY <1>6, <1>7, <1>9, <3>2, <4>1 DEF Mapped
    <3> QED
      BY <3>1, <3>2
  <2>3. Base(t, home, p, q) = Base(s, home, NoPage, q)
    BY <1>4, <1>5, <2>2 DEF Base, SameRec
  <2> QED
    BY <2>1, <2>3
<1> QED
  BY <1>3, <1>13, <1>14 DEF Maps

(* An eviction changes nothing that is owed.                               *)
LEMMA EvictedMaps ==
  ASSUME NEW s \in VmStates, NEW t \in VmStates, NEW a \in PteAddr, EvictedAt(s, t, a),
         NEW home \in [Pages -> PteAddr], NEW hole, NEW busy,
         NEW pins \in Ledger, NEW uses \in Ledger, NEW refs \in Ledger,
         Maps(s, home, hole, busy, pins, uses, refs)
  PROVE  Maps(t, home, hole, busy, pins, uses, refs)
<1> DEFINE p == Entry(s, a).page
           x == TransPte(p)
           u == [s EXCEPT !.table[a[1]][a[2]] = x]
<1>1. p \in Pages /\ a[1] \in Pages /\ a[2] \in Idx
  BY EntryPart
<1> HIDE DEF p
<1>2. x \in Pte /\ x.kind = "Trans" /\ x.page = p
  <2>1. 0 \in Nat \cup {NoSlot} /\ TRUE \in BOOLEAN
    OBVIOUS
  <2>2. x \in Pte
    BY ONLY <1>1, <2>1, PteTypes
  <2> QED
    BY <2>2 DEF TransPte, ZeroPte
<1> HIDE DEF x
<1>3. u \in VmStates
  BY <1>1, <1>2, SetTableType
<1>4. Entered(s, u, a, x)
  <2>1. u.page = s.page /\ u.table = [s.table EXCEPT ![a[1]][a[2]] = x] /\ s.table \in TableMem
    BY Parts DEF VmStates
  <2> HIDE DEF u
  <2>2. \A e \in Pages, j \in Idx :
          u.table[e][j] = IF e = a[1] /\ j = a[2] THEN x ELSE s.table[e][j]
    BY <1>1, <2>1 DEF TableMem
  <2>3. \A b \in PteAddr : Entry(u, b) = IF b = a THEN x ELSE Entry(s, b)
    BY <2>2, AddrParts DEF Entry
  <2> QED
    BY <2>1, <2>3 DEF Entered, SameRec
<1> HIDE DEF u
<1>5. Entry(s, a).kind = "Valid" /\ IsAnon(s, p)
  BY DEF EvictedAt, p
<1>6. /\ IsTable(s, a[1]) /\ home[p] = a /\ p # hole /\ s.page[p].use = Below(s.page[a[1]].use)
      /\ s.page[a[1]].use = "PML1"
  <2>1. /\ IsTable(s, a[1]) /\ home[p] = a /\ p # hole
        /\ s.page[p].use = Below(s.page[a[1]].use)
    BY <1>5 DEF Maps, Linked, PtesLinked, p
  <2> QED
    BY <1>5, <2>1 DEF IsTable, IsAnon, TableUses, Below
<1>7. Named(s, u, a, x, p)
  BY <1>2, <1>4, <1>6 DEF Named
<1>8. MayName(s, hole, busy, a, p) /\ Moved(home, home, p, a) /\ Filled(hole, p) = hole
  BY <1>5, <1>6 DEF MayName, Moved, Filled, p
<1>9. Maps(u, home, hole, busy \ {<< a, p >>}, pins, uses, Plus(refs, p, 1))
  <2>1. /\ 0 \in Int /\ 0 = InBit(Entry(s, a)) - 1 /\ 0 <= UseBit(Entry(s, a)) - 1
        /\ 1 \in Int
        /\ 1 = Returned(s, hole, a, x, p)
    BY <1>2, <1>5, <1>6 DEF InBit, UseBit, Returned
  <2>2. Maps(u, home, Filled(hole, p), busy \ {<< a, p >>},
             Plus(pins, a[1], 0), Plus(uses, a[1], 0), Plus(refs, p, 1))
    BY <1>1, <1>3, <1>7, <1>8, <2>1, NamedMaps
  <2>3. Plus(pins, a[1], 0) = pins /\ Plus(uses, a[1], 0) = uses
    BY <1>1, PlusBack
  <2> QED
    BY <1>8, <2>2, <2>3
<1>10. busy \ {<< a, p >>} = busy
  <2>1. << a, p >> \notin busy
    BY <1>1, <1>5 DEF Maps, Linked, BusyLinked
  <2> QED
    BY <2>1
<1>11. Adjusted(u, t, p, -1, 0, 0)
  <2>1. \A b \in PteAddr : Entry(t, b) = Entry(u, b)
    BY <1>4 DEF EvictedAt, Entered, p, x
  <2>2. t.table = u.table
    <3>1. t.table \in TableMem /\ u.table \in TableMem
      BY <1>3, Parts
    <3>2. \A e \in Pages, j \in Idx : t.table[e][j] = u.table[e][j]
      <4> TAKE e \in Pages, j \in Idx
      <4>1. << e, j >> \in PteAddr
        BY DEF PteAddr
      <4>2. Entry(t, << e, j >>) = Entry(u, << e, j >>)
        BY <2>1, <4>1
      <4> QED
        BY <4>2 DEF Entry
    <3>3. \A e \in Pages : t.table[e] = u.table[e]
      BY <3>1, <3>2 DEF TableMem
    <3> QED
      BY <3>1, <3>3 DEF TableMem
  <2>3. /\ \A r \in Pages \ {p} : SameRec(s, t, r)
        /\ t.page[p].use = s.page[p].use /\ t.page[p].refcnt = s.page[p].refcnt - 1
        /\ t.page[p].nonzero = s.page[p].nonzero /\ t.page[p].nonswap = s.page[p].nonswap
        /\ t.page[p].referent = s.page[p].referent
    BY DEF EvictedAt, p
  <2>4. \A r \in Pages : SameRec(s, u, r)
    BY <1>4 DEF Entered
  <2>5. u.page[p].refcnt \in Int /\ u.page[p].nonzero \in Int /\ u.page[p].nonswap \in Int
    BY <1>1, <1>3, PagePart
  <2>6. \A r \in Pages \ {p} : SameRec(u, t, r)
    BY <2>3, <2>4 DEF SameRec
  <2> QED
    BY <1>1, <2>2, <2>3, <2>4, <2>5, <2>6 DEF Adjusted, SameRec
<1>12. Plus(refs, p, 1) \in Ledger
  BY <1>1, PlusAt
<1> DEFINE refs1 == Plus(refs, p, 1)
<1> HIDE DEF refs1
<1>13. Maps(t, home, hole, busy, Plus(pins, p, 0), Plus(uses, p, 0), Plus(refs1, p, -1 - 0))
  BY <1>1, <1>3, <1>9, <1>10, <1>11, <1>12, AdjustedMaps, SMTT(60) DEF refs1
<1> QED
  BY <1>1, <1>13, PlusBack, -1 - 0 = -1 DEF refs1

(* A trim of the working set changes nothing that is owed, no use, no      *)
(* referent and no PTE that was not valid.                                 *)
LEMMA TrimmedMaps ==
  ASSUME NEW s \in VmStates, NEW t \in VmStates, Trimmed(s, t),
         NEW home \in [Pages -> PteAddr], NEW hole, NEW busy,
         NEW pins \in Ledger, NEW uses \in Ledger, NEW refs \in Ledger,
         Maps(s, home, hole, busy, pins, uses, refs)
  PROVE  /\ Maps(t, home, hole, busy, pins, uses, refs)
         /\ \A q \in Pages : /\ t.page[q].use = s.page[q].use
                             /\ t.page[q].referent = s.page[q].referent
         /\ \A b \in PteAddr : Entry(s, b).kind # "Valid" => Entry(t, b) = Entry(s, b)
<1>1. CASE Same(s, t)
  BY <1>1, SameMaps DEF Same, SameRec, Entry
<1>2. ASSUME NEW a \in PteAddr, EvictedAt(s, t, a)
      PROVE  /\ Maps(t, home, hole, busy, pins, uses, refs)
             /\ \A q \in Pages : /\ t.page[q].use = s.page[q].use
                                 /\ t.page[q].referent = s.page[q].referent
             /\ \A b \in PteAddr : Entry(s, b).kind # "Valid" => Entry(t, b) = Entry(s, b)
  <2>1. Maps(t, home, hole, busy, pins, uses, refs)
    BY <1>2, EvictedMaps
  <2>2. \A q \in Pages : t.page[q].use = s.page[q].use /\ t.page[q].referent = s.page[q].referent
    BY <1>2 DEF EvictedAt, SameRec
  <2>3. \A b \in PteAddr : Entry(s, b).kind # "Valid" => Entry(t, b) = Entry(s, b)
    BY <1>2 DEF EvictedAt
  <2> QED
    BY <2>1, <2>2, <2>3
<1> QED
  BY <1>1, <1>2 DEF Trimmed

(* The referents are in home.                                              *)
LEMMA ReferentMaps ==
  ASSUME NEW s \in VmStates, NEW t, NEW p \in Pages, NEW a, Referred(s, t, p, a),
         NEW home, NEW hole, NEW busy, NEW pins, NEW uses, NEW refs,
         Maps(s, home, hole, busy, pins, uses, refs)
  PROVE  Maps(t, home, hole, busy, pins, uses, refs)
<1>1. \A b : Entry(t, b) = Entry(s, b)
  BY DEF Referred, Entry
<1>2. \A q \in Pages : NumIn(t, q) = NumIn(s, q) /\ NumUse(t, q) = NumUse(s, q)
  BY DEF Referred, NumIn, NumUse
<1>3. \A q \in Pages : /\ t.page[q].use = s.page[q].use
                       /\ t.page[q].refcnt = s.page[q].refcnt
                       /\ t.page[q].nonzero = s.page[q].nonzero
                       /\ t.page[q].nonswap = s.page[q].nonswap
  BY DEF Referred, SameRec
<1>4. \A q \in Pages : (IsAnon(t, q) <=> IsAnon(s, q)) /\ (IsTable(t, q) <=> IsTable(s, q))
  BY <1>3 DEF IsAnon, IsTable
<1>5. Linked(t, home, hole, busy)
  BY <1>1, <1>3, LinkedSame DEF Maps
<1>6. Counted(t, pins, uses)
  BY <1>2, <1>3, <1>4 DEF Maps, Counted
<1>7. Referenced(t, home, hole, refs)
  BY <1>1, <1>3, <1>4 DEF Maps, Referenced, Base, Mapped
<1> QED
  BY <1>5, <1>6, <1>7 DEF Maps

-----------------------------------------------------------------------------
(* Page p is taken for a use: its memory is zeroed, and it has one         *)
(* reference.                                                              *)
Taken(s, t, p, use) ==
  /\ \A q \in Pages \ {p} : SameRec(s, t, q)
  /\ \A b \in PteAddr : Entry(t, b) = IF b[1] = p THEN ZeroPte ELSE Entry(s, b)
  /\ t.page[p].use = use /\ t.page[p].refcnt = 1
  /\ t.page[p].nonzero = s.page[p].nonzero /\ t.page[p].nonswap = s.page[p].nonswap

(* A table whose PTEs are zero.                                            *)
LEMMA EmptyTable ==
  ASSUME NEW t, NEW p \in Pages, \A j \in Idx : t.table[p][j] = ZeroPte
  PROVE  NumIn(t, p) = 0 /\ NumUse(t, p) = 0
<1>1. InCoreSet(t.table[p]) = {} /\ InUseSet(t.table[p]) = {}
  BY DEF InCoreSet, InUseSet, ZeroPte
<1> QED
  BY <1>1, FS_EmptySet DEF NumIn, NumUse

(* What is owed when a page that no PTE names is taken.                    *)
LEMMA TakenMaps ==
  ASSUME NEW s \in VmStates, NEW t \in VmStates, NEW p \in Pages,
         NEW use \in TableUses \cup {"AnonPrivate"}, Taken(s, t, p, use),
         s.page[p].refcnt = 0, s.page[p].nonzero = 0,
         NEW home \in [Pages -> PteAddr], NEW hole, NEW busy,
         \/ s.page[p].use = "Free" /\ hole = NoPage
         \/ IsAnon(s, p) /\ hole = p,
         NEW pins \in Ledger, NEW uses \in Ledger, NEW refs \in Ledger,
         Maps(s, home, hole, busy, pins, uses, refs)
  PROVE  Maps(t, home, p, busy, pins, uses, Plus(refs, p, IF use = "AnonPrivate" THEN 1 ELSE 0))
<1>1. /\ PagesLinked(s, home, hole, busy) /\ BusyLinked(s, home, hole, busy)
      /\ PtesLinked(s, home, hole) /\ s.page[Root].use = TableUse[Levels]
  BY DEF Maps, Linked
<1>2. /\ NoPage \notin Pages /\ ~IsAnon(s, Root) /\ IsTable(s, Root)
      /\ \A q \in Pages : ~(IsAnon(s, q) /\ IsTable(s, q))
  BY <1>1, UseFacts
<1>3. ~IsTable(s, p) /\ s.page[p].use # "Deleted" /\ p # Root
  BY <1>2 DEF IsTable, IsAnon, TableUses
<1>4. \A q \in Pages \ {p} : /\ SameRec(s, t, q)
                             /\ IsAnon(t, q) <=> IsAnon(s, q)
                             /\ IsTable(t, q) <=> IsTable(s, q)
  BY DEF Taken, SameRec, IsAnon, IsTable
<1>5. \A b \in PteAddr : Entry(t, b) = IF b[1] = p THEN ZeroPte ELSE Entry(s, b)
  BY DEF Taken
<1>6. ZeroPte.kind = "Zero"
  BY DEF ZeroPte
<1>7. ASSUME NEW b \in PteAddr, Entry(s, b).kind \in {"Valid", "Trans"}
      PROVE  b[1] # p /\ Entry(s, b).page # p
  <2>1. /\ IsTable(s, b[1]) /\ Entry(s, b).page # hole
        /\ s.page[Entry(s, b).page].use = Below(s.page[b[1]].use)
    BY <1>1, <1>7 DEF PtesLinked
  <2>2. Below(s.page[b[1]].use) # "Free"
    BY DEF Below
  <2> QED
    BY <1>3, <2>1, <2>2
<1>8. \A b \in PteAddr, q \in Pages : << b, q >> \in busy => b[1] # p /\ q # p
  <2> SUFFICES ASSUME NEW b \in PteAddr, NEW q \in Pages, << b, q >> \in busy
               PROVE  b[1] # p /\ q # p
    OBVIOUS
  <2>1. s.page[b[1]].use = "PML1" /\ IsAnon(s, q) /\ q # hole
    BY <1>1 DEF BusyLinked
  <2> QED
    BY <1>3, <2>1 DEF IsTable, TableUses, IsAnon
<1>9. PtesLinked(t, home, p)
  <2> SUFFICES ASSUME NEW b \in PteAddr, Entry(t, b).kind \in {"Valid", "Trans"}
               PROVE  /\ IsTable(t, b[1])
                      /\ Entry(t, b).page # p /\ home[Entry(t, b).page] = b
                      /\ t.page[Entry(t, b).page].use = Below(t.page[b[1]].use)
                      /\ Entry(t, b).kind = "Trans" => t.page[b[1]].use = "PML1"
    BY DEF PtesLinked
  <2> DEFINE e == Entry(s, b)
  <2>1. b[1] # p /\ Entry(t, b) = e /\ e.page \in Pages /\ b[1] \in Pages /\ e.page # p
    BY <1>5, <1>6, <1>7, EntryPart
  <2>2. /\ IsTable(s, b[1]) /\ home[e.page] = b
        /\ s.page[e.page].use = Below(s.page[b[1]].use)
        /\ e.kind = "Trans" => s.page[b[1]].use = "PML1"
    BY <1>1, <2>1 DEF PtesLinked
  <2> HIDE DEF e
  <2> QED
    BY <1>4, <2>1, <2>2 DEF SameRec
<1>10. \A q \in Pages \ {Root, p} :
         IsAnon(s, q) \/ IsTable(s, q) =>
           /\ Entry(t, home[q]) = Entry(s, home[q])
           /\ \/ Entry(s, home[q]).kind \in {"Valid", "Trans"} /\ Entry(s, home[q]).page = q
              \/ << home[q], q >> \in busy
  <2> SUFFICES ASSUME NEW q \in Pages \ {Root, p}, IsAnon(s, q) \/ IsTable(s, q)
               PROVE  /\ Entry(t, home[q]) = Entry(s, home[q])
                      /\ \/ Entry(s, home[q]).kind \in {"Valid", "Trans"}
                            /\ Entry(s, home[q]).page = q
                         \/ << home[q], q >> \in busy
    OBVIOUS
  <2>1. q # hole /\ home[q] \in PteAddr
    BY <1>2
  <2>2. \/ Entry(s, home[q]).kind \in {"Valid", "Trans"} /\ Entry(s, home[q]).page = q
        \/ << home[q], q >> \in busy
    BY <1>1, <2>1 DEF PagesLinked
  <2>3. home[q][1] # p
    BY <1>7, <1>8, <2>1, <2>2
  <2> QED
    BY <1>5, <2>1, <2>2, <2>3
<1>11. PagesLinked(t, home, p, busy)
  BY <1>4, <1>10 DEF PagesLinked
<1>12. BusyLinked(t, home, p, busy)
  <2>1. ASSUME NEW b \in PteAddr, Entry(t, b).kind = "Busy"
        PROVE  \E q \in Pages : << b, q >> \in busy
    BY <1>1, <1>5, <1>6, <2>1 DEF BusyLinked
  <2>2. ASSUME NEW b \in PteAddr, NEW q \in Pages, << b, q >> \in busy
        PROVE  /\ Entry(t, b).kind = "Busy" /\ t.page[b[1]].use = "PML1"
               /\ home[q] = b /\ IsAnon(t, q) /\ q # p
               /\ \A r \in Pages : << b, r >> \in busy => r = q
    <3>1. /\ Entry(s, b).kind = "Busy" /\ s.page[b[1]].use = "PML1"
          /\ home[q] = b /\ IsAnon(s, q)
          /\ \A r \in Pages : << b, r >> \in busy => r = q
      BY <1>1, <2>2 DEF BusyLinked
    <3>2. b[1] # p /\ q # p /\ b[1] \in Pages
      BY <1>8, <2>2, AddrParts
    <3> QED
      BY <1>4, <1>5, <3>1, <3>2 DEF SameRec
  <2> QED
    BY <2>1, <2>2 DEF BusyLinked
<1>13. Linked(t, home, p, busy)
  BY <1>1, <1>3, <1>4, <1>9, <1>11, <1>12, ConstantTypes DEF Linked, SameRec
<1>14. \A q \in Pages \ {p} : NumIn(t, q) = NumIn(s, q) /\ NumUse(t, q) = NumUse(s, q)
  <2> TAKE q \in Pages \ {p}
  <2>1. \A j \in Idx : t.table[q][j] = s.table[q][j]
    <3> TAKE j \in Idx
    <3>1. << q, j >> \in PteAddr /\ << q, j >>[1] # p
      BY DEF PteAddr
    <3>2. Entry(t, << q, j >>) = Entry(s, << q, j >>)
      BY <1>5, <3>1
    <3> QED
      BY <3>2 DEF Entry
  <2>2. InCoreSet(t.table[q]) = InCoreSet(s.table[q]) /\ InUseSet(t.table[q]) = InUseSet(s.table[q])
    BY <2>1 DEF InCoreSet, InUseSet
  <2> QED
    BY <2>2 DEF NumIn, NumUse
<1>15. NumIn(t, p) = 0 /\ NumUse(t, p) = 0
  <2>1. \A j \in Idx : t.table[p][j] = ZeroPte
    <3> TAKE j \in Idx
    <3>1. << p, j >> \in PteAddr /\ << p, j >>[1] = p
      BY DEF PteAddr
    <3>2. Entry(t, << p, j >>) = ZeroPte
      BY <1>5, <3>1
    <3> QED
      BY <3>2 DEF Entry
  <2> QED
    BY <2>1, EmptyTable
<1>16. pins[p] = 0 /\ uses[p] = 0 /\ s.page[p].nonswap = 0
  BY <1>3 DEF Maps, Counted
<1>17. /\ t.page[p].nonswap = 0 /\ t.page[p].nonzero = 0 /\ t.page[p].use = use
       /\ t.page[p].refcnt = 1
  BY <1>16 DEF Taken
<1>18. Counted(t, pins, uses)
  <2> SUFFICES ASSUME NEW q \in Pages
               PROVE  IF IsTable(t, q)
                      THEN /\ t.page[q].nonswap = pins[q] + NumIn(t, q)
                           /\ t.page[q].nonzero >= uses[q] + NumUse(t, q)
                      ELSE /\ pins[q] = 0 /\ uses[q] = 0
                           /\ t.page[q].use # "Deleted" => t.page[q].nonswap = 0
    BY DEF Counted
  <2>1. CASE q = p
    BY <1>15, <1>16, <1>17, <2>1
  <2>2. CASE q # p
    BY <1>4, <1>14, <2>2 DEF Maps, Counted, SameRec
  <2> QED
    BY <2>1, <2>2
<1> DEFINE n == IF use = "AnonPrivate" THEN 1 ELSE 0
<1>19. Referenced(t, home, p, Plus(refs, p, n))
  <2> SUFFICES ASSUME NEW q \in Pages
               PROVE  t.page[q].refcnt = Plus(refs, p, n)[q] + Base(t, home, p, q)
    BY DEF Referenced
  <2>1. n \in Int /\ n = IF use = "AnonPrivate" THEN 1 ELSE 0
    OBVIOUS
  <2>2. n \in Int
    BY <2>1
  <2> HIDE DEF n
  <2>3. s.page[q].refcnt = refs[q] + Base(s, home, hole, q)
    BY DEF Maps, Referenced
  <2>4. /\ Plus(refs, p, n)[p] = refs[p] + n /\ refs[p] \in Int
        /\ q # p => Plus(refs, p, n)[q] = refs[q]
    BY ONLY refs \in Ledger, p \in Pages, q \in Pages, <2>2, PlusAt
  <2>5. CASE q = p
    <3>1. Base(s, home, hole, p) = 0
      BY <1>3 DEF Base, Mapped, IsAnon
    <3>2. refs[p] = 0
      BY <2>3, <2>4, <2>5, <3>1
    <3>3. Base(t, home, p, p) = IF use = "AnonPrivate" THEN 0 ELSE 1
      <4>1. CASE use = "AnonPrivate"
        BY <1>17, <4>1 DEF Base, Mapped, IsAnon
      <4>2. CASE use # "AnonPrivate"
        BY <1>17, <4>2 DEF Base, IsAnon, IsTable
      <4> QED
        BY <4>1, <4>2
    <3> QED
      BY <1>17, <2>1, <2>4, <2>5, <3>2, <3>3
  <2>6. CASE q # p
    <3>1. IsAnon(s, q) => (Mapped(t, home, p, q) <=> Mapped(s, home, hole, q))
      <4>1. IsAnon(s, q) => q # Root /\ q # hole
        BY <1>2, <2>6
      <4> QED
        BY <1>10, <2>6, <4>1 DEF Mapped
    <3>2. Base(t, home, p, q) = Base(s, home, hole, q)
      BY <1>4, <2>6, <3>1 DEF Base, SameRec
    <3> QED
      BY <1>4, <2>3, <2>4, <2>6, <3>2 DEF SameRec
  <2> QED
    BY <2>5, <2>6
<1> QED
  BY <1>13, <1>18, <1>19 DEF Maps

(* The memset of the allocator, and the fields it sets.                    *)
LEMMA TakePageEffect ==
  ASSUME NEW s \in VmStates, NEW p \in Pages, NEW use \in PageUse, NEW t,
         t.page = TakePage(s, p, use).page, t.table = TakePage(s, p, use).table
  PROVE  Taken(s, t, p, use)
<1> DEFINE r == [s.page[p] EXCEPT !.refcnt = 1, !.use = use, !.dirty = FALSE,
                                  !.drumslot = NoSlot, !.referent = NullRef]
           z == [i \in Idx |-> ZeroPte]
<1>1. t.page = [s.page EXCEPT ![p] = r] /\ t.table = [s.table EXCEPT ![p] = z]
  BY DEF TakePage, VmStates
<1>2. /\ r.use = use /\ r.refcnt = 1 /\ r.nonzero = s.page[p].nonzero
      /\ r.nonswap = s.page[p].nonswap
  BY PagePart DEF PageRec
<1> HIDE DEF r
<1>3. t.page[p] = r /\ \A q \in Pages \ {p} : SameRec(s, t, q)
  BY <1>1, Parts DEF PageDb, SameRec
<1>4. \A e \in Pages, j \in Idx :
        t.table[e][j] = IF e = p THEN ZeroPte ELSE s.table[e][j]
  BY <1>1, Parts DEF TableMem
<1>5. \A b \in PteAddr : Entry(t, b) = IF b[1] = p THEN ZeroPte ELSE Entry(s, b)
  BY <1>4, AddrParts DEF Entry
<1> QED
  BY <1>2, <1>3, <1>5 DEF Taken

(* What an allocation of page p leaves alone.                              *)
Allocated(s, t, p, use) ==
  /\ t.page[p].use = use
  /\ \A q \in Pages \ {p} : /\ t.page[q].use = s.page[q].use
                            /\ t.page[q].referent = s.page[q].referent
  /\ \A b \in PteAddr :
       Entry(s, b).kind # "Trans" /\ b[1] # p => Entry(t, b) = Entry(s, b)

(* What is owed when a page of the free queue is allocated.                *)
LEMMA TakeFreeMaps ==
  ASSUME NEW s \in VmStates, NEW use \in TableUses \cup {"AnonPrivate"}, s.free # << >>,
         Placed(s, NoPage), TakeFree(s, use).panic = NoPanic,
         NEW home \in [Pages -> PteAddr], NEW busy,
         NEW pins \in Ledger, NEW uses \in Ledger, NEW refs \in Ledger,
         Maps(s, home, NoPage, busy, pins, uses, refs)
  PROVE  LET p == Head(s.free)
             t == TakeFree(s, use)
         IN  /\ Maps(t, home, p, busy, pins, uses,
                     Plus(refs, p, IF use = "AnonPrivate" THEN 1 ELSE 0))
             /\ Allocated(s, t, p, use) /\ s.page[p].use = "Free" /\ s.page[p].refcnt = 0
<1> DEFINE p == Head(s.free)
           v == TakePage(s, p, use)
           u == [v EXCEPT !.free = Tail(@), !.stat.nfree = @ - 1]
           ok == s.page[p].refcnt = 0 /\ s.page[p].nonzero = 0
           k == Kassert(s, s.page[p].referent = NullRef, "resident.c:124", u)
           k2 == Kassert(s, ok, "resident.c:122", k)
<1>1. use \in PageUse
  BY DEF TableUses, PageUse
<1>2. p \in Pages /\ s.page[p].use = "Free"
  <2>1. s.free \in Seq(Pages)
    BY Parts DEF Queue
  <2>2. Lists(s.free, FreeSet(s))
    BY DEF Placed
  <2>3. p \in FreeSet(s)
    BY ONLY <2>1, <2>2, s.free # << >>, ListsTail
  <2> QED
    BY <2>3 DEF FreeSet
<1> HIDE DEF p
<1>3. v \in VmStates
  BY <1>1, <1>2, TakePageType
<1>4. u.page = v.page /\ u.table = v.table
  BY <1>3 DEF VmStates
<1>5. TakeFree(s, use) = k2 /\ k2 \in VmStates
  <2>1. TakeFree(s, use) = k2
    BY DEF TakeFree, p
  <2>2. TakeFree(s, use) \in VmStates
    BY <1>1, TakeFreeType
  <2> QED
    BY ONLY <2>1, <2>2
<1> HIDE DEF v, u
<1>6. k.panic = NoPanic => k = u
  BY PanicSeen DEF Kassert, Then, NoPanic
<1> HIDE DEF k
<1>7. k2.panic = NoPanic => s.panic = NoPanic /\ ok /\ k2 = k
  BY PanicSeen DEF Kassert, Then, NoPanic
<1> HIDE DEF k2
<1>8. ok /\ TakeFree(s, use) = u /\ u \in VmStates
  BY <1>5, <1>6, <1>7
<1>9. Taken(s, u, p, use)
  BY <1>1, <1>2, <1>4, TakePageEffect DEF v
<1>10. Maps(u, home, p, busy, pins, uses, Plus(refs, p, IF use = "AnonPrivate" THEN 1 ELSE 0))
  BY <1>2, <1>8, <1>9, TakenMaps
<1>11. Allocated(s, u, p, use)
  BY <1>9 DEF Allocated, Taken, SameRec
<1> QED
  BY <1>2, <1>8, <1>10, <1>11 DEF p

(* What is owed when a standby page is stolen: its PTE becomes a swap PTE, *)
(* and the table that holds the PTE has one reference less.                *)
LEMMA StealPageMaps ==
  ASSUME NEW s \in VmStates, NEW use \in TableUses \cup {"AnonPrivate"}, s.standby # << >>,
         Placed(s, NoPage), StealPage(s, use).panic = NoPanic, NEW busy,
         NEW pins \in Ledger, NEW uses \in Ledger, NEW refs \in Ledger,
         \A q \in Pages : refs[q] >= 0,
         Maps(s, Home(s), NoPage, busy, pins, uses, refs)
  PROVE  LET p == Head(s.standby)
             t == StealPage(s, use)
         IN  /\ Maps(t, Home(s), p, busy, pins, uses,
                     Plus(refs, p, IF use = "AnonPrivate" THEN 1 ELSE 0))
             /\ Allocated(s, t, p, use) /\ IsAnon(s, p) /\ s.page[p].refcnt = 0
<1> DEFINE p   == Head(s.standby)
           ref == s.page[p].referent
           x   == SwapPte(s.page[p].drumslot)
           b   == [s EXCEPT !.standby = Tail(@), !.table[ref[1]][ref[2]] = x]
           t   == PteBecameSwap(b, ref[1])
           v   == TakePage(t, p, use)
           u   == [v EXCEPT !.stat.nstandby = @ - 1]
           ok  == t.page[p].refcnt = 0 /\ t.page[p].nonzero = 0
           a   == Kassert(t, ok, "resident.c:81", u)
           k   == Kassert(s, s.page[p].use = "AnonPrivate", "resident.c:78", a)
           home == Home(s)
           n   == IF use = "AnonPrivate" THEN 1 ELSE 0
<1>1. use \in PageUse
  BY DEF TableUses, PageUse
<1>2. p \in Pages /\ s.page[p].use = "AnonPrivate" /\ s.page[p].refcnt = 0
  <2>1. s.standby \in Seq(Pages)
    BY Parts DEF Queue
  <2>2. Lists(s.standby, StandbySet(s) \ {NoPage})
    BY DEF Placed
  <2> DEFINE S == StandbySet(s) \ {NoPage}
  <2> HIDE DEF S
  <2>3. Lists(s.standby, S)
    BY <2>2 DEF S
  <2>4. p \in S
    BY ONLY <2>1, <2>3, s.standby # << >>, ListsTail
  <2>5. p \in StandbySet(s) \ {NoPage}
    BY <2>4 DEF S
  <2> QED
    BY <2>5 DEF StandbySet
<1>3. StealPage(s, use) \in VmStates
  BY <1>1, StealPageType
<1> HIDE DEF p
<1>4. ref \in PteAddr /\ ref[1] \in Pages /\ ref[2] \in Idx
  BY <1>2, PagePart
<1>5. home \in [Pages -> PteAddr] /\ home[p] = ref
  BY <1>2, PagePart DEF Home
<1> HIDE DEF ref, home
<1>6. x \in Pte /\ x.kind \in {"Zero", "Swap"}
  <2>1. s.page[p].drumslot \in Nat \cup {NoSlot}
    BY <1>2, PagePart
  <2>2. x \in Pte
    BY <1>2, <2>1, PteTypes
  <2> QED
    BY <2>2 DEF SwapPte, ZeroPte
<1> HIDE DEF x
<1>7. b \in VmStates
  <2>1. Tail(s.standby) \in Queue
    BY Parts DEF Queue
  <2>2. [s.table EXCEPT ![ref[1]][ref[2]] = x] \in TableMem
    BY <1>4, <1>6, Parts DEF TableMem
  <2> QED
    BY <2>1, <2>2 DEF VmStates
<1>8. Entered(s, b, ref, x) /\ b.page = s.page /\ b.panic = s.panic
  <2>1. /\ b.page = s.page /\ b.table = [s.table EXCEPT ![ref[1]][ref[2]] = x]
        /\ s.table \in TableMem /\ b.panic = s.panic
    BY Parts DEF VmStates
  <2> HIDE DEF b
  <2>2. \A e \in Pages, j \in Idx :
          b.table[e][j] = IF e = ref[1] /\ j = ref[2] THEN x ELSE s.table[e][j]
    BY <1>4, <2>1 DEF TableMem
  <2>3. \A c \in PteAddr : Entry(b, c) = IF c = ref THEN x ELSE Entry(s, c)
    BY <1>4, <2>2, AddrParts DEF Entry
  <2> QED
    BY <2>1, <2>3 DEF Entered, SameRec
<1> HIDE DEF b
<1>9. t \in VmStates
  BY <1>4, <1>7, PteBecameSwapType
<1>10. v \in VmStates
  BY <1>1, <1>2, <1>9, TakePageType
<1>11. u.page = v.page /\ u.table = v.table
  BY <1>10 DEF VmStates
<1> HIDE DEF v, u, t
<1>12. a.panic = NoPanic => t.panic = NoPanic /\ ok /\ a = u
  BY <1>9, PanicSeen DEF Kassert, Then, NoPanic
<1> HIDE DEF a
<1>13. k.panic = NoPanic => s.panic = NoPanic /\ k = a
  BY PanicSeen, SMTT(60) DEF Kassert, Then, NoPanic
<1> HIDE DEF k, ok
<1>14. StealPage(s, use) = k
  BY Zenon DEF StealPage, k, a, ok, u, v, t, b, x, ref, p
<1> USE DEF ok
<1>15. /\ s.panic = NoPanic /\ t.panic = NoPanic /\ ok
       /\ StealPage(s, use) = u /\ u \in VmStates
  BY <1>3, <1>12, <1>13, <1>14
<1>16. Entry(s, ref).kind = "Trans" /\ Entry(s, ref).page = p /\ IsTable(s, ref[1])
  <2>1. /\ PagesLinked(s, home, NoPage, busy) /\ BusyLinked(s, home, NoPage, busy)
        /\ PtesLinked(s, home, NoPage) /\ s.page[Root].use = TableUse[Levels]
    BY DEF Maps, Linked, home
  <2>2. NoPage \notin Pages /\ p # Root
    BY <1>2, <2>1, UseFacts DEF IsAnon
  <2>3. \/ Entry(s, ref).kind \in {"Valid", "Trans"} /\ Entry(s, ref).page = p
        \/ << ref, p >> \in busy
    BY <1>2, <1>5, <2>1, <2>2 DEF PagesLinked, IsAnon
  <2>4. << ref, p >> \in busy => Entry(s, ref).kind = "Busy"
    BY <1>2, <1>4, <2>1 DEF BusyLinked
  <2>5. 0 = refs[p] + Base(s, home, NoPage, p) /\ refs[p] >= 0 /\ refs[p] \in Int
    BY <1>2, PlusAt, 0 \in Int DEF Maps, Referenced, home
  <2>6. ~Mapped(s, home, NoPage, p)
    BY <1>2, <2>5 DEF Base, IsAnon
  <2>7. Entry(s, ref).kind \notin {"Valid", "Busy"}
    BY <1>2, <1>5, <2>2, <2>6 DEF Mapped
  <2>8. Entry(s, ref).kind = "Trans" /\ Entry(s, ref).page = p
    BY <2>3, <2>4, <2>7
  <2> QED
    BY <1>4, <2>1, <2>8 DEF PtesLinked
<1> DEFINE pins1 == Plus(pins, ref[1], 1)
<1>17. Maps(b, home, p, busy, pins1, uses, refs)
  <2>1. 0 \in Int /\ 0 <= 1 - UseBit(x)
    BY DEF UseBit
  <2>2. Entry(s, ref).kind \in {"Valid", "Trans"} /\ Maps(s, home, NoPage, busy, pins, uses, refs)
    BY <1>16 DEF home
  <2>3. Maps(b, home, p, busy, pins1, Plus(uses, ref[1], 0), refs)
    BY <1>2, <1>4, <1>5, <1>6, <1>7, <1>8, <1>16, <2>1, <2>2, LostMaps
  <2> QED
    BY <1>4, <2>3, PlusBack
<1>18. b.page[ref[1]].use # "Deleted" /\ IsTable(b, ref[1])
  BY <1>8, <1>16 DEF IsTable, TableUses
<1>19. Adjusted(b, t, ref[1], -1, 0, -1)
  BY <1>4, <1>7, <1>15, <1>18, PteBecameSwapEffect DEF t
<1>20. pins1 \in Ledger /\ Plus(pins1, ref[1], -1) = pins
  BY <1>4, PlusAt, PlusBack
<1> HIDE DEF pins1
<1>21. Maps(t, home, p, busy, pins, uses, refs)
  <2>1. -1 \in Int /\ 0 \in Int /\ (-1) - (-1) = 0
    OBVIOUS
  <2>2. Maps(t, home, p, busy, Plus(pins1, ref[1], -1), Plus(uses, ref[1], 0),
             Plus(refs, ref[1], (-1) - (-1)))
    BY <1>4, <1>7, <1>9, <1>17, <1>18, <1>19, <1>20, <2>1, AdjustedMaps
  <2>3. Plus(uses, ref[1], 0) = uses /\ Plus(refs, ref[1], 0) = refs
    BY <1>4, PlusBack
  <2> QED
    BY <1>20, <2>1, <2>2, <2>3
<1>22. Taken(t, u, p, use)
  BY <1>1, <1>2, <1>9, <1>11, TakePageEffect DEF v
<1>23. IsAnon(t, p)
  <2>1. t.page[p].use = b.page[p].use
    BY <1>2, <1>19 DEF Adjusted, SameRec
  <2> QED
    BY <1>2, <1>8, <2>1 DEF IsAnon
<1>24. Maps(u, home, p, busy, pins, uses, Plus(refs, p, n))
  BY <1>2, <1>5, <1>9, <1>15, <1>21, <1>22, <1>23, TakenMaps
<1>25. Allocated(s, u, p, use)
  <2>1. \A q \in Pages : t.page[q].use = s.page[q].use /\ t.page[q].referent = s.page[q].referent
    BY <1>8, <1>19 DEF Adjusted, SameRec
  <2>2. \A c \in PteAddr : c # ref => Entry(t, c) = Entry(s, c)
    BY <1>8, <1>19 DEF Entered, Adjusted, Entry
  <2> QED
    BY <1>16, <1>22, <2>1, <2>2 DEF Allocated, Taken, SameRec
<1> QED
  BY <1>2, <1>15, <1>24, <1>25 DEF p, home, IsAnon

(* What is owed when vmp_page_alloc_locked() finds a page.                 *)
LEMMA PageAllocMaps ==
  ASSUME NEW s \in VmStates, NEW use \in TableUses \cup {"AnonPrivate"}, CanAlloc(s),
         Placed(s, NoPage), PageAlloc(s, use).panic = NoPanic, NEW busy,
         NEW pins \in Ledger, NEW uses \in Ledger, NEW refs \in Ledger,
         \A q \in Pages : refs[q] >= 0,
         Maps(s, Home(s), NoPage, busy, pins, uses, refs)
  PROVE  /\ s.panic = NoPanic /\ AllocatedPage(s) \in Pages
         /\ ~IsTable(s, AllocatedPage(s)) /\ s.page[AllocatedPage(s)].refcnt = 0
         /\ Maps(PageAlloc(s, use), Home(s), AllocatedPage(s), busy, pins, uses,
                 Plus(refs, AllocatedPage(s), IF use = "AnonPrivate" THEN 1 ELSE 0))
         /\ Allocated(s, PageAlloc(s, use), AllocatedPage(s), use)
<1> DEFINE n == IF use = "AnonPrivate" THEN 1 ELSE 0
<1>1. use \in PageUse
  BY DEF TableUses, PageUse
<1>2. AllocatedPage(s) \in Pages
  BY <1>1, PageAllocType
<1>3. Home(s) \in [Pages -> PteAddr]
  BY PagePart DEF Home
<1>4. /\ s.panic = NoPanic
      /\ PageAlloc(s, use) = IF s.free # << >> THEN TakeFree(s, use) ELSE StealPage(s, use)
  BY DEF PageAlloc, Then
<1>5. CASE s.free # << >>
  <2>1. PageAlloc(s, use) = TakeFree(s, use) /\ AllocatedPage(s) = Head(s.free)
    BY <1>4, <1>5 DEF AllocatedPage
  <2>2. /\ Maps(TakeFree(s, use), Home(s), Head(s.free), busy, pins, uses,
                Plus(refs, Head(s.free), n))
        /\ Allocated(s, TakeFree(s, use), Head(s.free), use)
        /\ s.page[Head(s.free)].use = "Free" /\ s.page[Head(s.free)].refcnt = 0
    BY <1>3, <1>5, <2>1, TakeFreeMaps
  <2>3. ~IsTable(s, AllocatedPage(s))
    BY <2>1, <2>2 DEF IsTable, TableUses
  <2> QED
    BY <1>2, <1>4, <2>1, <2>2, <2>3
<1>6. CASE s.free = << >>
  <2>1. PageAlloc(s, use) = StealPage(s, use) /\ AllocatedPage(s) = Head(s.standby)
    BY <1>4, <1>6 DEF AllocatedPage
  <2>2. s.standby # << >>
    BY <1>6 DEF CanAlloc
  <2>3. /\ Maps(StealPage(s, use), Home(s), Head(s.standby), busy, pins, uses,
                Plus(refs, Head(s.standby), n))
        /\ Allocated(s, StealPage(s, use), Head(s.standby), use)
        /\ IsAnon(s, Head(s.standby)) /\ s.page[Head(s.standby)].refcnt = 0
    BY <2>1, <2>2, StealPageMaps
  <2>4. ~IsTable(s, AllocatedPage(s))
    BY <2>1, <2>3 DEF IsTable, IsAnon, TableUses
  <2> QED
    BY <1>2, <1>4, <2>1, <2>3, <2>4
<1> QED
  BY <1>5, <1>6

-----------------------------------------------------------------------------
(* A page table and a page with a reference keep their use.                *)
Kept(s, t) ==
  \A q \in Pages : IsTable(s, q) \/ s.page[q].refcnt > 0 => t.page[q].use = s.page[q].use

(* A demand-zero fault owes nothing when it is done.                       *)
LEMMA ZeroFillMaps ==
  ASSUME NEW s \in VmStates, NEW a \in PteAddr, NEW k \in WsKey, NEW w \in BOOLEAN, CanAlloc(s),
         Placed(s, NoPage), ZeroFill(s, a, k, w).panic = NoPanic,
         Entry(s, a).kind = "Zero", s.page[a[1]].use = "PML1",
         NEW busy, NEW pins \in Ledger, NEW uses \in Ledger, NEW refs \in Ledger,
         \A q \in Pages : refs[q] >= 0,
         Maps(s, Home(s), NoPage, busy, pins, uses, refs)
  PROVE  LET t == ZeroFill(s, a, k, w)
         IN  Maps(t, Home(t), NoPage, busy, pins, uses, refs) /\ Kept(s, t)
<1> DEFINE p  == AllocatedPage(s)
           x  == HwPte(p, w)
           s1 == PageAlloc(s, "AnonPrivate")
           s2 == SetPte(s1, a, x)
           s3 == NonswapPteCreated(s2, a[1], TRUE)
           s4 == WslInsert(s3, k, FALSE)
           s5 == SetReferent(s4, p, a)
           home  == Home(s)
           home2 == [home EXCEPT ![p] = a]
           d == a[1]
           refs1 == Plus(refs, p, 1)
           pins2 == Plus(pins, d, -1)
           uses2 == Plus(uses, d, -1)
<1>1. s5 = ZeroFill(s, a, k, w)
  BY DEF ZeroFill
<1>2. d \in Pages
  BY AddrParts
<1>3. "AnonPrivate" \in PageUse /\ "AnonPrivate" \in TableUses \cup {"AnonPrivate"}
  BY DEF PageUse
<1>4. s1 \in VmStates /\ p \in Pages
  BY <1>3, PageAllocType
<1> HIDE DEF p
<1>5. x \in Pte /\ x.kind = "Valid" /\ x.page = p
  <2>1. 0 \in Nat \cup {NoSlot}
    OBVIOUS
  <2>2. x \in Pte
    BY ONLY <1>4, <2>1, w \in BOOLEAN, PteTypes
  <2> QED
    BY <2>2 DEF HwPte, ZeroPte
<1> HIDE DEF x
<1>6. s2 \in VmStates
  BY <1>4, <1>5, SetPteType
<1>7. s3 \in VmStates
  BY <1>2, <1>6, NonswapPteCreatedType
<1>8. s4 \in VmStates
  BY <1>7, WslInsertType
<1>9. s5.panic = NoPanic => s4.panic = NoPanic
  BY DEF SetReferent, Then
<1>10. s4.panic = NoPanic => s3.panic = NoPanic /\ Trimmed(s3, s4)
  BY <1>7, WslInsertEffect
<1>11. s3.panic = NoPanic => s2.panic = NoPanic /\ Adjusted(s2, s3, d, 1, 1, 1)
  BY <1>2, <1>6, NonswapPteCreatedEffect
<1>12. s2.panic = NoPanic => s1.panic = NoPanic /\ Entered(s1, s2, a, x)
  BY <1>4, SetPteEffect
<1>13. /\ s1.panic = NoPanic /\ s2.panic = NoPanic /\ s3.panic = NoPanic /\ s4.panic = NoPanic
       /\ s5.panic = NoPanic
  BY <1>1, <1>9, <1>10, <1>11, <1>12
<1>14. Referred(s4, s5, p, a)
  BY <1>4, <1>8, <1>13, SetReferentEffect
<1>15. /\ ~IsTable(s, p) /\ s.page[p].refcnt = 0
       /\ Maps(s1, home, p, busy, pins, uses, refs1)
       /\ Allocated(s, s1, p, "AnonPrivate")
  BY <1>3, <1>13, PageAllocMaps DEF p
<1> HIDE DEF s1, s2, s3, s4, s5, home
<1>16. home \in [Pages -> PteAddr] /\ home2 \in [Pages -> PteAddr] /\ Moved(home, home2, p, a)
  <2>1. home \in [Pages -> PteAddr]
    BY PagePart DEF Home, home
  <2> QED
    BY <1>4, <2>1 DEF Moved
<1> HIDE DEF home2
<1>17. d # p /\ s1.page[d].use = "PML1" /\ Entry(s1, a) = Entry(s, a) /\ IsAnon(s1, p)
  <2>1. d # p
    BY <1>15 DEF IsTable, TableUses
  <2> QED
    BY <1>2, <1>15, <2>1 DEF Allocated, IsAnon
<1>18. refs1 \in Ledger /\ Plus(refs1, p, -1) = refs
  BY <1>4, PlusAt, PlusBack
<1>19. pins2 \in Ledger /\ Plus(pins2, d, 1) = pins
  BY <1>2, PlusAt, PlusBack
<1>20. uses2 \in Ledger /\ Plus(uses2, d, 1) = uses
  BY <1>2, PlusAt, PlusBack
<1> HIDE DEF refs1, pins2, uses2
<1>21. Maps(s2, home2, NoPage, busy, pins2, uses2, refs)
  <2>1. Named(s1, s2, a, x, p)
    <3>1. Below("PML1") = "AnonPrivate" /\ "PML1" \in TableUses
      BY DEF Below, TableUses
    <3> QED
      BY <1>5, <1>12, <1>13, <1>17, <3>1 DEF Named, IsTable, IsAnon, d
  <2>2. -1 = IF IsAnon(s1, p) THEN -1 ELSE 0
    BY <1>17
  <2>3. Maps(s2, home2, NoPage, busy, Plus(pins, a[1], -1), Plus(uses, a[1], -1),
             Plus(refs1, p, IF IsAnon(s1, p) THEN -1 ELSE 0))
    BY <1>4, <1>5, <1>6, <1>15, <1>16, <1>17, <1>18, <2>1, FillMaps, SMTT(60)
  <2> QED
    BY <1>18, <2>2, <2>3 DEF pins2, uses2, d
<1>22. IsTable(s2, d) /\ \A q \in Pages : s2.page[q].use = s1.page[q].use
                                          /\ s2.page[q].referent = s1.page[q].referent
  BY <1>2, <1>12, <1>13, <1>17 DEF Entered, SameRec, IsTable, TableUses
<1>23. Maps(s3, home2, NoPage, busy, pins, uses, refs)
  <2>1. Maps(s3, home2, NoPage, busy, Plus(pins2, d, 1), Plus(uses2, d, 1), Plus(refs, d, 1 - 1))
    BY <1>2, <1>6, <1>7, <1>11, <1>13, <1>19, <1>20, <1>21, <1>22, AdjustedMaps, 1 \in Int
  <2>2. Plus(refs, d, 1 - 1) = refs
    BY <1>2, PlusBack, 1 - 1 = 0
  <2> QED
    BY <1>19, <1>20, <2>1, <2>2
<1>24. /\ Maps(s4, home2, NoPage, busy, pins, uses, refs)
       /\ \A q \in Pages : /\ s4.page[q].use = s3.page[q].use
                           /\ s4.page[q].referent = s3.page[q].referent
  BY <1>7, <1>8, <1>10, <1>13, <1>16, <1>23, TrimmedMaps
<1>25. Maps(s5, home2, NoPage, busy, pins, uses, refs)
  BY <1>4, <1>8, <1>14, <1>24, ReferentMaps
<1>26. \A q \in Pages : s3.page[q].use = s2.page[q].use /\ s3.page[q].referent = s2.page[q].referent
  BY <1>11, <1>13 DEF Adjusted, SameRec
<1>27. \A q \in Pages \ {p} : s5.page[q].use = s.page[q].use /\ s5.page[q].referent = s.page[q].referent
  BY <1>14, <1>15, <1>22, <1>24, <1>26 DEF Allocated, SameRec, Referred
<1>28. Home(s5) = home2
  <2>1. \A q \in Pages : s5.page[q].referent = home2[q]
    BY <1>14, <1>16, <1>27 DEF Moved, Home, home, Referred
  <2> QED
    BY <1>16, <2>1 DEF Home
<1>29. Kept(s, s5)
  BY <1>4, <1>15, <1>27 DEF Kept
<1> QED
  BY <1>1, <1>25, <1>28, <1>29

(* The uses and the referents stay as they are.                            *)
Steady(s, t) ==
  \A q \in Pages : t.page[q].use = s.page[q].use /\ t.page[q].referent = s.page[q].referent

(* What follows for the PTEs named by the referents.                       *)
LEMMA SteadyHome ==
  ASSUME NEW s, NEW t, Steady(s, t)
  PROVE  Home(t) = Home(s) /\ Kept(s, t)
  BY DEF Steady, Home, Kept

(* A demand fault on a swapped page owes the page and its busy PTE to the  *)
(* thread that reads it in.                                                *)
LEMMA StartReadMaps ==
  ASSUME NEW s \in VmStates, NEW a \in PteAddr, NEW k \in WsKey, CanAlloc(s),
         Placed(s, NoPage), StartRead(s, a, k).panic = NoPanic,
         Entry(s, a).kind = "Swap", s.page[a[1]].use = "PML1",
         NEW busy, NEW pins \in Ledger, NEW uses \in Ledger, NEW refs \in Ledger,
         \A q \in Pages : refs[q] >= 0,
         Maps(s, Home(s), NoPage, busy, pins, uses, refs)
  PROVE  /\ AllocatedPage(s) \in Pages /\ s.page[AllocatedPage(s)].refcnt = 0
         /\ Maps(StartRead(s, a, k), Home(StartRead(s, a, k)), NoPage,
                 busy \cup {<< a, AllocatedPage(s) >>}, pins, uses, refs)
         /\ Kept(s, StartRead(s, a, k))
<1> DEFINE p  == AllocatedPage(s)
           s1 == PageAlloc(s, "AnonPrivate")
           s2 == SetReferent(s1, p, a)
           s3 == SetPte(s2, a, BusyPte)
           s4 == NonswapPteCreated(s3, a[1], FALSE)
           s5 == WslInsert(s4, k, TRUE)
           home  == Home(s)
           home2 == [home EXCEPT ![p] = a]
           busy2 == busy \cup {<< a, p >>}
           d == a[1]
           refs1 == Plus(refs, p, 1)
           pins2 == Plus(pins, d, -1)
<1>1. s5 = StartRead(s, a, k)
  BY DEF StartRead
<1>2. d \in Pages
  BY AddrParts
<1>3. "AnonPrivate" \in PageUse /\ "AnonPrivate" \in TableUses \cup {"AnonPrivate"}
  BY DEF PageUse
<1>4. s1 \in VmStates /\ p \in Pages
  BY <1>3, PageAllocType
<1> HIDE DEF p
<1>5. s2 \in VmStates
  BY <1>4, SetReferentType
<1>6. s3 \in VmStates
  <2>1. 0 \in Nat \cup {NoSlot} /\ FALSE \in BOOLEAN
    OBVIOUS
  <2>2. BusyPte \in Pte
    BY ONLY <1>4, <2>1, PteTypes
  <2> QED
    BY <1>5, <2>2, SetPteType
<1>7. s4 \in VmStates
  BY <1>2, <1>6, NonswapPteCreatedType
<1>8. s5 \in VmStates
  BY <1>7, WslInsertType
<1>9. s5.panic = NoPanic => s4.panic = NoPanic /\ Trimmed(s4, s5)
  BY <1>7, WslInsertEffect
<1>10. s4.panic = NoPanic => s3.panic = NoPanic /\ Adjusted(s3, s4, d, 1, 0, 1)
  BY <1>2, <1>6, NonswapPteCreatedEffect
<1>11. s3.panic = NoPanic => s2.panic = NoPanic /\ Entered(s2, s3, a, BusyPte)
  BY <1>5, SetPteEffect
<1>12. s2.panic = NoPanic => s1.panic = NoPanic /\ Referred(s1, s2, p, a)
  BY <1>4, SetReferentEffect
<1>13. /\ s1.panic = NoPanic /\ s2.panic = NoPanic /\ s3.panic = NoPanic /\ s4.panic = NoPanic
       /\ s5.panic = NoPanic
  BY <1>1, <1>9, <1>10, <1>11, <1>12
<1>14. /\ ~IsTable(s, p) /\ s.page[p].refcnt = 0
       /\ Maps(s1, home, p, busy, pins, uses, refs1)
       /\ Allocated(s, s1, p, "AnonPrivate")
  BY <1>3, <1>13, PageAllocMaps DEF p
<1> HIDE DEF s1, s2, s3, s4, s5, home
<1>15. home \in [Pages -> PteAddr] /\ home2 \in [Pages -> PteAddr] /\ Moved(home, home2, p, a)
  <2>1. home \in [Pages -> PteAddr]
    BY PagePart DEF Home, home
  <2> QED
    BY <1>4, <2>1 DEF Moved
<1> HIDE DEF home2
<1>16. d # p /\ s1.page[d].use = "PML1" /\ Entry(s1, a) = Entry(s, a) /\ IsAnon(s1, p)
  <2>1. d # p
    BY <1>14 DEF IsTable, TableUses
  <2> QED
    BY <1>2, <1>14, <2>1 DEF Allocated, IsAnon
<1>17. refs1 \in Ledger /\ Plus(refs1, p, -1) = refs
  BY <1>4, PlusAt, PlusBack
<1>18. pins2 \in Ledger /\ Plus(pins2, d, 1) = pins
  BY <1>2, PlusAt, PlusBack
<1> HIDE DEF refs1, pins2
<1>19. Maps(s2, home, p, busy, pins, uses, refs1)
  BY <1>4, <1>12, <1>13, <1>14, ReferentMaps
<1>20. /\ Entry(s2, a).kind = "Swap" /\ s2.page[d].use = "PML1" /\ IsAnon(s2, p)
       /\ s2.page[p].referent = a
       /\ \A q \in Pages \ {p} : SameRec(s1, s2, q)
  BY <1>2, <1>4, <1>12, <1>13, <1>16 DEF Referred, Entry, IsAnon, SameRec
<1>21. Maps(s3, home2, NoPage, busy2, pins2, uses, refs)
  <2>1. Maps(s3, home2, NoPage, busy2, Plus(pins, a[1], -1), uses, Plus(refs1, p, -1))
    BY <1>4, <1>5, <1>6, <1>11, <1>13, <1>15, <1>17, <1>19, <1>20, BusyMaps
  <2> QED
    BY <1>17, <2>1 DEF pins2, d
<1>22. Steady(s2, s3)
  BY <1>11, <1>13 DEF Entered, SameRec, Steady
<1>23. IsTable(s3, d)
  BY <1>2, <1>20, <1>22 DEF Steady, IsTable, TableUses
<1>24. Maps(s4, home2, NoPage, busy2, pins, uses, refs)
  <2>1. Maps(s4, home2, NoPage, busy2, Plus(pins2, d, 1), Plus(uses, d, 0), Plus(refs, d, 1 - 1))
    BY <1>2, <1>6, <1>7, <1>10, <1>13, <1>18, <1>21, <1>23, AdjustedMaps, 1 \in Int, 0 \in Int
  <2>2. Plus(refs, d, 1 - 1) = refs /\ Plus(uses, d, 0) = uses
    BY <1>2, PlusBack, 1 - 1 = 0
  <2> QED
    BY <1>18, <2>1, <2>2
<1>25. Steady(s3, s4)
  BY <1>10, <1>13 DEF Adjusted, SameRec, Steady
<1>26. Maps(s5, home2, NoPage, busy2, pins, uses, refs) /\ Steady(s4, s5)
  BY <1>7, <1>8, <1>9, <1>13, <1>15, <1>24, TrimmedMaps, ZenonT(60) DEF Steady
<1>27. Steady(s2, s5)
  BY <1>22, <1>25, <1>26 DEF Steady
<1>28. \A q \in Pages \ {p} : s5.page[q].use = s.page[q].use /\ s5.page[q].referent = s.page[q].referent
  BY <1>14, <1>20, <1>27 DEF Allocated, SameRec, Steady
<1>29. Home(s5) = home2
  <2>1. \A q \in Pages : s5.page[q].referent = home2[q]
    BY <1>4, <1>15, <1>20, <1>27, <1>28 DEF Moved, Home, home, Steady
  <2> QED
    BY <1>15, <2>1 DEF Home
<1>30. Kept(s, s5)
  BY <1>4, <1>14, <1>28 DEF Kept
<1> QED
  BY <1>1, <1>4, <1>14, <1>26, <1>29, <1>30 DEF p

(* A transition fault owes nothing when it is done: the reference it took  *)
(* is that of the PTE.                                                     *)
LEMMA ReclaimMaps ==
  ASSUME NEW s \in VmStates, NEW a \in PteAddr, NEW k \in WsKey, NEW p \in Pages,
         Reclaim(s, a, k, p).panic = NoPanic,
         Entry(s, a).kind = "Trans", Entry(s, a).page = p,
         NEW busy, NEW pins \in Ledger, NEW uses \in Ledger, NEW refs \in Ledger,
         Maps(s, Home(s), NoPage, busy, pins, uses, refs)
  PROVE  /\ Maps(Reclaim(s, a, k, p), Home(Reclaim(s, a, k, p)), NoPage, busy, pins, uses, refs)
         /\ Kept(s, Reclaim(s, a, k, p))
<1> DEFINE x  == HwPte(p, FALSE)
           s1 == PageRetain(s, p)
           s2 == SetPte(s1, a, x)
           s3 == WslInsert(s2, k, FALSE)
           home  == Home(s)
           hole == NoPage
           d == a[1]
           refs1 == Plus(refs, p, 1)
           n == 0
           m == 0
           j == -1
<1>1. s3 = Reclaim(s, a, k, p)
  BY DEF Reclaim
<1>2. d \in Pages
  BY AddrParts
<1>3. x \in Pte /\ x.kind = "Valid" /\ x.page = p
  <2>1. 0 \in Nat \cup {NoSlot} /\ FALSE \in BOOLEAN
    OBVIOUS
  <2>2. x \in Pte
    BY ONLY <2>1, p \in Pages, PteTypes
  <2> QED
    BY <2>2 DEF HwPte, ZeroPte
<1> HIDE DEF x
<1>4. s1 \in VmStates
  BY PageRetainType
<1>5. s2 \in VmStates
  BY <1>3, <1>4, SetPteType
<1>6. s3 \in VmStates
  BY <1>5, WslInsertType
<1>7. s3.panic = NoPanic => s2.panic = NoPanic /\ Trimmed(s2, s3)
  BY <1>5, WslInsertEffect
<1>8. s2.panic = NoPanic => s1.panic = NoPanic /\ Entered(s1, s2, a, x)
  BY <1>4, SetPteEffect
<1>9. s1.panic = NoPanic => Refd(s, s1, p, 1)
  BY PageRetainEffect
<1>10. Trimmed(s2, s3) /\ Entered(s1, s2, a, x) /\ Refd(s, s1, p, 1)
  BY <1>1, <1>7, <1>8, <1>9
<1> HIDE DEF s1, s2, s3, home
<1>11. home \in [Pages -> PteAddr]
  BY PagePart DEF Home, home
<1>12. refs1 \in Ledger /\ Plus(refs1, p, -1) = refs
  BY PlusAt, PlusBack
<1> HIDE DEF refs1
<1>13. Maps(s1, home, NoPage, busy, pins, uses, refs1)
  <2>1. Adjusted(s, s1, p, 1, 0, 0)
    BY <1>10, RefdAdjusted, 1 \in Int
  <2>2. Maps(s1, home, NoPage, busy, Plus(pins, p, 0), Plus(uses, p, 0), Plus(refs, p, 1 - 0))
    BY <1>4, <2>1, AdjustedMaps, 1 \in Int, 0 \in Int DEF home
  <2>3. Plus(pins, p, 0) = pins /\ Plus(uses, p, 0) = uses /\ 1 - 0 = 1
    BY PlusBack
  <2> QED
    BY <2>2, <2>3 DEF refs1
<1>14. Steady(s, s1) /\ \A b : Entry(s1, b) = Entry(s, b)
  BY <1>10 DEF Refd, SameRec, Steady, Entry
<1>15. /\ IsTable(s, d) /\ IsAnon(s, p) /\ home[p] = a /\ s.page[d].use = "PML1"
       /\ Below(s.page[d].use) = "AnonPrivate"
  <2>1. /\ IsTable(s, d) /\ s.page[p].use = Below(s.page[d].use) /\ home[p] = a
        /\ s.page[d].use = "PML1"
    BY DEF Maps, Linked, PtesLinked, home
  <2> QED
    BY <2>1 DEF Below, IsAnon
<1>16. << a, p >> \notin busy
  BY DEF Maps, Linked, BusyLinked
<1>17. Named(s1, s2, a, x, p) /\ MayName(s1, hole, busy, a, p) /\ Moved(home, home, p, a)
       /\ Filled(hole, p) = NoPage
  BY <1>2, <1>3, <1>10, <1>14, <1>15, ConstantTypes
  DEF Named, MayName, Moved, Filled, Steady, IsTable, IsAnon
<1>18. n \in Int /\ n = InBit(Entry(s1, a)) - 1 /\ m \in Int /\ m <= UseBit(Entry(s1, a)) - 1
  BY <1>14 DEF InBit, UseBit
<1>19. j \in Int /\ j = Returned(s1, hole, a, x, p)
  BY <1>3, <1>14, <1>15 DEF Returned, IsAnon, Steady
<1>20. Maps(s1, home, hole, busy, pins, uses, refs1)
  BY <1>13
<1> HIDE DEF hole, n, m, j
<1>21. Maps(s2, home, Filled(hole, p), busy \ {<< a, p >>},
            Plus(pins, a[1], n), Plus(uses, a[1], m), Plus(refs1, p, j))
  BY <1>4, <1>5, <1>11, <1>12, <1>17, <1>18, <1>19, <1>20, NamedMaps, ZenonT(60)
<1>22. Maps(s2, home, NoPage, busy, pins, uses, refs)
  <2>1. busy \ {<< a, p >>} = busy
    BY <1>16
  <2>2. Plus(pins, a[1], n) = pins /\ Plus(uses, a[1], m) = uses /\ Plus(refs1, p, j) = refs
    BY <1>2, <1>12, PlusBack DEF n, m, j, d
  <2> QED
    BY <1>17, <1>21, <2>1, <2>2
<1>23. Steady(s1, s2)
  BY <1>10 DEF Entered, SameRec, Steady
<1>24. Maps(s3, home, NoPage, busy, pins, uses, refs) /\ Steady(s2, s3)
  BY <1>5, <1>6, <1>10, <1>11, <1>22, TrimmedMaps DEF Steady
<1>25. Steady(s, s3)
  BY <1>14, <1>23, <1>24 DEF Steady
<1> QED
  BY <1>1, <1>24, <1>25, SteadyHome DEF home

(* A valid PTE is replaced by one of the same page.                        *)
LEMMA RevalidatedMaps ==
  ASSUME NEW s \in VmStates, NEW a \in PteAddr, NEW p \in Pages, NEW w \in BOOLEAN,
         SetPte(s, a, HwPte(p, w)).panic = NoPanic,
         NEW busy, NEW busy2,
         \/ Entry(s, a).kind = "Valid" /\ Entry(s, a).page = p /\ busy2 = busy
         \/ << a, p >> \in busy /\ busy2 = busy \ {<< a, p >>},
         NEW pins \in Ledger, NEW uses \in Ledger, NEW refs \in Ledger,
         Maps(s, Home(s), NoPage, busy, pins, uses, refs)
  PROVE  /\ Maps(SetPte(s, a, HwPte(p, w)), Home(s), NoPage, busy2, pins, uses, refs)
         /\ Steady(s, SetPte(s, a, HwPte(p, w))) /\ SetPte(s, a, HwPte(p, w)) \in VmStates
<1> DEFINE x == HwPte(p, w)
           t == SetPte(s, a, x)
           home == Home(s)
           hole == NoPage
           d == a[1]
           n == 0
           m == 0
           j == 0
<1>1. d \in Pages
  BY AddrParts
<1>2. x \in Pte /\ x.kind = "Valid" /\ x.page = p
  <2>1. 0 \in Nat \cup {NoSlot}
    OBVIOUS
  <2>2. x \in Pte
    BY ONLY <2>1, p \in Pages, w \in BOOLEAN, PteTypes
  <2> QED
    BY <2>2 DEF HwPte, ZeroPte
<1> HIDE DEF x
<1>3. t \in VmStates
  BY <1>2, SetPteType
<1>4. Entered(s, t, a, x)
  BY SetPteEffect DEF x
<1> HIDE DEF t, home
<1>5. home \in [Pages -> PteAddr]
  BY PagePart DEF Home, home
<1>6. PtesLinked(s, home, NoPage) /\ BusyLinked(s, home, NoPage, busy)
  BY DEF Maps, Linked, home
<1>7. /\ IsTable(s, d) /\ s.page[p].use = Below(s.page[d].use) /\ home[p] = a
      /\ Entry(s, a).kind \in {"Valid", "Busy"}
      /\ busy2 = busy \ {<< a, p >>} /\ MayName(s, hole, busy, a, p)
  <2>1. CASE Entry(s, a).kind = "Valid" /\ Entry(s, a).page = p /\ busy2 = busy
    <3>1. IsTable(s, d) /\ s.page[p].use = Below(s.page[d].use) /\ home[p] = a
      BY <1>6, <2>1 DEF PtesLinked
    <3>2. << a, p >> \notin busy
      BY <1>6, <2>1 DEF BusyLinked
    <3> QED
      BY <2>1, <3>1, <3>2 DEF MayName
  <2>2. CASE << a, p >> \in busy /\ busy2 = busy \ {<< a, p >>}
    <3>1. /\ Entry(s, a).kind = "Busy" /\ s.page[d].use = "PML1" /\ home[p] = a
          /\ s.page[p].use = "AnonPrivate"
      BY <1>6, <2>2 DEF BusyLinked, IsAnon
    <3> QED
      BY <2>2, <3>1 DEF MayName, IsTable, TableUses, Below
  <2> QED
    BY <2>1, <2>2
<1>8. Named(s, t, a, x, p) /\ Moved(home, home, p, a) /\ Filled(hole, p) = NoPage
  BY <1>2, <1>4, <1>7, ConstantTypes DEF Named, Moved, Filled
<1>9. n \in Int /\ n = InBit(Entry(s, a)) - 1 /\ m \in Int /\ m <= UseBit(Entry(s, a)) - 1
  BY <1>7 DEF InBit, UseBit
<1>10. j \in Int /\ j = Returned(s, hole, a, x, p)
  <2>1. hole # p
    BY ConstantTypes DEF NoPage, Pages
  <2> QED
    BY <1>2, <1>7, <2>1 DEF Returned
<1>11. Maps(s, home, hole, busy, pins, uses, refs)
  BY DEF home
<1> HIDE DEF hole, n, m, j
<1>12. Maps(t, home, Filled(hole, p), busy \ {<< a, p >>},
            Plus(pins, a[1], n), Plus(uses, a[1], m), Plus(refs, p, j))
  BY <1>3, <1>5, <1>7, <1>8, <1>9, <1>10, <1>11, NamedMaps, ZenonT(60)
<1>13. Plus(pins, a[1], n) = pins /\ Plus(uses, a[1], m) = uses /\ Plus(refs, p, j) = refs
  BY <1>1, PlusBack DEF n, m, j, d
<1>14. Steady(s, t)
  BY <1>4 DEF Entered, SameRec, Steady
<1> QED
  BY <1>3, <1>7, <1>8, <1>12, <1>13, <1>14 DEF t, x, home

(* A page table that is wired owes a PTE and a use to the thread.          *)
LEMMA WiredMaps ==
  ASSUME NEW s \in VmStates, NEW p \in Pages, IsTable(s, p),
         NonswapPteCreated(s, p, TRUE).panic = NoPanic,
         NEW busy, NEW pins \in Ledger, NEW uses \in Ledger, NEW refs \in Ledger,
         Maps(s, Home(s), NoPage, busy, pins, uses, refs)
  PROVE  /\ Maps(NonswapPteCreated(s, p, TRUE), Home(NonswapPteCreated(s, p, TRUE)), NoPage,
                 busy, Plus(pins, p, 1), Plus(uses, p, 1), refs)
         /\ Steady(s, NonswapPteCreated(s, p, TRUE))
         /\ NonswapPteCreated(s, p, TRUE).table = s.table
<1> DEFINE t == NonswapPteCreated(s, p, TRUE)
<1>1. t \in VmStates /\ Adjusted(s, t, p, 1, 1, 1)
  BY NonswapPteCreatedType, NonswapPteCreatedEffect
<1> HIDE DEF t
<1>2. Maps(t, Home(s), NoPage, busy, Plus(pins, p, 1), Plus(uses, p, 1), Plus(refs, p, 1 - 1))
  BY <1>1, AdjustedMaps, 1 \in Int
<1>3. Plus(refs, p, 1 - 1) = refs
  BY PlusBack, 1 - 1 = 0
<1>4. Steady(s, t) /\ t.table = s.table
  BY <1>1 DEF Adjusted, SameRec, Steady
<1> QED
  BY <1>2, <1>3, <1>4, SteadyHome DEF t

(* The page writer takes or drops a reference.                             *)
LEMMA RefdMaps ==
  ASSUME NEW s \in VmStates, NEW t \in VmStates, NEW p \in Pages, NEW n \in Int, Refd(s, t, p, n),
         NEW busy, NEW pins \in Ledger, NEW uses \in Ledger, NEW refs \in Ledger,
         Maps(s, Home(s), NoPage, busy, pins, uses, refs)
  PROVE  Maps(t, Home(t), NoPage, busy, pins, uses, Plus(refs, p, n)) /\ Steady(s, t)
<1>1. Adjusted(s, t, p, n, 0, 0)
  BY RefdAdjusted
<1>2. Maps(t, Home(s), NoPage, busy, Plus(pins, p, 0), Plus(uses, p, 0), Plus(refs, p, n - 0))
  BY <1>1, AdjustedMaps, 0 \in Int
<1>3. Plus(pins, p, 0) = pins /\ Plus(uses, p, 0) = uses /\ n - 0 = n
  BY PlusBack
<1>4. Steady(s, t)
  BY DEF Refd, SameRec, Steady
<1> QED
  BY <1>2, <1>3, <1>4, SteadyHome

(* A new table counts the wiring it is made for.                           *)
OneWiring(s, p) == [s EXCEPT !.page[p].nonzero = @ + 1, !.page[p].nonswap = @ + 1]

(* ... and keeps its references.                                           *)
LEMMA TableCounted ==
  ASSUME NEW s \in VmStates, NEW p \in Pages
  PROVE  OneWiring(s, p) \in VmStates /\ Adjusted(s, OneWiring(s, p), p, 0, 1, 1)
<1> DEFINE n == s.page[p].nonzero + 1
           m == s.page[p].nonswap + 1
           t == [s EXCEPT !.page[p].nonzero = n, !.page[p].nonswap = m]
<1>1. n \in Int /\ m \in Int
  BY PagePart
<1>2. t \in VmStates /\ t = OneWiring(s, p)
  <2>1. s.page[p].use \in PageUse /\ s.page[p].referent \in PteAddr
    BY PagePart
  <2>2. t = OneWiring(s, p)
    BY Zenon DEF OneWiring
  <2> HIDE DEF n, m
  <2>3. t \in VmStates
    BY <1>1, <2>1, TwoFieldsType, Zenon
  <2> QED
    BY <2>2, <2>3
<1> HIDE DEF n, m
<1>3. /\ t.table = s.table
      /\ t.page = [s.page EXCEPT ![p].nonzero = n, ![p].nonswap = m]
  BY DEF VmStates
<1>4. s.page \in PageDb
  BY Parts
<1>5. \A q \in Pages \ {p} : t.page[q] = s.page[q]
  BY <1>3, <1>4 DEF PageDb
<1>6. /\ t.page[p].use = s.page[p].use /\ t.page[p].refcnt = s.page[p].refcnt
      /\ t.page[p].nonzero = n /\ t.page[p].nonswap = m
      /\ t.page[p].referent = s.page[p].referent
  BY <1>3, <1>4 DEF PageDb, PageRec
<1>7. s.page[p].refcnt = s.page[p].refcnt + 0
  BY PagePart, SMTT(60)
<1>8. Adjusted(s, t, p, 0, 1, 1)
  BY <1>3, <1>5, <1>6, <1>7 DEF Adjusted, SameRec, n, m
<1> QED
  BY <1>2, <1>8

(* Entry i of dir, at a, is zero, and page p may be the table it names.    *)
Enterable(s, dir, i, a, p) ==
  /\ IsTable(s, p) /\ IsTable(s, dir) /\ dir # p /\ a = << dir, i >>
  /\ s.page[p].use = Below(s.page[dir].use) /\ Entry(s, a).kind = "Zero"

NewEntry(s, dir, i, p) == EnterTable(s, dir, i, p, TRUE)

(* A new table p, which owes the reference of the working set, is entered  *)
(* in its directory.                                                       *)
LEMMA EnterTableMaps ==
  ASSUME NEW s \in VmStates, NEW dir \in Pages, NEW i \in Idx, NEW p \in Pages,
         NewEntry(s, dir, i, p).panic = NoPanic, NEW a, Enterable(s, dir, i, a, p),
         NEW home \in [Pages -> PteAddr], NEW busy,
         NEW home2 \in [Pages -> PteAddr], Moved(home, home2, p, a),
         NEW pins \in Ledger, NEW uses \in Ledger, NEW refs1 \in Ledger,
         Maps(s, home, p, busy, pins, uses, refs1)
  PROVE  /\ Maps(NewEntry(s, dir, i, p), home2, NoPage, busy,
                 Plus(pins, p, 1), Plus(uses, p, 1), Plus(refs1, p, -1))
         /\ Steady(s, NewEntry(s, dir, i, p))
<1> DEFINE x  == HwPte(p, TRUE)
           c  == OneWiring(s, p)
           s1 == Then(s, c)
           k  == TableKey(p)
           s2 == WslInsert(s1, k, TRUE)
           s3 == NonswapPteCreated(s2, dir, TRUE)
           s4 == SetPte(s3, a, x)
           refs == Plus(refs1, p, -1)
           pins1 == Plus(pins, p, 1)
           uses1 == Plus(uses, p, 1)
           pins2 == Plus(pins1, dir, 1)
           uses2 == Plus(uses1, dir, 1)
<1>1. /\ IsTable(s, p) /\ IsTable(s, dir) /\ s.page[p].use = Below(s.page[dir].use)
      /\ Entry(s, a).kind = "Zero" /\ a = << dir, i >>
  BY DEF Enterable
<1>2. s4 = NewEntry(s, dir, i, p)
  BY <1>1 DEF NewEntry, EnterTable, OneWiring
<1>3. a \in PteAddr /\ a[1] = dir /\ k \in WsKey
  BY <1>1, TableKeyType DEF PteAddr
<1>4. x \in Pte /\ x.kind = "Valid" /\ x.page = p
  <2>1. 0 \in Nat \cup {NoSlot} /\ TRUE \in BOOLEAN
    OBVIOUS
  <2>2. x \in Pte
    BY ONLY <2>1, p \in Pages, PteTypes
  <2> QED
    BY <2>2 DEF HwPte, ZeroPte
<1> HIDE DEF x
<1>5. c \in VmStates /\ Adjusted(s, c, p, 0, 1, 1)
  BY TableCounted
<1> HIDE DEF c
<1>6. s1 \in VmStates
  BY <1>5 DEF Then
<1>7. s2 \in VmStates
  BY <1>3, <1>6, WslInsertType
<1>8. s3 \in VmStates
  BY <1>7, NonswapPteCreatedType
<1>9. s4 \in VmStates
  BY <1>3, <1>4, <1>8, SetPteType
<1>10. s4.panic = NoPanic => s3.panic = NoPanic /\ Entered(s3, s4, a, x)
  BY <1>3, <1>8, SetPteEffect
<1>11. s3.panic = NoPanic => s2.panic = NoPanic /\ Adjusted(s2, s3, dir, 1, 1, 1)
  BY <1>7, NonswapPteCreatedEffect
<1>12. s2.panic = NoPanic => s1.panic = NoPanic /\ Trimmed(s1, s2)
  BY <1>3, <1>6, WslInsertEffect
<1>13. s1.panic = NoPanic => s1 = c
  BY ThenPassed
<1>14. /\ Entered(s3, s4, a, x) /\ Adjusted(s2, s3, dir, 1, 1, 1) /\ Trimmed(s1, s2)
       /\ Adjusted(s, s1, p, 0, 1, 1)
  BY <1>2, <1>5, <1>10, <1>11, <1>12, <1>13
<1> HIDE DEF k, s1, s2, s3, s4
<1>15. refs \in Ledger /\ pins1 \in Ledger /\ uses1 \in Ledger /\ Plus(refs1, p, 0 - 1) = refs
  BY PlusAt, 0 - 1 = -1
<1>16. /\ pins2 \in Ledger /\ uses2 \in Ledger
       /\ Plus(pins2, dir, -1) = pins1 /\ Plus(uses2, dir, -1) = uses1
  BY <1>15, PlusAt, PlusBack
<1> HIDE DEF refs, pins1, uses1, pins2, uses2
<1>17. Maps(s1, home, p, busy, pins1, uses1, refs)
  <2>1. Maps(s1, home, p, busy, Plus(pins, p, 1), Plus(uses, p, 1), Plus(refs1, p, 0 - 1))
    BY <1>1, <1>6, <1>14, <1>15, AdjustedMaps, 0 \in Int, 1 \in Int
  <2> QED
    BY <1>15, <2>1 DEF pins1, uses1
<1>18. Steady(s, s1) /\ Entry(s1, a) = Entry(s, a)
  BY <1>14 DEF Adjusted, SameRec, Steady, Entry
<1>19. Maps(s2, home, p, busy, pins1, uses1, refs) /\ Steady(s1, s2)
  BY <1>6, <1>7, <1>14, <1>15, <1>17, TrimmedMaps, SMTT(60) DEF Steady
<1>20. Entry(s2, a) = Entry(s1, a)
  <2>1. Entry(s1, a).kind # "Valid"
    BY <1>1, <1>18
  <2> QED
    BY <1>3, <1>6, <1>7, <1>14, <1>15, <1>17, <2>1, TrimmedMaps
<1>21. Steady(s, s2)
  BY <1>18, <1>19 DEF Steady
<1>22. Maps(s3, home, p, busy, pins2, uses2, refs)
  <2>1. IsTable(s2, dir)
    BY <1>1, <1>21 DEF Steady, IsTable
  <2>2. Maps(s3, home, p, busy, Plus(pins1, dir, 1), Plus(uses1, dir, 1), Plus(refs, dir, 1 - 1))
    BY <1>7, <1>8, <1>14, <1>15, <1>19, <2>1, AdjustedMaps, 1 \in Int
  <2>3. Plus(refs, dir, 1 - 1) = refs
    BY <1>15, PlusBack, 1 - 1 = 0
  <2> QED
    BY <2>2, <2>3 DEF pins2, uses2
<1>23. Steady(s2, s3) /\ Entry(s3, a) = Entry(s2, a)
  BY <1>14 DEF Adjusted, SameRec, Steady, Entry
<1>24. Steady(s, s3)
  BY <1>21, <1>23 DEF Steady
<1>25. /\ Named(s3, s4, a, x, p) /\ ~IsAnon(s3, p) /\ Entry(s3, a).kind = "Zero"
  <2>1. IsTable(s3, dir) /\ IsTable(s3, p) /\ s3.page[p].use = Below(s3.page[dir].use)
    BY <1>1, <1>24 DEF Steady, IsTable
  <2>2. Entry(s3, a).kind = "Zero"
    BY <1>1, <1>18, <1>20, <1>23
  <2> QED
    BY <1>3, <1>4, <1>14, <2>1, <2>2 DEF Named, IsAnon, IsTable, TableUses
<1>26. Maps(s4, home2, NoPage, busy, pins1, uses1, refs)
  <2>1. Maps(s4, home2, NoPage, busy, Plus(pins2, a[1], -1), Plus(uses2, a[1], -1),
             Plus(refs, p, IF IsAnon(s3, p) THEN -1 ELSE 0))
    BY <1>3, <1>4, <1>8, <1>9, <1>15, <1>16, <1>22, <1>25, FillMaps
  <2>2. Plus(refs, p, IF IsAnon(s3, p) THEN -1 ELSE 0) = refs
    BY <1>15, <1>25, PlusBack
  <2> QED
    BY <1>3, <1>16, <2>1, <2>2
<1>27. Steady(s3, s4)
  BY <1>14 DEF Entered, SameRec, Steady
<1>28. Steady(s, s4)
  BY <1>24, <1>27 DEF Steady
<1> QED
  BY <1>2, <1>26, <1>28 DEF pins1, uses1, refs

(* What is owed when a table is allocated: the wiring it is made for.      *)
LEMMA NewTableMaps ==
  ASSUME NEW s \in VmStates, NEW dir \in Pages, NEW i \in Idx, NEW use \in TableUses,
         Placed(s, NoPage), NewTable(s, dir, i, use).panic = NoPanic,
         Entry(s, << dir, i >>).kind = "Zero", IsTable(s, dir), use = Below(s.page[dir].use),
         NEW busy, NEW pins \in Ledger, NEW uses \in Ledger, NEW refs \in Ledger,
         \A q \in Pages : refs[q] >= 0,
         Maps(s, Home(s), NoPage, busy, pins, uses, refs)
  PROVE  \E p \in Pages :
           /\ Maps(NewTable(s, dir, i, use), Home(NewTable(s, dir, i, use)), NoPage, busy,
                   Plus(pins, p, 1), Plus(uses, p, 1), refs)
           /\ Kept(s, NewTable(s, dir, i, use))
           /\ Entry(NewTable(s, dir, i, use), << dir, i >>).page = p
           /\ NewTable(s, dir, i, use).page[p].use = use
<1> DEFINE p  == AllocatedPage(s)
           a  == << dir, i >>
           s1 == PageAlloc(s, use)
           s2 == PageRetain(s1, p)
           s3 == SetReferent(s2, p, a)
           s4 == NewEntry(s3, dir, i, p)
           home  == Home(s)
           home2 == [home EXCEPT ![p] = a]
           refs1 == Plus(refs, p, 1)
           r == NewTable(s, dir, i, use)
<1>1. r = Kassert(s, CanAlloc(s), "tables.c:226", s4)
  BY DEF NewTable, NewEntry
<1> HIDE DEF s4
<1>2. s.panic = NoPanic /\ CanAlloc(s) /\ r = s4
  BY <1>1, PanicSeen DEF Kassert, Then, NoPanic
<1> HIDE DEF r
<1>3. use \in PageUse /\ use \in TableUses \cup {"AnonPrivate"} /\ use # "AnonPrivate"
  BY DEF PageUse, TableUses
<1>4. s1 \in VmStates /\ p \in Pages /\ a \in PteAddr
  BY <1>2, <1>3, PageAllocType DEF PteAddr
<1> HIDE DEF p, a
<1>5. s2 \in VmStates
  BY <1>4, PageRetainType
<1>6. s3 \in VmStates
  BY <1>4, <1>5, SetReferentType
<1>7. s4.panic = NoPanic => s3.panic = NoPanic
  <2> DEFINE c == OneWiring(s3, p)
             t1 == Then(s3, c)
             t2 == WslInsert(t1, TableKey(p), TRUE)
             t3 == NonswapPteCreated(t2, dir, TRUE)
             t4 == SetPte(t3, << dir, i >>, HwPte(p, TRUE))
  <2>1. t4 = s4
    BY DEF NewEntry, EnterTable, OneWiring, s4
  <2> HIDE DEF s3
  <2>2. c \in VmStates
    BY <1>4, <1>6, TableCounted
  <2> HIDE DEF c
  <2>3. t1 \in VmStates
    BY <1>6, <2>2 DEF Then
  <2>4. t2 \in VmStates /\ TableKey(p) \in WsKey
    BY <1>4, <2>3, TableKeyType, WslInsertType
  <2>5. t4.panic = NoPanic => t3.panic = NoPanic
    BY DEF SetPte, Then
  <2>6. t3.panic = NoPanic => t2.panic = NoPanic
    BY <2>4, NonswapPteCreatedEffect
  <2>7. t2.panic = NoPanic => t1.panic = NoPanic
    BY <2>3, <2>4, WslInsertEffect
  <2>8. t1.panic = NoPanic => s3.panic = NoPanic
    BY ThenPassed
  <2> QED
    BY <2>1, <2>5, <2>6, <2>7, <2>8
<1>8. s3.panic = NoPanic => s2.panic = NoPanic /\ Referred(s2, s3, p, a)
  BY <1>4, <1>5, SetReferentEffect
<1>9. s2.panic = NoPanic => s1.panic = NoPanic /\ Refd(s1, s2, p, 1)
  BY <1>4, PageRetainEffect
<1>10. /\ s1.panic = NoPanic /\ Refd(s1, s2, p, 1) /\ Referred(s2, s3, p, a)
       /\ s4.panic = NoPanic
  BY <1>2, <1>7, <1>8, <1>9 DEF r
<1>11. /\ ~IsTable(s, p) /\ s.page[p].refcnt = 0
       /\ Maps(s1, home, p, busy, pins, uses, refs)
       /\ Allocated(s, s1, p, use)
  <2> DEFINE j == IF use = "AnonPrivate" THEN 1 ELSE 0
  <2>1. /\ ~IsTable(s, p) /\ s.page[p].refcnt = 0
        /\ Maps(s1, home, p, busy, pins, uses, Plus(refs, p, j))
        /\ Allocated(s, s1, p, use)
    BY <1>2, <1>3, <1>10, PageAllocMaps DEF p
  <2>2. Plus(refs, p, j) = refs
    BY <1>3, <1>4, PlusBack
  <2> QED
    BY <2>1, <2>2
<1>12. s4 = NewEntry(s3, dir, i, p)
  BY DEF s4
<1> HIDE DEF s1, s2, s3, home
<1>13. home \in [Pages -> PteAddr] /\ home2 \in [Pages -> PteAddr] /\ Moved(home, home2, p, a)
  <2>1. home \in [Pages -> PteAddr]
    BY PagePart DEF Home, home
  <2> QED
    BY <1>4, <2>1 DEF Moved
<1> HIDE DEF home2
<1>14. refs1 \in Ledger /\ Plus(refs1, p, -1) = refs
  BY <1>4, PlusAt, PlusBack
<1> HIDE DEF refs1
<1>15. Maps(s2, home, p, busy, pins, uses, refs1)
  <2>1. Adjusted(s1, s2, p, 1, 0, 0)
    BY <1>4, <1>10, RefdAdjusted, 1 \in Int
  <2>2. Maps(s2, home, p, busy, Plus(pins, p, 0), Plus(uses, p, 0), Plus(refs, p, 1 - 0))
    BY <1>4, <1>5, <1>11, <2>1, AdjustedMaps, 1 \in Int, 0 \in Int
  <2>3. Plus(pins, p, 0) = pins /\ Plus(uses, p, 0) = uses /\ 1 - 0 = 1
    BY <1>4, PlusBack
  <2> QED
    BY <2>2, <2>3 DEF refs1
<1>16. Steady(s1, s2) /\ Entry(s2, a) = Entry(s1, a)
  BY <1>10 DEF Refd, SameRec, Steady, Entry
<1>17. Maps(s3, home, p, busy, pins, uses, refs1)
  BY <1>4, <1>5, <1>10, <1>15, ReferentMaps
<1>18. /\ Entry(s3, a) = Entry(s2, a) /\ s3.page[p].referent = a
       /\ \A q \in Pages : s3.page[q].use = s2.page[q].use
       /\ \A q \in Pages \ {p} : s3.page[q].referent = s2.page[q].referent
  BY <1>4, <1>10 DEF Referred, SameRec, Entry
<1>19. /\ s3.page[p].use = use
       /\ \A q \in Pages \ {p} : /\ s3.page[q].use = s.page[q].use
                                 /\ s3.page[q].referent = s.page[q].referent
  BY <1>4, <1>11, <1>16, <1>18 DEF Allocated, Steady
<1>20. dir # p
  BY <1>11
<1>21. Entry(s3, a).kind = "Zero"
  <2>1. Entry(s1, a) = Entry(s, a)
    BY <1>4, <1>11, <1>20 DEF Allocated, a
  <2> QED
    BY <1>16, <1>18, <2>1 DEF a
<1>22. IsTable(s3, p) /\ IsTable(s3, dir) /\ s3.page[p].use = Below(s3.page[dir].use)
  BY <1>19, <1>20 DEF IsTable
<1>23. /\ Maps(s4, home2, NoPage, busy, Plus(pins, p, 1), Plus(uses, p, 1), refs)
       /\ Steady(s3, s4) /\ Entry(s4, a).page = p
  <2>1. Enterable(s3, dir, i, a, p) /\ NewEntry(s3, dir, i, p).panic = NoPanic
    BY <1>10, <1>12, <1>20, <1>21, <1>22 DEF Enterable, a
  <2>2. /\ Maps(NewEntry(s3, dir, i, p), home2, NoPage, busy,
                Plus(pins, p, 1), Plus(uses, p, 1), Plus(refs1, p, -1))
        /\ Steady(s3, NewEntry(s3, dir, i, p))
    BY <1>4, <1>6, <1>13, <1>14, <1>17, <2>1, EnterTableMaps
  <2>3. IsTable(s4, p) /\ ~IsAnon(s4, p)
    BY <1>4, <1>12, <1>22, <2>2 DEF Steady, IsTable, IsAnon, TableUses
  <2>4. p \in Pages \ {Root, NoPage}
    <3>1. p # Root
      BY <1>11, UseFacts DEF Maps, Linked
    <3> QED
      BY <1>4, <3>1, ConstantTypes DEF NoPage, Pages
  <2>5. PagesLinked(s4, home2, NoPage, busy) /\ BusyLinked(s4, home2, NoPage, busy)
    BY <1>12, <2>2 DEF Maps, Linked
  <2>6. home2[p] = a /\ << a, p >> \notin busy
    BY <1>4, <1>13, <2>3, <2>5 DEF Moved, BusyLinked
  <2>7. Entry(s4, a).page = p
    BY <2>3, <2>4, <2>5, <2>6 DEF PagesLinked
  <2> QED
    BY <1>12, <1>14, <2>2, <2>7
<1>24. Home(s4) = home2
  <2>1. \A q \in Pages : s4.page[q].referent = home2[q]
    BY <1>13, <1>18, <1>19, <1>23 DEF Moved, Home, home, Steady
  <2> QED
    BY <1>13, <2>1 DEF Home
<1>25. Kept(s, s4) /\ s4.page[p].use = use
  BY <1>4, <1>11, <1>19, <1>23, SMTT(60) DEF Kept, Steady
<1> QED
  BY <1>2, <1>4, <1>23, <1>24, <1>25 DEF r, a

(* Wiring the next level owes one wiring of the table that the PTE of the  *)
(* directory then names.                                                   *)
LEMMA WireTableMaps ==
  ASSUME NEW s \in VmStates, NEW dir \in Pages, NEW i \in Idx, NEW use \in TableUses,
         Placed(s, NoPage), WireTable(s, dir, i, use).panic = NoPanic,
         IsTable(s, dir), use = Below(s.page[dir].use),
         NEW busy, NEW pins \in Ledger, NEW uses \in Ledger, NEW refs \in Ledger,
         \A q \in Pages : refs[q] >= 0,
         Maps(s, Home(s), NoPage, busy, pins, uses, refs)
  PROVE  \E p \in Pages :
           /\ Maps(WireTable(s, dir, i, use), Home(WireTable(s, dir, i, use)), NoPage, busy,
                   Plus(pins, p, 1), Plus(uses, p, 1), refs)
           /\ Kept(s, WireTable(s, dir, i, use))
           /\ Entry(WireTable(s, dir, i, use), << dir, i >>).page = p
           /\ WireTable(s, dir, i, use).page[p].use = use
<1> DEFINE a == << dir, i >>
           p == Entry(s, a).page
           t == WireTable(s, dir, i, use)
<1>1. a \in PteAddr /\ a[1] = dir /\ Entry(s, a) = s.table[dir][i]
  BY DEF PteAddr, Entry
<1>2. p \in Pages /\ Entry(s, a).kind \in PteKind
  BY <1>1, EntryPart
<1>3. Entry(s, a).kind \in {"Valid", "Trans"} =>
        s.page[p].use = use /\ (Entry(s, a).kind = "Trans" => s.page[dir].use = "PML1")
  BY <1>1, Zenon DEF Maps, Linked, PtesLinked
<1>4. CASE Entry(s, a).kind = "Valid"
  <2>1. t = NonswapPteCreated(s, p, TRUE)
    BY <1>1, <1>4 DEF WireTable
  <2>2. IsTable(s, p)
    BY <1>3, <1>4 DEF IsTable
  <2> HIDE DEF p, t
  <2>3. NonswapPteCreated(s, p, TRUE).panic = NoPanic
    BY <2>1 DEF t
  <2>4. /\ Maps(t, Home(t), NoPage, busy, Plus(pins, p, 1), Plus(uses, p, 1), refs)
        /\ Steady(s, t) /\ t.table = s.table
    BY <1>2, <2>1, <2>2, <2>3, WiredMaps
  <2>5. Kept(s, t) /\ Entry(t, a) = Entry(s, a) /\ t.page[p].use = use
    BY <1>2, <1>3, <1>4, <2>4, SteadyHome DEF Entry, Steady, p
  <2> QED
    BY <1>2, <2>4, <2>5 DEF t, p
<1>5. CASE Entry(s, a).kind = "Trans"
  <2>1. use = "AnonPrivate"
    BY <1>3, <1>5 DEF Below
  <2> QED
    BY <2>1 DEF TableUses
<1>6. CASE Entry(s, a).kind = "Zero"
  <2>1. t = NewTable(s, dir, i, use)
    BY <1>1, <1>6 DEF WireTable
  <2> QED
    BY <1>6, <2>1, NewTableMaps
<1>7. CASE Entry(s, a).kind \in {"Busy", "Swap"}
  <2>1. t = Kfatal(s, "tables.c:203") \/ t = Kfatal(s, "tables.c:216")
    BY <1>1, <1>7 DEF WireTable
  <2> QED
    BY <2>1, KfatalPassed DEF NoPanic
<1> QED
  BY <1>2, <1>4, <1>5, <1>6, <1>7 DEF PteKind

-----------------------------------------------------------------------------
(* The working set entry of a table that is freed.                         *)
LEMMA ForgetTableEffect ==
  ASSUME NEW s \in VmStates, NEW p \in Pages, ForgetTable(s, p).panic = NoPanic
  PROVE  s.panic = NoPanic /\ Same(s, ForgetTable(s, p))
<1> DEFINE k == TableKey(p)
           u == WslUnlockEntry(s, k)
           r == WslRemove(u, k)
           w == WslRemove(s, k)
<1>1. k \in WsKey
  BY TableKeyType
<1> HIDE DEF k
<1>2. u \in VmStates
  BY <1>1, WslUnlockEntryType
<1>3. u.panic = NoPanic => s.panic = NoPanic /\ Same(s, u)
  BY WslEntryEffect
<1> HIDE DEF u
<1>4. r.panic = NoPanic => u.panic = NoPanic /\ Same(u, r)
  BY <1>2, WslEntryEffect
<1>5. w.panic = NoPanic => s.panic = NoPanic /\ Same(s, w)
  BY WslEntryEffect
<1>6. ForgetTable(s, p) \in {r, w, Kfatal(s, "tables.c:59")}
  BY DEF ForgetTable, k, u
<1> HIDE DEF r, w
<1>7. Kfatal(s, "tables.c:59").panic # NoPanic
  BY KfatalPassed DEF NoPanic
<1>8. CASE ForgetTable(s, p) = r
  BY <1>3, <1>4, <1>8, SameThen
<1>9. CASE ForgetTable(s, p) = w
  BY <1>5, <1>9, Zenon
<1> QED
  BY <1>6, <1>7, <1>8, <1>9

(* The PTE at a is zeroed, and its directory counts it no more.            *)
Unmapped(s, t, a) ==
  /\ \A b \in PteAddr : Entry(t, b) = IF b = a THEN ZeroPte ELSE Entry(s, b)
  /\ \A q \in Pages \ {a[1]} : SameRec(s, t, q)
  /\ t.page[a[1]].use = s.page[a[1]].use /\ t.page[a[1]].refcnt = s.page[a[1]].refcnt + (-1)
  /\ t.page[a[1]].nonzero = s.page[a[1]].nonzero + (-1)
  /\ t.page[a[1]].nonswap = s.page[a[1]].nonswap + (-1)
  /\ t.page[a[1]].referent = s.page[a[1]].referent

(* vmp_md_delete_table_pointers().                                         *)
LEMMA DeleteTablePointersEffect ==
  ASSUME NEW s \in VmStates, NEW p \in Pages, DeleteTablePointers(s, p).panic = NoPanic,
         s.page[s.page[p].referent[1]].use # "Deleted"
  PROVE  /\ s.panic = NoPanic /\ Entry(s, s.page[p].referent).kind \in {"Valid", "Trans"}
         /\ Unmapped(s, DeleteTablePointers(s, p), s.page[p].referent)
<1> DEFINE a   == s.page[p].referent
           dir == a[1]
           i   == a[2]
           t   == [s EXCEPT !.table[dir][i] = ZeroPte]
           z   == SetPte(s, a, ZeroPte)
           u   == PteUncounted(t, dir)
           c   == Kassert(s, ~LastPte(s, dir), "tables.c:97", u)
           ok  == s.table[dir][i].kind \in {"Valid", "Trans"}
           d   == Kassert(s, ok, "tables.c:94", c)
           e   == Kassert(s, i = 0, "resident.c:207", d)
<1>1. a \in PteAddr /\ dir \in Pages /\ i \in Idx
  BY PagePart
<1>2. t \in VmStates /\ t.panic = s.panic
  <2>1. ZeroPte \in Pte
    BY ConstantTypes DEF Pte, PteKind, ZeroPte
  <2> HIDE DEF dir, i
  <2> QED
    BY <1>1, <2>1, SetTableType DEF VmStates
<1> HIDE DEF a, dir, i, t, u
<1>3. c.panic = NoPanic => s.panic = NoPanic /\ c = u
  BY PanicSeen DEF Kassert, Then, NoPanic
<1> HIDE DEF c
<1>4. d.panic = NoPanic => s.panic = NoPanic /\ ok /\ d = c
  BY PanicSeen DEF Kassert, Then, NoPanic
<1> HIDE DEF d, ok
<1>5. e.panic = NoPanic => s.panic = NoPanic /\ e = d
  BY PanicSeen, Zenon DEF Kassert, Then, NoPanic
<1> HIDE DEF e
<1>6. e = DeleteTablePointers(s, p)
  BY Zenon DEF DeleteTablePointers, a, dir, i, t, u, c, ok, d, e
<1>7. s.panic = NoPanic /\ ok /\ DeleteTablePointers(s, p) = u /\ u.panic = NoPanic
  BY <1>6, <1>3, <1>4, <1>5
<1>8. z = t
  BY <1>7 DEF SetPte, Then, t, dir, i
<1>9. Entered(s, t, a, ZeroPte)
  BY <1>1, <1>2, <1>7, <1>8, SetPteEffect
<1>10. t.page[dir].use # "Deleted"
  BY <1>1, <1>9 DEF Entered, SameRec, dir, a
<1>11. Adjusted(t, u, dir, -1, -1, -1)
  BY <1>1, <1>2, <1>7, <1>10, PteUncountedEffect DEF u
<1>12. Unmapped(s, u, a)
  <2>1. \A b : Entry(u, b) = Entry(t, b)
    BY <1>11 DEF Adjusted, Entry
  <2>2. \A q \in Pages : SameRec(s, t, q)
    BY <1>9 DEF Entered
  <2>3. \A b \in PteAddr : Entry(u, b) = IF b = a THEN ZeroPte ELSE Entry(s, b)
    BY <1>9, <2>1 DEF Entered
  <2> QED
    BY <1>1, <1>11, <2>2, <2>3 DEF Adjusted, SameRec, Unmapped, dir
<1> QED
  BY <1>7, <1>12, Zenon DEF a, ok, dir, i, Entry

(* A deleted page loses a reference, and is free with the last one.        *)
LEMMA ReleaseDeletedEffect ==
  ASSUME NEW s \in VmStates, NEW p \in Pages, PageRelease(s, p).panic = NoPanic,
         s.page[p].use = "Deleted"
  PROVE  /\ s.panic = NoPanic
         /\ PageRelease(s, p).table = s.table
         /\ \A q \in Pages \ {p} : SameRec(s, PageRelease(s, p), q)
         /\ PageRelease(s, p).page[p].use = IF s.page[p].refcnt = 1 THEN "Free" ELSE "Deleted"
         /\ PageRelease(s, p).page[p].refcnt = s.page[p].refcnt - 1
         /\ PageRelease(s, p).page[p].nonzero = s.page[p].nonzero
         /\ PageRelease(s, p).page[p].nonswap = s.page[p].nonswap
         /\ PageRelease(s, p).page[p].referent = s.page[p].referent
<1> DEFINE ok == s.page[p].refcnt > 0 /\ s.page[p].use # "Free"
           t == [s EXCEPT !.page[p].refcnt = @ - 1]
           v == [t EXCEPT !.stat.nactive = @ - 1]
           f == [v EXCEPT !.free = << p >> \o @, !.stat.nfree = @ + 1, !.page[p].use = "Free"]
           r == IF t.page[p].refcnt = 0 THEN Requeue(t, p) ELSE t
           k == Kassert(s, ok, "resident.c:164", r)
<1>1. k = PageRelease(s, p)
  BY DEF PageRelease
<1> HIDE DEF r
<1>2. k.panic = NoPanic => s.panic = NoPanic /\ ok /\ k = r
  BY PanicSeen DEF Kassert, Then, NoPanic
<1> HIDE DEF k
<1>3. s.panic = NoPanic /\ PageRelease(s, p) = r
  BY <1>1, <1>2
<1>4. s.page \in PageDb /\ s.page[p].refcnt \in Nat
  BY Parts, PagePart
<1>5. t.table = s.table /\ t.page = [s.page EXCEPT ![p].refcnt = @ - 1]
  BY DEF VmStates
<1>6. /\ \A q \in Pages \ {p} : t.page[q] = s.page[q]
      /\ t.page[p].use = "Deleted" /\ t.page[p].refcnt = s.page[p].refcnt - 1
      /\ t.page[p].nonzero = s.page[p].nonzero /\ t.page[p].nonswap = s.page[p].nonswap
      /\ t.page[p].referent = s.page[p].referent
  BY <1>4, <1>5 DEF PageDb, PageRec
<1>7. CASE s.page[p].refcnt # 1
  <2>1. r = t
    BY <1>4, <1>6, <1>7, SMTT(60) DEF r
  <2> QED
    BY <1>3, <1>5, <1>6, <1>7, <2>1 DEF SameRec
<1>8. CASE s.page[p].refcnt = 1
  <2>1. r = f
    BY <1>6, <1>8 DEF r, Requeue
  <2>2. f.table = t.table /\ f.page = [t.page EXCEPT ![p].use = "Free"]
    BY DEF VmStates
  <2>3. t.page \in [Pages -> PageRec]
    <3>1. s.page[p].refcnt - 1 \in Nat
      BY <1>8
    <3> QED
      BY <1>4, <1>5, <3>1 DEF PageDb, PageRec
  <2> HIDE DEF t
  <2>4. /\ \A q \in Pages \ {p} : f.page[q] = t.page[q]
        /\ f.page[p].use = "Free" /\ f.page[p].refcnt = t.page[p].refcnt
        /\ f.page[p].nonzero = t.page[p].nonzero /\ f.page[p].nonswap = t.page[p].nonswap
        /\ f.page[p].referent = t.page[p].referent
    BY <2>2, <2>3 DEF PageRec
  <2> HIDE DEF f
  <2> QED
    BY <1>3, <1>5, <1>6, <1>8, <2>1, <2>2, <2>4 DEF SameRec
<1> QED
  BY <1>7, <1>8

(* Table p, whose PTE at a is zeroed, becomes a free page.                 *)
Retired(s, t, p, a) ==
  /\ \A b \in PteAddr : Entry(t, b) = IF b = a THEN ZeroPte ELSE Entry(s, b)
  /\ \A q \in Pages \ {p, a[1]} : SameRec(s, t, q)
  /\ t.page[a[1]].use = s.page[a[1]].use /\ t.page[a[1]].refcnt = s.page[a[1]].refcnt + (-1)
  /\ t.page[a[1]].nonzero = s.page[a[1]].nonzero + (-1)
  /\ t.page[a[1]].nonswap = s.page[a[1]].nonswap + (-1)
  /\ t.page[a[1]].referent = s.page[a[1]].referent
  /\ t.page[p].use = "Free" /\ t.page[p].refcnt = 0 /\ t.page[p].nonswap = 0

(* vmp_pagetable_page_pte_deleted() of the last PTE of a table that has    *)
(* two references, its wiring's and the working set's.                     *)
LEMMA FreeTableEffect ==
  ASSUME NEW s \in VmStates, NEW p \in Pages, FreeTable(s, p).panic = NoPanic,
         s.page[p].refcnt = 2, s.page[p].referent[1] # p,
         s.page[s.page[p].referent[1]].use # "Deleted"
  PROVE  /\ s.panic = NoPanic /\ Entry(s, s.page[p].referent).kind \in {"Valid", "Trans"}
         /\ Retired(s, FreeTable(s, p), p, s.page[p].referent)
<1> DEFINE ref == s.page[p].referent
           d == [s EXCEPT !.page[p].nonzero = @ - 1, !.page[p].use = "Deleted"]
           g == ForgetTable(d, p)
           t == DeleteTablePointers(g, p)
           n == [t EXCEPT !.page[p].nonswap = 0, !.page[p].referent = NullRef]
           u == Then(t, n)
           v == PageRelease(u, p)
           w == PageRelease(v, p)
<1>1. ref \in PteAddr /\ ref[1] \in Pages
  BY PagePart, AddrParts
<1>2. d \in VmStates
  <2>1. s.page[p].nonzero - 1 \in Int
    BY PagePart
  <2>2. [s.page[p] EXCEPT !.nonzero = @ - 1, !.use = "Deleted"] \in PageRec
    BY <2>1, PagePart, PageRecUpdate2, Zenon DEF PageUse
  <2>3. [s.page EXCEPT ![p].nonzero = @ - 1, ![p].use = "Deleted"] \in PageDb
    BY <2>2, Parts DEF PageDb
  <2> QED
    BY <2>3 DEF VmStates
<1>3. /\ d.table = s.table /\ d.panic = s.panic
      /\ \A q \in Pages \ {p} : SameRec(s, d, q)
      /\ d.page[p].use = "Deleted" /\ d.page[p].refcnt = 2 /\ d.page[p].referent = ref
  BY DEF VmStates, PageDb, PageRec, SameRec
<1> HIDE DEF d
<1>4. g \in VmStates
  BY <1>2, ForgetTableType
<1>5. g.panic = NoPanic => d.panic = NoPanic /\ Same(d, g)
  BY <1>2, ForgetTableEffect, Zenon
<1> HIDE DEF g
<1>6. t \in VmStates
  BY <1>4, DeleteTablePointersType
<1>7. g.panic # NoPanic => t.panic # NoPanic
  BY Zenon DEF DeleteTablePointers, Kassert, Then
<1> HIDE DEF t
<1>8. /\ n \in VmStates /\ n.table = t.table /\ n.panic = t.panic
      /\ \A q \in Pages \ {p} : SameRec(t, n, q)
      /\ n.page[p].use = t.page[p].use /\ n.page[p].refcnt = t.page[p].refcnt
      /\ n.page[p].nonswap = 0
  <2>1. NullRef \in PteAddr
    BY ConstantTypes, Zenon
  <2>2. [t.page[p] EXCEPT !.nonswap = 0, !.referent = NullRef] \in PageRec
    <3>1. t.page[p] \in PageRec /\ 0 \in Int
      BY <1>6, PagePart
    <3> HIDE DEF NullRef
    <3> QED
      BY <2>1, <3>1, PageRecUpdate2, Zenon
  <2>3. [t.page EXCEPT ![p].nonswap = 0, ![p].referent = NullRef] \in PageDb
    BY <1>6, <2>2, Parts DEF PageDb
  <2>4. n \in VmStates
    BY <1>6, <2>3 DEF VmStates
  <2> QED
    BY <1>6, <2>4 DEF VmStates, PageDb, PageRec, SameRec
<1> HIDE DEF n
<1>9. u \in VmStates /\ (u.panic = NoPanic => t.panic = NoPanic /\ u = n)
  BY <1>6, <1>8 DEF Then
<1> HIDE DEF u
<1>10. v \in VmStates /\ (v.panic = NoPanic => u.panic = NoPanic)
  BY <1>9, PageReleaseType, Zenon DEF PageRelease, Kassert, Then
<1>11. w.panic = NoPanic => v.panic = NoPanic
  BY ZenonT(60) DEF PageRelease, Kassert, Then
<1>12. w = FreeTable(s, p)
  BY DEF FreeTable, d, g, t, n, u
<1>13. /\ w.panic = NoPanic /\ v.panic = NoPanic /\ u = n /\ u.panic = NoPanic
       /\ t.panic = NoPanic /\ g.panic = NoPanic /\ d.panic = NoPanic /\ Same(d, g)
  BY <1>5, <1>7, <1>9, <1>10, <1>11, <1>12
<1>14. g.page[p].referent = ref /\ g.page[p].use = "Deleted" /\ g.page[p].refcnt = 2
  BY <1>3, <1>13 DEF Same, SameRec
<1>15. /\ \A q \in Pages \ {p} : SameRec(s, g, q)
       /\ \A b : Entry(g, b) = Entry(s, b)
  BY <1>3, <1>13, SMTT(60) DEF Same, SameRec, Entry
<1>16. Entry(g, ref).kind \in {"Valid", "Trans"} /\ Unmapped(g, t, ref)
  <2>1. g.page[g.page[p].referent[1]].use # "Deleted"
    BY <1>1, <1>14, <1>15 DEF SameRec
  <2> QED
    BY <1>4, <1>13, <1>14, <2>1, DeleteTablePointersEffect DEF t
<1>17. u.page[p].use = "Deleted" /\ u.page[p].refcnt = 2 /\ u.page[p].nonswap = 0
  <2>1. p \in Pages \ {ref[1]}
    OBVIOUS
  <2> HIDE DEF ref
  <2>2. SameRec(g, t, p)
    BY <1>16, <2>1 DEF Unmapped
  <2>3. t.page[p].use = "Deleted" /\ t.page[p].refcnt = 2
    BY <1>14, <2>2 DEF SameRec
  <2>4. n.page[p].use = "Deleted" /\ n.page[p].refcnt = 2 /\ n.page[p].nonswap = 0
    BY <1>8, <2>3
  <2> QED
    BY <1>13, <2>4
<1>18. /\ v.table = u.table /\ \A q \in Pages \ {p} : SameRec(u, v, q)
       /\ v.page[p].use = "Deleted" /\ v.page[p].refcnt = 1 /\ v.page[p].nonswap = 0
  <2>1. 2 # 1 /\ 2 - 1 = 1
    OBVIOUS
  <2> QED
    BY <1>9, <1>13, <1>17, <2>1, ReleaseDeletedEffect
<1> HIDE DEF v
<1>19. /\ w.table = v.table /\ \A q \in Pages \ {p} : SameRec(v, w, q)
       /\ w.page[p].use = "Free" /\ w.page[p].refcnt = 0 /\ w.page[p].nonswap = 0
  BY <1>10, <1>13, <1>18, ReleaseDeletedEffect, 1 - 1 = 0
<1> HIDE DEF w
<1>20. \A q \in Pages \ {p} : SameRec(t, w, q)
  BY <1>8, <1>13, <1>18, <1>19 DEF SameRec
<1>21. \A b : Entry(w, b) = Entry(t, b)
  BY <1>8, <1>13, <1>18, <1>19, Zenon DEF Entry
<1>22. \A b \in PteAddr : Entry(w, b) = IF b = ref THEN ZeroPte ELSE Entry(s, b)
  BY <1>15, <1>16, <1>21 DEF Unmapped
<1>23. ref[1] \in Pages \ {p}
  BY <1>1, Zenon
<1> HIDE DEF ref
<1>24. Retired(s, w, p, ref)
  <2>1. \A q \in Pages \ {p, ref[1]} : SameRec(s, w, q)
    <3> TAKE q \in Pages \ {p, ref[1]}
    <3>1. SameRec(s, g, q) /\ SameRec(t, w, q) /\ SameRec(g, t, q)
      BY <1>15, <1>16, <1>20 DEF Unmapped
    <3> QED
      BY <3>1 DEF SameRec
  <2>2. SameRec(s, g, ref[1]) /\ SameRec(t, w, ref[1])
    BY <1>15, <1>20, <1>23
  <2> QED
    BY <1>16, <1>19, <1>22, <2>1, <2>2 DEF Unmapped, Retired, SameRec
<1> QED
  BY <1>3, <1>12, <1>13, <1>15, <1>16, <1>24 DEF ref

(* A table with one PTE counted, which is a wiring, has no PTE in use.     *)
LEMMA LastWiring ==
  ASSUME NEW s \in VmStates, NEW p \in Pages, IsTable(s, p), s.page[p].nonzero = 1,
         NEW wired \in Ledger, wired[p] >= 1, Counted(s, wired, wired)
  PROVE  /\ wired[p] = 1 /\ s.page[p].nonswap = 1 /\ \A j \in Idx : s.table[p][j].kind = "Zero"
<1>1. s.page[p].nonswap = wired[p] + NumIn(s, p) /\ 1 >= wired[p] + NumUse(s, p)
  BY DEF Counted
<1>2. NumIn(s, p) \in Nat /\ NumUse(s, p) \in Nat /\ wired[p] \in Int
  BY CountsType DEF Ledger
<1>3. wired[p] = 1 /\ NumUse(s, p) = 0
  BY <1>1, <1>2
<1>4. InUseSet(s.table[p]) = {}
  <2>1. IsFiniteSet(InUseSet(s.table[p])) /\ Cardinality(InUseSet(s.table[p])) = 0
    BY <1>3, CountsType DEF NumUse
  <2> QED
    BY <2>1, FS_EmptySet
<1>5. InCoreSet(s.table[p]) = {} /\ \A j \in Idx : s.table[p][j].kind = "Zero"
  BY <1>4 DEF InUseSet, InCoreSet
<1>6. NumIn(s, p) = 0
  BY <1>5, FS_EmptySet DEF NumIn
<1> QED
  BY <1>1, <1>3, <1>5, <1>6

(* Page p becomes free.                                                    *)
Freed(s, t, p) ==
  /\ \A b \in PteAddr : Entry(t, b) = Entry(s, b)
  /\ \A q \in Pages \ {p} : SameRec(s, t, q)
  /\ t.page[p].use = "Free" /\ t.page[p].refcnt = 0 /\ t.page[p].nonswap = 0

(* What is owed when a table that no PTE names is freed with its last      *)
(* wiring.                                                                 *)
LEMMA FreedMaps ==
  ASSUME NEW s \in VmStates, NEW t \in VmStates, NEW p \in Pages, IsTable(s, p), p # Root,
         Freed(s, t, p), s.page[p].nonzero = 1,
         NEW home \in [Pages -> PteAddr], NEW home2, NEW busy,
         \A q \in Pages \ {p} : home2[q] = home[q],
         NEW wired \in Ledger, wired[p] >= 1, NEW refs, refs[p] = 0,
         Maps(s, home, p, busy, wired, wired, refs)
  PROVE  Maps(t, home2, NoPage, busy, Plus(wired, p, -1), Plus(wired, p, -1), refs)
<1>1. /\ PtesLinked(s, home, p) /\ PagesLinked(s, home, p, busy)
      /\ BusyLinked(s, home, p, busy) /\ s.page[Root].use = TableUse[Levels]
      /\ Counted(s, wired, wired) /\ Referenced(s, home, p, refs)
  BY DEF Maps, Linked
<1>2. wired[p] = 1 /\ \A j \in Idx : s.table[p][j].kind = "Zero"
  BY <1>1, LastWiring
<1>3. \A b \in PteAddr : b[1] = p => Entry(s, b).kind = "Zero"
  BY <1>2, AddrParts DEF Entry
<1>4. /\ \A b \in PteAddr : Entry(t, b) = Entry(s, b)
      /\ \A q \in Pages \ {p} : SameRec(s, t, q)
      /\ t.page[p].use = "Free" /\ t.page[p].refcnt = 0 /\ t.page[p].nonswap = 0
  BY DEF Freed
<1>5. /\ \A q \in Pages \ {p} : /\ IsAnon(t, q) <=> IsAnon(s, q)
                                /\ IsTable(t, q) <=> IsTable(s, q)
      /\ ~IsAnon(t, p) /\ ~IsTable(t, p) /\ ~IsAnon(s, p)
  BY <1>4 DEF IsAnon, IsTable, SameRec, TableUses
<1>6. NoPage \notin Pages /\ \A b \in PteAddr : b[1] \in Pages /\ Entry(s, b).page \in Pages
  BY EntryPart, ConstantTypes DEF NoPage, Pages
<1>7. PtesLinked(t, home2, NoPage)
  <2> SUFFICES ASSUME NEW b \in PteAddr, Entry(t, b).kind \in {"Valid", "Trans"}
               PROVE  /\ IsTable(t, b[1])
                      /\ Entry(t, b).page # NoPage /\ home2[Entry(t, b).page] = b
                      /\ t.page[Entry(t, b).page].use = Below(t.page[b[1]].use)
                      /\ Entry(t, b).kind = "Trans" => t.page[b[1]].use = "PML1"
    BY DEF PtesLinked
  <2>1. Entry(s, b).kind \in {"Valid", "Trans"} /\ Entry(t, b) = Entry(s, b) /\ b[1] # p
    BY <1>3, <1>4
  <2>2. /\ IsTable(s, b[1])
        /\ Entry(s, b).page # p /\ home[Entry(s, b).page] = b
        /\ s.page[Entry(s, b).page].use = Below(s.page[b[1]].use)
        /\ Entry(s, b).kind = "Trans" => s.page[b[1]].use = "PML1"
    BY <1>1, <2>1 DEF PtesLinked
  <2>3. SameRec(s, t, b[1]) /\ SameRec(s, t, Entry(s, b).page) /\ IsTable(t, b[1])
    BY <1>4, <1>5, <1>6, <2>1, <2>2
  <2>4. Entry(s, b).page \in Pages \ {p} /\ Entry(s, b).page # NoPage
    BY <1>6, <2>2
  <2> QED
    BY <2>1, <2>2, <2>3, <2>4 DEF SameRec
<1>8. PagesLinked(t, home2, NoPage, busy)
  <2> SUFFICES ASSUME NEW q \in Pages \ {Root, NoPage}, IsAnon(t, q) \/ IsTable(t, q)
               PROVE  \/ /\ Entry(t, home2[q]).kind \in {"Valid", "Trans"}
                         /\ Entry(t, home2[q]).page = q
                      \/ << home2[q], q >> \in busy
    BY DEF PagesLinked
  <2>1. q \in Pages \ {Root, p} /\ (IsAnon(s, q) \/ IsTable(s, q)) /\ home2[q] = home[q]
    BY <1>5
  <2>2. \/ Entry(s, home[q]).kind \in {"Valid", "Trans"} /\ Entry(s, home[q]).page = q
        \/ << home[q], q >> \in busy
    BY <1>1, <2>1 DEF PagesLinked
  <2> QED
    BY <1>4, <2>1, <2>2
<1>9. BusyLinked(t, home2, NoPage, busy)
  <2>1. \A b \in PteAddr : Entry(t, b).kind = "Busy" => \E q \in Pages : << b, q >> \in busy
    BY <1>1, <1>4 DEF BusyLinked
  <2>2. ASSUME NEW b \in PteAddr, NEW q \in Pages, << b, q >> \in busy
        PROVE  /\ Entry(t, b).kind = "Busy" /\ t.page[b[1]].use = "PML1"
               /\ home2[q] = b /\ IsAnon(t, q) /\ q # NoPage
               /\ \A r \in Pages : << b, r >> \in busy => r = q
    <3>1. /\ Entry(s, b).kind = "Busy" /\ s.page[b[1]].use = "PML1"
          /\ home[q] = b /\ IsAnon(s, q) /\ q # p
          /\ \A r \in Pages : << b, r >> \in busy => r = q
      BY <1>1, <2>2 DEF BusyLinked
    <3>2. b[1] \in Pages \ {p}
      BY <1>3, <1>6, <3>1
    <3> QED
      BY <1>4, <1>5, <1>6, <3>1, <3>2 DEF SameRec
  <2> QED
    BY <2>1, <2>2 DEF BusyLinked
<1>10. Counted(t, Plus(wired, p, -1), Plus(wired, p, -1))
  <2> DEFINE w == Plus(wired, p, -1)
  <2>1. w[p] = wired[p] + (-1) /\ \A q \in Pages \ {p} : w[q] = wired[q]
    BY PlusAt
  <2>2. w[p] = 0
    BY <1>2, <2>1
  <2> HIDE DEF w
  <2>3. \A q \in Pages : NumIn(t, q) = NumIn(s, q) /\ NumUse(t, q) = NumUse(s, q)
    <3> SUFFICES ASSUME NEW q \in Pages PROVE NumIn(t, q) = NumIn(s, q) /\ NumUse(t, q) = NumUse(s, q)
      OBVIOUS
    <3>1. \A j \in Idx : t.table[q][j] = s.table[q][j]
      <4> TAKE j \in Idx
      <4>1. << q, j >> \in PteAddr
        BY DEF PteAddr
      <4> QED
        BY <1>4, <4>1 DEF Entry
    <3>2. InCoreSet(t.table[q]) = InCoreSet(s.table[q]) /\ InUseSet(t.table[q]) = InUseSet(s.table[q])
      BY <3>1 DEF InCoreSet, InUseSet
    <3> QED
      BY <3>2 DEF NumIn, NumUse
  <2> QED
    BY <1>1, <1>4, <1>5, <2>1, <2>2, <2>3 DEF Counted, SameRec, w
<1>11. Referenced(t, home2, NoPage, refs)
  <2> SUFFICES ASSUME NEW q \in Pages
               PROVE  t.page[q].refcnt = refs[q] + Base(t, home2, NoPage, q)
    BY DEF Referenced
  <2>1. CASE q = p
    BY <1>4, <1>5, <2>1 DEF Base
  <2>2. CASE q # p
    <3>1. home2[q] = home[q] /\ SameRec(s, t, q) /\ s.page[q].refcnt = refs[q] + Base(s, home, p, q)
      BY <1>1, <1>4, <2>2 DEF Referenced
    <3>2. IsAnon(s, q) => (Mapped(t, home2, NoPage, q) <=> Mapped(s, home, p, q))
      <4>1. SUFFICES ASSUME IsAnon(s, q) PROVE Entry(t, home[q]) = Entry(s, home[q])
        BY <1>6, <2>2, <3>1 DEF Mapped
      <4>2. home[q] \in PteAddr
        OBVIOUS
      <4> QED
        BY <1>4, <4>2
    <3> QED
      BY <1>5, <2>2, <3>1, <3>2 DEF Base, SameRec
  <2> QED
    BY <2>1, <2>2
<1> QED
  BY <1>1, <1>4, <1>7, <1>8, <1>9, <1>10, <1>11, ConstantTypes DEF Maps, Linked, SameRec

(* The PTE of a table whose last wiring goes.                              *)
LEMMA LastTable ==
  ASSUME NEW s \in VmStates, NEW p \in Pages, IsTable(s, p), LastPte(s, p),
         NEW wired \in Ledger, wired[p] >= 1, NEW refs \in Ledger, NEW busy,
         \A q \in Pages : refs[q] >= 0, \A q \in Pages : refs[q] > 0 => IsAnon(s, q),
         Maps(s, Home(s), NoPage, busy, wired, wired, refs)
  PROVE  /\ p # Root /\ s.page[p].refcnt = 2 /\ s.page[p].nonzero = 1 /\ refs[p] = 0
         /\ s.page[p].referent \in PteAddr /\ s.page[p].referent[1] \in Pages \ {p}
         /\ IsTable(s, s.page[p].referent[1])
         /\ Entry(s, s.page[p].referent).kind \in {"Valid", "Trans"}
         /\ Entry(s, s.page[p].referent).page = p
<1> DEFINE a == s.page[p].referent
<1>1. /\ PtesLinked(s, Home(s), NoPage) /\ PagesLinked(s, Home(s), NoPage, busy)
      /\ BusyLinked(s, Home(s), NoPage, busy) /\ s.page[Root].use = TableUse[Levels]
      /\ Counted(s, wired, wired) /\ Referenced(s, Home(s), NoPage, refs)
  BY DEF Maps, Linked
<1>2. s.page[p].nonzero = 1 /\ p # Root
  BY <1>1 DEF LastPte, IsRootTable
<1>3. s.page[p].nonswap = 1
  BY <1>1, <1>2, LastWiring
<1>4. ~IsAnon(s, p) /\ refs[p] = 0
  <2>1. ~IsAnon(s, p)
    BY DEF IsAnon, IsTable, TableUses
  <2>2. refs[p] \in Int
    BY DEF Ledger
  <2> QED
    BY <2>1, <2>2
<1>5. s.page[p].refcnt = 2
  <2>1. s.page[p].refcnt = refs[p] + Base(s, Home(s), NoPage, p)
    BY <1>1 DEF Referenced
  <2>2. Base(s, Home(s), NoPage, p) = 1 + 1
    BY <1>3, <1>4 DEF Base
  <2> QED
    BY <1>4, <2>1, <2>2
<1>6. a \in PteAddr /\ a[1] \in Pages /\ Home(s)[p] = a
  BY PagePart, AddrParts DEF Home
<1> HIDE DEF a
<1>7. Entry(s, a).kind \in {"Valid", "Trans"} /\ Entry(s, a).page = p
  <2>1. p \in Pages \ {Root, NoPage}
    BY <1>2, ConstantTypes DEF NoPage, Pages
  <2>2. << a, p >> \notin busy
    BY <1>1, <1>4, <1>6 DEF BusyLinked
  <2> QED
    BY <1>1, <1>6, <2>1, <2>2 DEF PagesLinked
<1>8. IsTable(s, a[1]) /\ s.page[p].use = Below(s.page[a[1]].use)
  BY <1>1, <1>6, <1>7 DEF PtesLinked
<1>9. a[1] # p
  BY <1>8 DEF IsTable, TableUses, Below
<1> QED
  BY <1>2, <1>4, <1>5, <1>6, <1>7, <1>8, <1>9 DEF a

(* The table p is unwired: it may be freed, the other pages keep their use.*)
Unpinned(s, t, p) ==
  /\ \A q \in Pages \ {p} : t.page[q].use = s.page[q].use
  /\ t.page[p].use = s.page[p].use \/ ~IsTable(t, p)

(* What is owed when the last wiring of a table goes, and the table with   *)
(* it.                                                                     *)
LEMMA RetiredMaps ==
  ASSUME NEW s \in VmStates, NEW t \in VmStates, NEW p \in Pages, IsTable(s, p), LastPte(s, p),
         Retired(s, t, p, s.page[p].referent),
         NEW wired \in Ledger, wired[p] >= 1, NEW refs \in Ledger, NEW busy,
         \A q \in Pages : refs[q] >= 0, \A q \in Pages : refs[q] > 0 => IsAnon(s, q),
         Maps(s, Home(s), NoPage, busy, wired, wired, refs)
  PROVE  /\ Maps(t, Home(t), NoPage, busy, Plus(wired, p, -1), Plus(wired, p, -1), refs)
         /\ Unpinned(s, t, p)
<1> DEFINE a    == s.page[p].referent
           dir  == a[1]
           home == Home(s)
           u    == [s EXCEPT !.table[a[1]][a[2]] = ZeroPte]
           v    == [u EXCEPT !.page[dir] = t.page[dir]]
<1>1. /\ p # Root /\ s.page[p].refcnt = 2 /\ s.page[p].nonzero = 1 /\ refs[p] = 0
      /\ a \in PteAddr /\ dir \in Pages \ {p} /\ IsTable(s, dir)
      /\ Entry(s, a).kind \in {"Valid", "Trans"} /\ Entry(s, a).page = p
  BY LastTable
<1>2. home \in [Pages -> PteAddr] /\ home[p] = a
  BY PagePart DEF Home
<1>3. Retired(s, t, p, a)
  OBVIOUS
<1> HIDE DEF a
<1>4. a[2] \in Idx /\ ZeroPte \in Pte /\ ZeroPte.kind = "Zero"
  <2>1. 0 \in Nat \cup {NoSlot} /\ TRUE \in BOOLEAN
    OBVIOUS
  <2>2. ZeroPte \in Pte
    BY ONLY <2>1, PteTypes, p \in Pages
  <2> QED
    BY <1>1, <2>2, AddrParts DEF ZeroPte
<1>5. u \in VmStates
  BY <1>1, <1>4, SetTableType
<1>6. Entered(s, u, a, ZeroPte) /\ u.page = s.page
  <2>1. u.page = s.page /\ u.table = [s.table EXCEPT ![a[1]][a[2]] = ZeroPte] /\ s.table \in TableMem
    BY Parts DEF VmStates
  <2> HIDE DEF u
  <2>2. \A e \in Pages, j \in Idx :
          u.table[e][j] = IF e = a[1] /\ j = a[2] THEN ZeroPte ELSE s.table[e][j]
    BY <1>1, <1>4, <2>1 DEF TableMem
  <2>3. \A b \in PteAddr : Entry(u, b) = IF b = a THEN ZeroPte ELSE Entry(s, b)
    BY <1>1, <2>2, AddrParts DEF Entry
  <2> QED
    BY <2>1, <2>3 DEF Entered, SameRec
<1> HIDE DEF u, home
<1>7. ~IsAnon(s, p) /\ 1 \in Int /\ 1 <= 1 - UseBit(ZeroPte)
  BY <1>4 DEF IsAnon, IsTable, TableUses, UseBit
<1>8. Maps(u, home, p, busy, Plus(wired, dir, 1), Plus(wired, dir, 1), refs)
  BY <1>1, <1>2, <1>4, <1>5, <1>6, <1>7, LostMaps DEF home
<1>9. v \in VmStates
  BY <1>1, <1>5, PagePart, SetPageType
<1>10. v.table = u.table /\ v.page[dir] = t.page[dir] /\ \A q \in Pages \ {dir} : v.page[q] = s.page[q]
  <2>1. v.table = u.table /\ v.page = [s.page EXCEPT ![dir] = t.page[dir]]
    BY <1>5, <1>6 DEF VmStates
  <2>2. s.page \in PageDb
    BY Parts, Zenon
  <2> QED
    BY <1>1, <2>1, <2>2 DEF PageDb
<1> HIDE DEF v
<1>11. Adjusted(u, v, dir, -1, -1, -1)
  BY <1>3, <1>6, <1>10, Zenon DEF Adjusted, Retired, SameRec
<1>12. Maps(v, home, p, busy, wired, wired, refs)
  <2> DEFINE l == Plus(wired, dir, 1)
  <2>1. l \in Ledger /\ Plus(l, dir, -1) = wired
    BY <1>1, PlusAt, PlusBack
  <2>2. IsTable(u, dir) /\ -1 \in Int /\ (-1) - (-1) = 0
    BY <1>1, <1>6 DEF IsTable
  <2> HIDE DEF l
  <2>3. Maps(u, home, p, busy, l, l, refs)
    BY <1>8 DEF l
  <2>4. dir \in Pages
    BY <1>1
  <2> HIDE DEF dir
  <2>5. Maps(v, home, p, busy, Plus(l, dir, -1), Plus(l, dir, -1), Plus(refs, dir, (-1) - (-1)))
    BY <1>5, <1>9, <1>11, <2>4, <2>1, <2>2, <2>3, AdjustedMaps
  <2>6. Plus(refs, dir, 0) = refs
    BY <1>1, PlusBack
  <2> QED
    BY <2>1, <2>2, <2>5, <2>6
<1>13. Freed(v, t, p)
  <2>1. \A b \in PteAddr : Entry(t, b) = Entry(v, b)
    BY <1>3, <1>6, <1>10, ZenonT(60) DEF Retired, Entered, Entry
  <2>2. \A q \in Pages \ {p} : SameRec(v, t, q)
    <3> TAKE q \in Pages \ {p}
    <3>1. CASE q = dir
      BY <1>10, <3>1 DEF SameRec
    <3>2. CASE q # dir
      <4>1. SameRec(s, t, q) /\ v.page[q] = s.page[q]
        BY <1>3, <1>10, <3>2 DEF Retired
      <4> QED
        BY <4>1 DEF SameRec
    <3> QED
      BY <3>1, <3>2
  <2> QED
    BY <1>3, <2>1, <2>2, Zenon DEF Retired, Freed
<1>14. IsTable(v, p) /\ v.page[p].nonzero = 1
  BY <1>1, <1>10 DEF IsTable
<1>15. \A q \in Pages \ {p} : Home(t)[q] = home[q]
  BY <1>3, <1>1, ZenonT(60) DEF Home, home, Retired, SameRec
<1>16. Maps(t, Home(t), NoPage, busy, Plus(wired, p, -1), Plus(wired, p, -1), refs)
  BY <1>1, <1>2, <1>9, <1>12, <1>13, <1>14, <1>15, FreedMaps
<1>17. Unpinned(s, t, p)
  <2>1. \A q \in Pages \ {p} : t.page[q].use = s.page[q].use
    BY <1>3, Zenon DEF Retired, SameRec
  <2> QED
    BY <1>3, <2>1, Zenon DEF Retired, Unpinned, IsTable, TableUses
<1> QED
  BY <1>16, <1>17

(* vmp_pagetable_page_pte_deleted() gives a wiring back.                   *)
LEMMA PteDeletedMaps ==
  ASSUME NEW s \in VmStates, NEW p \in Pages, IsTable(s, p), PteDeleted(s, p).panic = NoPanic,
         NEW wired \in Ledger, wired[p] >= 1, NEW refs \in Ledger, NEW busy,
         \A q \in Pages : refs[q] >= 0, \A q \in Pages : refs[q] > 0 => IsAnon(s, q),
         Maps(s, Home(s), NoPage, busy, wired, wired, refs)
  PROVE  /\ Maps(PteDeleted(s, p), Home(PteDeleted(s, p)), NoPage, busy,
                 Plus(wired, p, -1), Plus(wired, p, -1), refs)
         /\ Unpinned(s, PteDeleted(s, p), p)
<1>1. s.panic = NoPanic
  BY DEF PteDeleted, Then
<1>2. s.page[p].use # "Deleted"
  BY DEF IsTable, TableUses
<1>3. CASE LastPte(s, p)
  <2>1. PteDeleted(s, p) = FreeTable(s, p)
    BY <1>1, <1>3 DEF PteDeleted, Then
  <2>2. /\ s.page[p].refcnt = 2 /\ s.page[p].referent[1] \in Pages \ {p}
        /\ IsTable(s, s.page[p].referent[1])
    BY <1>3, LastTable
  <2>3. s.page[p].referent[1] # p /\ s.page[s.page[p].referent[1]].use # "Deleted"
    BY <2>2 DEF IsTable, TableUses
  <2>4. Retired(s, FreeTable(s, p), p, s.page[p].referent)
    BY <2>1, <2>2, <2>3, FreeTableEffect
  <2>5. FreeTable(s, p) \in VmStates
    BY FreeTableType
  <2> QED
    BY <1>3, <2>1, <2>4, <2>5, RetiredMaps
<1>4. CASE ~LastPte(s, p)
  <2> DEFINE t == PteUncounted(s, p)
  <2>1. PteDeleted(s, p) = t
    BY <1>1, <1>4 DEF PteDeleted, Then
  <2>2. Adjusted(s, t, p, -1, -1, -1)
    BY <1>2, <2>1, PteUncountedEffect
  <2>3. t \in VmStates
    BY PteUncountedType
  <2>4. Steady(s, t)
    BY <2>2 DEF Steady, Adjusted, SameRec
  <2> HIDE DEF t
  <2>5. -1 \in Int /\ (-1) - (-1) = 0 /\ Plus(refs, p, 0) = refs
    BY PlusBack
  <2>6. Maps(t, Home(s), NoPage, busy, Plus(wired, p, -1), Plus(wired, p, -1),
             Plus(refs, p, (-1) - (-1)))
    BY <2>2, <2>3, <2>5, AdjustedMaps
  <2>7. Unpinned(s, t, p)
    BY <2>4 DEF Steady, Unpinned
  <2>8. Home(t) = Home(s)
    BY <2>4, SteadyHome
  <2> QED
    BY <2>1, <2>5, <2>6, <2>7, <2>8
<1> QED
  BY <1>3, <1>4
-----------------------------------------------------------------------------
(* The wirings of the threads and the references of the page writer.       *)
LEMMA WiringsFinite ==
  ASSUME NEW x, NEW q
  PROVE  IsFiniteSet({fl \in Faulters \X (1 .. Levels) : x[fl[1]].pages[fl[2]] = q})
<1>1. IsFiniteSet(1 .. Levels)
  BY VmAssumption, FS_Interval
<1>2. IsFiniteSet(Faulters \X (1 .. Levels))
  BY <1>1, VmmAssumption, FS_Product
<1> QED
  BY <1>2, FS_Subset

(* The wirings are counted, and a wired table has one.                     *)
LEMMA WiredType ==
  ASSUME NEW x
  PROVE  /\ WiredOf(x) \in Ledger
         /\ \A f \in Faulters, k \in 1 .. Levels :
              x[f].pages[k] \in Pages => WiredOf(x)[x[f].pages[k]] >= 1
<1> DEFINE W(q) == {fl \in Faulters \X (1 .. Levels) : x[fl[1]].pages[fl[2]] = q}
<1>1. \A q : IsFiniteSet(W(q))
  BY WiringsFinite
<1>2. \A q : Cardinality(W(q)) \in Nat /\ (Cardinality(W(q)) = 0 <=> W(q) = {})
  BY <1>1, FS_CardinalityType, FS_EmptySet
<1>3. WiredOf(x) = [q \in Pages |-> Cardinality(W(q))]
  BY DEF WiredOf
<1>4. ASSUME NEW f \in Faulters, NEW k \in 1 .. Levels, x[f].pages[k] \in Pages
      PROVE  WiredOf(x)[x[f].pages[k]] >= 1
  <2>1. << f, k >> \in W(x[f].pages[k])
    OBVIOUS
  <2> HIDE DEF W
  <2>2. Cardinality(W(x[f].pages[k])) # 0
    BY <1>2, <2>1
  <2> QED
    BY <1>2, <1>3, <1>4, <2>2
<1> HIDE DEF W
<1>5. WiredOf(x) \in Ledger
  BY <1>2, <1>3 DEF Ledger
<1> QED
  BY <1>4, <1>5

(* The locals differ in the table that thread f has wired at level k.      *)
Rewired(x, y, f, k) ==
  \A g \in Faulters, j \in 1 .. Levels : (g # f \/ j # k) => y[g].pages[j] = x[g].pages[j]

(* One more wiring.                                                        *)
LEMMA WiredMore ==
  ASSUME NEW x, NEW y, NEW f \in Faulters, NEW k \in 1 .. Levels, NEW p \in Pages,
         Rewired(x, y, f, k), x[f].pages[k] = NoPage, y[f].pages[k] = p
  PROVE  WiredOf(y) = Plus(WiredOf(x), p, 1)
<1> DEFINE A(q) == {fl \in Faulters \X (1 .. Levels) : x[fl[1]].pages[fl[2]] = q}
           B(q) == {fl \in Faulters \X (1 .. Levels) : y[fl[1]].pages[fl[2]] = q}
           l == Plus(WiredOf(x), p, 1)
<1>1. NoPage \notin Pages
  BY DEF NoPage, Pages
<1>2. ASSUME NEW q \in Pages
      PROVE  Cardinality(B(q)) = Cardinality(A(q)) + (IF q = p THEN 1 ELSE 0)
  <2>1. \A j : j # << f, k >> => (j \in B(q) <=> j \in A(q))
    <3> SUFFICES ASSUME NEW j \in Faulters \X (1 .. Levels), j # << f, k >>
                 PROVE  y[j[1]].pages[j[2]] = x[j[1]].pages[j[2]]
      OBVIOUS
    <3>1. j[1] \in Faulters /\ j[2] \in 1 .. Levels /\ (j[1] # f \/ j[2] # k)
      OBVIOUS
    <3> QED
      BY <3>1 DEF Rewired
  <2>2. << f, k >> \notin A(q) /\ (<< f, k >> \in B(q) <=> q = p)
    BY <1>1
  <2>3. IsFiniteSet(A(q))
    BY WiringsFinite, ZenonT(60)
  <2> HIDE DEF A, B
  <2>4. Cardinality(A(q)) \in Nat
    BY <2>3, FS_CardinalityType
  <2>5. Cardinality(B(q)) = Cardinality(A(q)) + (IF << f, k >> \in B(q) THEN 1 ELSE 0)
                              - (IF << f, k >> \in A(q) THEN 1 ELSE 0)
    BY <2>1, <2>3, OneIndex
  <2> QED
    BY <2>2, <2>4, <2>5
<1>3. /\ WiredOf(x) = [q \in Pages |-> Cardinality(A(q))]
      /\ WiredOf(y) = [q \in Pages |-> Cardinality(B(q))]
  BY DEF WiredOf
<1>4. WiredOf(x) \in Ledger /\ WiredOf(y) \in Ledger
  BY WiredType
<1> HIDE DEF A, B
<1>5. l \in Ledger /\ l[p] = WiredOf(x)[p] + 1 /\ \A q \in Pages \ {p} : l[q] = WiredOf(x)[q]
  BY <1>4, PlusAt
<1> HIDE DEF l
<1>6. \A q \in Pages : WiredOf(y)[q] = l[q]
  <2> TAKE q \in Pages
  <2>1. WiredOf(x)[q] = Cardinality(A(q)) /\ WiredOf(y)[q] = Cardinality(B(q))
    BY <1>3
  <2>2. WiredOf(x)[q] \in Int
    BY <1>4 DEF Ledger
  <2>3. CASE q = p
    BY <1>2, <1>5, <2>1, <2>3
  <2>4. CASE q # p
    BY <1>2, <1>5, <2>1, <2>2, <2>4
  <2> QED
    BY <2>3, <2>4
<1>7. WiredOf(y) = l
  BY <1>4, <1>5, <1>6 DEF Ledger
<1> QED
  BY <1>7 DEF l

(* One wiring less.                                                        *)
LEMMA WiredLess ==
  ASSUME NEW x, NEW y, NEW f \in Faulters, NEW k \in 1 .. Levels, NEW p \in Pages,
         Rewired(x, y, f, k), x[f].pages[k] = p, y[f].pages[k] = NoPage
  PROVE  WiredOf(y) = Plus(WiredOf(x), p, -1)
<1>1. Rewired(y, x, f, k)
  BY DEF Rewired
<1>2. WiredOf(x) = Plus(WiredOf(y), p, 1)
  BY <1>1, WiredMore
<1>3. WiredOf(y) \in Ledger
  BY WiredType
<1> QED
  BY <1>2, <1>3, PlusBack

(* The threads read in the same pages.                                     *)
SameReads(x, y) ==
  \A f \in Faulters : y[f].page = x[f].page /\ (x[f].page \in Pages => y[f].pte = x[f].pte)

(* Then the same PTEs are busy.                                            *)
LEMMA SameBusy ==
  ASSUME NEW x, NEW y, SameReads(x, y), NEW w
  PROVE  BusyOf(y) = BusyOf(x) /\ (ReadAlone(x, w) => ReadAlone(y, w))
<1>1. ASSUME NEW b \in PteAddr \X Pages, NEW f \in Faulters
      PROVE  b = << y[f].pte, y[f].page >> <=> b = << x[f].pte, x[f].page >>
  BY <1>1 DEF SameReads
<1>2. BusyOf(y) = BusyOf(x)
  BY <1>1 DEF BusyOf
<1>3. ReadAlone(x, w) => ReadAlone(y, w)
  BY DEF SameReads, ReadAlone
<1> QED
  BY <1>2, <1>3

(* The threads have wired the same tables.                                 *)
SameWirings(x, y) == \A f \in Faulters : y[f].pages = x[f].pages

(* Then the same wirings are owed.                                         *)
LEMMA SameWired ==
  ASSUME NEW x, NEW y, SameWirings(x, y), NEW s
  PROVE  WiredOf(y) = WiredOf(x) /\ (TablesWired(s, x) => TablesWired(s, y))
<1>1. ASSUME NEW q
      PROVE  {fl \in Faulters \X (1 .. Levels) : y[fl[1]].pages[fl[2]] = q}
               = {fl \in Faulters \X (1 .. Levels) : x[fl[1]].pages[fl[2]] = q}
  BY DEF SameWirings
<1>2. WiredOf(y) = WiredOf(x)
  BY <1>1 DEF WiredOf
<1>3. TablesWired(s, x) => TablesWired(s, y)
  BY DEF SameWirings, TablesWired
<1> QED
  BY <1>2, <1>3

(* The packets of the page writer that carry page q.                       *)
LEMMA PacketsFinite ==
  ASSUME NEW w \in WriterLocals, NEW q
  PROVE  /\ IsFiniteSet({i \in 1 .. Len(w.iops) : w.iops[i] = q})
         /\ Cardinality({i \in 1 .. Len(w.iops) : w.iops[i] = q}) \in Nat
<1>1. Len(w.iops) \in Nat
  BY DEF WriterLocals
<1>2. IsFiniteSet(1 .. Len(w.iops))
  BY <1>1, FS_Interval
<1>3. IsFiniteSet({i \in 1 .. Len(w.iops) : w.iops[i] = q})
  BY <1>2, FS_Subset
<1> QED
  BY <1>3, FS_CardinalityType

(* The references of the page writer are counted.                          *)
LEMMA HeldType ==
  ASSUME NEW w \in WriterLocals
  PROVE  HeldOf(w) \in Ledger /\ \A q \in Pages : HeldOf(w)[q] >= 0
<1> DEFINE H(q) == {i \in 1 .. Len(w.iops) : w.iops[i] = q}
<1>1. \A q : Cardinality(H(q)) \in Nat
  BY PacketsFinite
<1>2. HeldOf(w) = [q \in Pages |-> Cardinality(H(q)) + (IF w.page = q THEN 1 ELSE 0)]
  BY DEF HeldOf
<1> HIDE DEF H
<1> QED
  BY <1>1, <1>2 DEF Ledger

(* vmp_pgwriter() takes a page from the modified queue.                    *)
LEMMA HeldMore ==
  ASSUME NEW w \in WriterLocals, NEW v \in WriterLocals, NEW p \in Pages,
         v.iops = w.iops, w.page = NoPage, v.page = p
  PROVE  HeldOf(v) = Plus(HeldOf(w), p, 1)
<1> DEFINE H(q) == Cardinality({i \in 1 .. Len(w.iops) : w.iops[i] = q})
           l == Plus(HeldOf(w), p, 1)
<1>1. NoPage \notin Pages
  BY DEF NoPage, Pages
<1>2. HeldOf(w) \in Ledger /\ HeldOf(v) \in Ledger
  BY HeldType
<1>3. l \in Ledger /\ l[p] = HeldOf(w)[p] + 1 /\ \A q \in Pages \ {p} : l[q] = HeldOf(w)[q]
  BY <1>2, PlusAt
<1>4. \A q \in Pages : /\ HeldOf(w)[q] = H(q) + (IF w.page = q THEN 1 ELSE 0)
                       /\ HeldOf(v)[q] = H(q) + (IF v.page = q THEN 1 ELSE 0)
  BY DEF HeldOf
<1> HIDE DEF H, l
<1>5. \A q \in Pages : HeldOf(w)[q] = H(q) + 0
  BY <1>1, <1>4
<1>6. \A q \in Pages : HeldOf(v)[q] = l[q]
  <2> TAKE q \in Pages
  <2>1. HeldOf(v)[q] = H(q) + (IF p = q THEN 1 ELSE 0) /\ HeldOf(w)[q] = H(q) + 0
    BY <1>4, <1>5
  <2>2. HeldOf(w)[q] \in Int
    BY <1>2 DEF Ledger
  <2>3. H(q) \in Int
    BY PacketsFinite, SMTT(60) DEF H
  <2> QED
    BY <1>3, <2>1, <2>2, <2>3
<1>7. HeldOf(v) = l
  BY <1>2, <1>3, <1>6 DEF Ledger
<1> QED
  BY <1>7 DEF l

(* iop_send() of its write hands the reference to the packet.              *)
LEMMA HeldSent ==
  ASSUME NEW w \in WriterLocals, NEW v \in WriterLocals, w.page \in Pages,
         v.iops = Append(w.iops, w.page), v.page = NoPage
  PROVE  HeldOf(v) = HeldOf(w)
<1> DEFINE n == Len(w.iops)
           A(q) == {i \in 1 .. Len(w.iops) : w.iops[i] = q}
           B(q) == {i \in 1 .. Len(v.iops) : v.iops[i] = q}
<1>1. NoPage \notin Pages
  BY DEF NoPage, Pages
<1>2. w.iops \in Seq(Pages) /\ n \in Nat
  BY DEF WriterLocals
<1>3. /\ Len(v.iops) = n + 1 /\ v.iops[n + 1] = w.page
      /\ \A i \in 1 .. n : v.iops[i] = w.iops[i]
  BY <1>2
<1>4. ASSUME NEW q \in Pages
      PROVE  Cardinality(B(q)) = Cardinality(A(q)) + (IF w.page = q THEN 1 ELSE 0)
  <2>1. IsFiniteSet(A(q))
    BY PacketsFinite
  <2>2. \A j : j # n + 1 => (j \in B(q) <=> j \in A(q))
    BY <1>2, <1>3
  <2>3. n + 1 \notin A(q) /\ (n + 1 \in B(q) <=> w.page = q)
    BY <1>2, <1>3
  <2> HIDE DEF A, B, n
  <2>4. Cardinality(B(q)) = Cardinality(A(q)) + (IF n + 1 \in B(q) THEN 1 ELSE 0)
                              - (IF n + 1 \in A(q) THEN 1 ELSE 0)
    BY <2>1, <2>2, OneIndex
  <2>5. Cardinality(A(q)) \in Nat
    BY <2>1, FS_CardinalityType
  <2> QED
    BY <2>3, <2>4, <2>5
<1>5. /\ HeldOf(w) = [q \in Pages |-> Cardinality(A(q)) + (IF w.page = q THEN 1 ELSE 0)]
      /\ HeldOf(v) = [q \in Pages |-> Cardinality(B(q)) + (IF v.page = q THEN 1 ELSE 0)]
  BY DEF HeldOf
<1>6. HeldOf(w) \in Ledger /\ HeldOf(v) \in Ledger
  BY HeldType
<1>7. \A q \in Pages : Cardinality(A(q)) \in Nat
  BY PacketsFinite
<1> HIDE DEF A, B
<1>8. \A q \in Pages : HeldOf(v)[q] = HeldOf(w)[q]
  <2> TAKE q \in Pages
  <2>1. /\ HeldOf(w)[q] = Cardinality(A(q)) + (IF w.page = q THEN 1 ELSE 0)
        /\ HeldOf(v)[q] = Cardinality(B(q)) + 0
    BY <1>1, <1>5
  <2> QED
    BY <1>4, <1>7, <2>1
<1> QED
  BY <1>6, <1>8 DEF Ledger

(* vm_mdl_release_pages() gives back the reference of the first packet.    *)
LEMMA HeldLess ==
  ASSUME NEW w \in WriterLocals, NEW v \in WriterLocals, w.iops # << >>,
         v.iops = Tail(w.iops), v.page = w.page
  PROVE  Head(w.iops) \in Pages /\ HeldOf(v) = Plus(HeldOf(w), Head(w.iops), -1)
<1> DEFINE n == Len(w.iops)
           p == Head(w.iops)
           A(q) == {i \in 1 .. Len(w.iops) : w.iops[i] = q}
           B(q) == {i \in 1 .. Len(v.iops) : v.iops[i] = q}
           C(q) == {i \in 2 .. n : w.iops[i] = q}
           l == Plus(HeldOf(w), p, -1)
<1>1. w.iops \in Seq(Pages) /\ n \in Nat /\ n >= 1 /\ p \in Pages /\ p = w.iops[1]
  BY DEF WriterLocals
<1>2. Len(v.iops) = n - 1 /\ \A i \in 1 .. n - 1 : v.iops[i] = w.iops[i + 1]
  BY <1>1
<1> HIDE DEF n, p
<1>3. ASSUME NEW q \in Pages
      PROVE  /\ Cardinality(B(q)) = Cardinality(A(q)) - (IF p = q THEN 1 ELSE 0)
             /\ Cardinality(A(q)) \in Nat
  <2>1. IsFiniteSet(A(q))
    BY PacketsFinite
  <2>2. \A j : j # 1 => (j \in C(q) <=> j \in A(q))
    BY <1>1 DEF n
  <2>3. 1 \notin C(q) /\ (1 \in A(q) <=> p = q)
    BY <1>1 DEF n
  <2>4. IsFiniteSet(C(q))
    <3>1. C(q) \in SUBSET A(q)
      BY <1>1 DEF n
    <3> HIDE DEF A, C
    <3> QED
      BY <2>1, <3>1, FS_Subset
  <2>5. ExistsBijection(C(q), B(q))
    <3> DEFINE f == [i \in C(q) |-> i - 1]
    <3>1. \A i \in C(q) : i - 1 \in B(q)
      BY <1>1, <1>2
    <3>2. \A j \in B(q) : j + 1 \in C(q) /\ (j + 1) - 1 = j
      BY <1>1, <1>2
    <3>3. C(q) \subseteq Int
      OBVIOUS
    <3> HIDE DEF B, C
    <3>4. f \in [C(q) -> B(q)]
      BY <3>1
    <3>5. \A i, j \in C(q) : f[i] = f[j] => i = j
      BY <3>3
    <3>6. \A j \in B(q) : \E i \in C(q) : f[i] = j
      BY <3>2
    <3> HIDE DEF f
    <3>7. f \in Bijection(C(q), B(q))
      BY <3>4, <3>5, <3>6 DEF Bijection, Injection, IsInjective, Surjection
    <3> QED
      BY <3>7 DEF ExistsBijection
  <2> HIDE DEF A, B, C
  <2>6. Cardinality(B(q)) = Cardinality(C(q))
    BY <2>4, <2>5, FS_Bijection
  <2>7. Cardinality(C(q)) = Cardinality(A(q)) + (IF 1 \in C(q) THEN 1 ELSE 0)
                              - (IF 1 \in A(q) THEN 1 ELSE 0)
    BY <2>1, <2>2, OneIndex
  <2>8. Cardinality(A(q)) \in Nat
    BY <2>1, FS_CardinalityType
  <2> QED
    BY <2>3, <2>6, <2>7, <2>8
<1>4. /\ HeldOf(w) = [q \in Pages |-> Cardinality(A(q)) + (IF w.page = q THEN 1 ELSE 0)]
      /\ HeldOf(v) = [q \in Pages |-> Cardinality(B(q)) + (IF w.page = q THEN 1 ELSE 0)]
  BY DEF HeldOf
<1>5. HeldOf(w) \in Ledger /\ HeldOf(v) \in Ledger
  BY HeldType
<1>6. l \in Ledger /\ l[p] = HeldOf(w)[p] + (-1) /\ \A q \in Pages \ {p} : l[q] = HeldOf(w)[q]
  BY <1>1, <1>5, PlusAt, -1 \in Int, ZenonT(60)
<1> HIDE DEF A, B, C, l
<1>7. \A q \in Pages : HeldOf(v)[q] = l[q]
  <2> TAKE q \in Pages
  <2> DEFINE h == IF w.page = q THEN 1 ELSE 0
  <2>1. HeldOf(w)[q] = Cardinality(A(q)) + h /\ HeldOf(v)[q] = Cardinality(B(q)) + h
    BY <1>4
  <2>2. h \in Int
    OBVIOUS
  <2> HIDE DEF h
  <2>3. CASE q = p
    BY <1>3, <1>6, <2>1, <2>2, <2>3
  <2>4. CASE q # p
    BY <1>3, <1>6, <2>1, <2>2, <2>4
  <2> QED
    BY <2>3, <2>4
<1>8. HeldOf(v) = l
  BY <1>5, <1>6, <1>7 DEF Ledger
<1> QED
  BY <1>1, <1>8 DEF l, p
-----------------------------------------------------------------------------
(* What each kind of critical section leaves owed to the threads.          *)

(* A page that the page writer holds has a reference.                      *)
LEMMA HeldRefd ==
  ASSUME NEW s \in VmStates, NEW x, NEW w \in WriterLocals, Owing(s, x, w), NEW q \in Pages
  PROVE  /\ HeldOf(w)[q] > 0 => s.page[q].refcnt > 0
         /\ s.page[q].refcnt = 0 => HeldOf(w)[q] = 0
<1>1. s.page[q].refcnt = HeldOf(w)[q] + Base(s, Home(s), NoPage, q)
  BY DEF Owing, Maps, Referenced
<1>2. HeldOf(w)[q] \in Int /\ HeldOf(w)[q] >= 0
  BY HeldType DEF Ledger
<1>3. HeldOf(w)[q] > 0 => Base(s, Home(s), NoPage, q) \in {0, 1}
  BY DEF Owing, AnonHeld, Base
<1> QED
  BY <1>1, <1>2, <1>3

(* A page that is read in has a reference.                                 *)
LEMMA ReadRefd ==
  ASSUME NEW s \in VmStates, NEW x \in [Faulters -> FaultLocals], NEW w \in WriterLocals,
         Owing(s, x, w), NEW f \in Faulters, x[f].page \in Pages
  PROVE  /\ << x[f].pte, x[f].page >> \in BusyOf(x) /\ x[f].pte \in PteAddr
         /\ IsAnon(s, x[f].page) /\ Entry(s, x[f].pte).kind = "Busy"
         /\ s.page[x[f].pte[1]].use = "PML1"
         /\ s.page[x[f].page].referent = x[f].pte /\ s.page[x[f].page].refcnt = 1
<1> DEFINE q == x[f].page
           a == x[f].pte
<1>1. a \in PteAddr
  BY DEF FaultLocals
<1>2. << a, q >> \in BusyOf(x)
  BY <1>1 DEF BusyOf
<1>3. q \in Pages
  OBVIOUS
<1> HIDE DEF a, q
<1>4. /\ Entry(s, a).kind = "Busy" /\ Home(s)[q] = a /\ IsAnon(s, q)
      /\ s.page[a[1]].use = "PML1" /\ q # NoPage
  BY <1>1, <1>2, <1>3 DEF Owing, Maps, Linked, BusyLinked
<1>5. s.page[q].referent = a
  BY <1>3, <1>4 DEF Home
<1>6. HeldOf(w)[q] = 0
  BY <1>3 DEF Owing, ReadAlone, q
<1>7. s.page[q].refcnt = 1
  <2>1. s.page[q].refcnt = 0 + Base(s, Home(s), NoPage, q)
    BY <1>3, <1>6 DEF Owing, Maps, Referenced
  <2>2. Base(s, Home(s), NoPage, q) = 1
    BY <1>4 DEF Base, Mapped
  <2> QED
    BY <2>1, <2>2
<1> QED
  BY <1>1, <1>2, <1>4, <1>5, <1>7 DEF a, q

(* A page without a reference is neither written out nor read in.          *)
LEMMA Unowed ==
  ASSUME NEW s \in VmStates, NEW x \in [Faulters -> FaultLocals], NEW w \in WriterLocals,
         Owing(s, x, w), NEW p \in Pages, s.page[p].refcnt = 0
  PROVE  HeldOf(w)[p] = 0 /\ \A f \in Faulters : x[f].page # p
<1>1. HeldOf(w)[p] = 0
  BY HeldRefd
<1>2. ASSUME NEW f \in Faulters, x[f].page = p PROVE FALSE
  <2>1. s.page[x[f].page].refcnt = 1
    BY <1>2, ReadRefd
  <2> QED
    BY <1>2, <2>1
<1> QED
  BY <1>1, <1>2

(* The levels have the uses of page tables.                                *)
LEMMA LevelUse ==
  ASSUME NEW k \in 1 .. Levels
  PROVE  TableUse[k] \in TableUses
<1>1. k \in {1, 2, 3, 4}
  BY VmAssumption
<1> QED
  BY <1>1 DEF TableUse, TableUses

(* Wired tables and pages being written keep their use.                    *)
LEMMA KeptUses ==
  ASSUME NEW s \in VmStates, NEW t, NEW x, NEW w \in WriterLocals, Owing(s, x, w), Kept(s, t)
  PROVE  TablesWired(t, x) /\ AnonHeld(t, w)
<1>1. ASSUME NEW f \in Faulters, NEW k \in 1 .. Levels, x[f].pages[k] \in Pages
      PROVE  t.page[x[f].pages[k]].use = TableUse[k]
  <2>1. s.page[x[f].pages[k]].use = TableUse[k]
    BY <1>1 DEF Owing, TablesWired
  <2>2. IsTable(s, x[f].pages[k])
    BY <2>1, LevelUse DEF IsTable
  <2> QED
    BY <1>1, <2>1, <2>2 DEF Kept
<1>2. ASSUME NEW q \in Pages, HeldOf(w)[q] > 0
      PROVE  IsAnon(t, q)
  <2>1. IsAnon(s, q) /\ s.page[q].refcnt > 0
    BY <1>2, HeldRefd DEF Owing, AnonHeld
  <2> QED
    BY <2>1 DEF Kept, IsAnon
<1> QED
  BY <1>1, <1>2 DEF TablesWired, AnonHeld

(* A section that owes nothing more.                                       *)
LEMMA OwingSame ==
  ASSUME NEW s \in VmStates, NEW t, NEW x, NEW y, NEW w \in WriterLocals, NEW v,
         Owing(s, x, w), Kept(s, t), SameReads(x, y), SameWirings(x, y), HeldOf(v) = HeldOf(w),
         Maps(t, Home(t), NoPage, BusyOf(x), WiredOf(x), WiredOf(x), HeldOf(w))
  PROVE  Owing(t, y, v)
<1>1. TablesWired(t, x) /\ AnonHeld(t, w)
  BY KeptUses
<1>2. WiredOf(y) = WiredOf(x) /\ TablesWired(t, y)
  BY <1>1, SameWired
<1>3. BusyOf(y) = BusyOf(x) /\ ReadAlone(y, w)
  BY SameBusy DEF Owing
<1>4. AnonHeld(t, v) /\ ReadAlone(y, v)
  BY <1>1, <1>3 DEF AnonHeld, ReadAlone
<1> QED
  BY <1>2, <1>3, <1>4 DEF Owing

(* A section that wires a table for level k.                               *)
LEMMA OwingWired ==
  ASSUME NEW s \in VmStates, NEW t, NEW x, NEW y, NEW w \in WriterLocals,
         NEW f \in Faulters, NEW k \in 1 .. Levels, NEW p \in Pages,
         Owing(s, x, w), Kept(s, t), SameReads(x, y), Rewired(x, y, f, k),
         x[f].pages[k] = NoPage, y[f].pages[k] = p, t.page[p].use = TableUse[k],
         Maps(t, Home(t), NoPage, BusyOf(x),
              Plus(WiredOf(x), p, 1), Plus(WiredOf(x), p, 1), HeldOf(w))
  PROVE  Owing(t, y, w)
<1>1. TablesWired(t, x) /\ AnonHeld(t, w)
  BY KeptUses
<1>2. WiredOf(y) = Plus(WiredOf(x), p, 1)
  BY WiredMore
<1>3. BusyOf(y) = BusyOf(x) /\ ReadAlone(y, w)
  BY SameBusy DEF Owing
<1>4. TablesWired(t, y)
  BY <1>1 DEF TablesWired, Rewired
<1> QED
  BY <1>1, <1>2, <1>3, <1>4 DEF Owing

(* A section that gives a wiring back.                                     *)
LEMMA OwingUnwired ==
  ASSUME NEW s \in VmStates, NEW t, NEW x, NEW y, NEW w \in WriterLocals,
         NEW f \in Faulters, NEW k \in 1 .. Levels, NEW p \in Pages,
         Owing(s, x, w), Unpinned(s, t, p), IsTable(s, p), SameReads(x, y), Rewired(x, y, f, k),
         x[f].pages[k] = p, y[f].pages[k] = NoPage,
         Maps(t, Home(t), NoPage, BusyOf(x),
              Plus(WiredOf(x), p, -1), Plus(WiredOf(x), p, -1), HeldOf(w))
  PROVE  Owing(t, y, w)
<1>1. NoPage \notin Pages
  BY DEF NoPage, Pages
<1>2. WiredOf(y) = Plus(WiredOf(x), p, -1)
  BY WiredLess
<1>3. BusyOf(y) = BusyOf(x) /\ ReadAlone(y, w)
  BY SameBusy DEF Owing
<1>4. Counted(t, WiredOf(y), WiredOf(y))
  BY <1>2 DEF Maps
<1>5. TablesWired(t, y)
  <2> SUFFICES ASSUME NEW g \in Faulters, NEW j \in 1 .. Levels, y[g].pages[j] \in Pages
               PROVE  t.page[y[g].pages[j]].use = TableUse[j]
    BY DEF TablesWired
  <2> DEFINE q == y[g].pages[j]
  <2>1. q = x[g].pages[j]
    BY <1>1 DEF Rewired
  <2>2. s.page[q].use = TableUse[j] /\ q \in Pages
    BY <2>1 DEF Owing, TablesWired
  <2>3. WiredOf(y)[q] >= 1
    BY <2>2, WiredType
  <2> HIDE DEF q
  <2>4. IsTable(t, q)
    BY <1>4, <2>2, <2>3 DEF Counted
  <2>5. t.page[q].use = s.page[q].use
    BY <2>2, <2>4 DEF Unpinned
  <2> QED
    BY <2>2, <2>5 DEF q
<1>6. AnonHeld(t, w)
  <2> SUFFICES ASSUME NEW q \in Pages, HeldOf(w)[q] > 0 PROVE IsAnon(t, q)
    BY DEF AnonHeld
  <2>1. IsAnon(s, q)
    BY DEF Owing, AnonHeld
  <2>2. q # p
    BY <2>1 DEF IsAnon, IsTable, TableUses
  <2> QED
    BY <2>1, <2>2 DEF Unpinned, IsAnon
<1> QED
  BY <1>2, <1>3, <1>5, <1>6 DEF Owing

(* The locals differ in what thread f reads in.                            *)
Rereads(x, y, f) ==
  \A g \in Faulters \ {f} : y[g].page = x[g].page /\ y[g].pte = x[g].pte

(* A section that starts to read page p in through the PTE at a.           *)
LEMMA OwingRead ==
  ASSUME NEW s \in VmStates, NEW t, NEW x \in [Faulters -> FaultLocals], NEW y,
         NEW w \in WriterLocals, NEW f \in Faulters, NEW p \in Pages, NEW a \in PteAddr,
         Owing(s, x, w), Kept(s, t), SameWirings(x, y), Rereads(x, y, f),
         x[f].page = NoPage, y[f].page = p, y[f].pte = a, s.page[p].refcnt = 0,
         Maps(t, Home(t), NoPage, BusyOf(x) \cup {<< a, p >>}, WiredOf(x), WiredOf(x), HeldOf(w))
  PROVE  Owing(t, y, w)
<1>1. NoPage \notin Pages
  BY DEF NoPage, Pages
<1>2. TablesWired(t, x) /\ AnonHeld(t, w)
  BY KeptUses
<1>3. WiredOf(y) = WiredOf(x) /\ TablesWired(t, y)
  BY <1>2, SameWired
<1>4. HeldOf(w)[p] = 0 /\ \A g \in Faulters : x[g].page # p
  BY Unowed
<1>5. BusyOf(y) = BusyOf(x) \cup {<< a, p >>}
  <2>1. ASSUME NEW b \in PteAddr \X Pages
        PROVE  (\E g \in Faulters : b = << y[g].pte, y[g].page >>)
                 <=> (\E g \in Faulters : b = << x[g].pte, x[g].page >>) \/ b = << a, p >>
    <3>1. b # << x[f].pte, x[f].page >>
      BY <1>1
    <3>2. \A g \in Faulters \ {f} :
            b = << y[g].pte, y[g].page >> <=> b = << x[g].pte, x[g].page >>
      BY DEF Rereads
    <3> QED
      BY <3>1, <3>2
  <2>2. << a, p >> \in PteAddr \X Pages
    OBVIOUS
  <2> QED
    BY <2>1, <2>2 DEF BusyOf
<1>6. ReadAlone(y, w)
  <2>1. ASSUME NEW g \in Faulters, NEW h \in Faulters, y[g].page \in Pages, y[g].page = y[h].page
        PROVE  g = h
    BY <1>4, <2>1 DEF Rereads, Owing, ReadAlone
  <2>2. ASSUME NEW g \in Faulters, y[g].page \in Pages
        PROVE  HeldOf(w)[y[g].page] = 0
    BY <1>4, <2>2 DEF Rereads, Owing, ReadAlone
  <2> QED
    BY <2>1, <2>2 DEF ReadAlone
<1> QED
  BY <1>2, <1>3, <1>5, <1>6 DEF Owing

(* The section at the end of the read.                                     *)
LEMMA OwingFinished ==
  ASSUME NEW s \in VmStates, NEW t, NEW x \in [Faulters -> FaultLocals], NEW y,
         NEW w \in WriterLocals, NEW f \in Faulters, x[f].page \in Pages,
         Owing(s, x, w), Kept(s, t), SameWirings(x, y), Rereads(x, y, f), y[f].page = NoPage,
         Maps(t, Home(t), NoPage, BusyOf(x) \ {<< x[f].pte, x[f].page >>},
              WiredOf(x), WiredOf(x), HeldOf(w))
  PROVE  Owing(t, y, w)
<1>1. NoPage \notin Pages
  BY DEF NoPage, Pages
<1>2. TablesWired(t, x) /\ AnonHeld(t, w)
  BY KeptUses
<1>3. WiredOf(y) = WiredOf(x) /\ TablesWired(t, y)
  BY <1>2, SameWired
<1>4. BusyOf(y) = BusyOf(x) \ {<< x[f].pte, x[f].page >>}
  <2>1. ASSUME NEW b \in PteAddr \X Pages
        PROVE  (\E g \in Faulters : b = << y[g].pte, y[g].page >>)
                 <=> /\ \E g \in Faulters : b = << x[g].pte, x[g].page >>
                     /\ b # << x[f].pte, x[f].page >>
    <3>1. b # << y[f].pte, y[f].page >>
      BY <1>1
    <3>2. \A g \in Faulters \ {f} :
            b = << y[g].pte, y[g].page >> <=> b = << x[g].pte, x[g].page >>
      BY DEF Rereads
    <3>3. \A g \in Faulters \ {f} :
            b = << x[g].pte, x[g].page >> => b # << x[f].pte, x[f].page >>
      BY DEF Owing, ReadAlone
    <3> QED
      BY <3>1, <3>2, <3>3
  <2> QED
    BY <2>1 DEF BusyOf
<1>5. ReadAlone(y, w)
  BY <1>1 DEF Rereads, Owing, ReadAlone
<1> QED
  BY <1>2, <1>3, <1>4, <1>5 DEF Owing

(* The page writer takes a reference to page p.                            *)
LEMMA OwingHeld ==
  ASSUME NEW s \in VmStates, NEW t, NEW x \in [Faulters -> FaultLocals],
         NEW w \in WriterLocals, NEW v \in WriterLocals, NEW p \in Pages,
         Owing(s, x, w), Kept(s, t), IsAnon(s, p), t.page[p].use = s.page[p].use,
         s.page[p].refcnt = 0, v.iops = w.iops, w.page = NoPage, v.page = p,
         Maps(t, Home(t), NoPage, BusyOf(x), WiredOf(x), WiredOf(x), Plus(HeldOf(w), p, 1))
  PROVE  Owing(t, x, v)
<1>1. TablesWired(t, x) /\ AnonHeld(t, w)
  BY KeptUses
<1>2. HeldOf(v) = Plus(HeldOf(w), p, 1)
  BY HeldMore
<1>3. HeldOf(w)[p] = 0 /\ \A g \in Faulters : x[g].page # p
  BY Unowed
<1>4. HeldOf(w) \in Ledger
  BY HeldType
<1>5. \A q \in Pages \ {p} : HeldOf(v)[q] = HeldOf(w)[q]
  <2>1. 1 \in Int
    OBVIOUS
  <2>2. \A q \in Pages \ {p} : Plus(HeldOf(w), p, 1)[q] = HeldOf(w)[q]
    BY ONLY <1>4, <2>1, p \in Pages, PlusAt
  <2> QED
    BY <1>2, <2>2
<1>6. AnonHeld(t, v)
  BY <1>1, <1>5 DEF AnonHeld, IsAnon
<1>7. ReadAlone(x, v)
  BY <1>3, <1>5 DEF Owing, ReadAlone
<1> QED
  BY <1>1, <1>2, <1>6, <1>7 DEF Owing

(* The page writer gives a reference back.                                 *)
LEMMA OwingReleased ==
  ASSUME NEW s \in VmStates, NEW t, NEW x, NEW w \in WriterLocals, NEW v \in WriterLocals,
         Owing(s, x, w), Kept(s, t), w.iops # << >>, v.iops = Tail(w.iops), v.page = w.page,
         Maps(t, Home(t), NoPage, BusyOf(x), WiredOf(x), WiredOf(x),
              Plus(HeldOf(w), Head(w.iops), -1))
  PROVE  Owing(t, x, v)
<1> DEFINE p == Head(w.iops)
<1>1. TablesWired(t, x) /\ AnonHeld(t, w)
  BY KeptUses
<1>2. p \in Pages /\ HeldOf(v) = Plus(HeldOf(w), p, -1)
  BY HeldLess
<1> HIDE DEF p
<1>3. HeldOf(w) \in Ledger /\ HeldOf(v) \in Ledger /\ HeldOf(v)[p] >= 0
  BY <1>2, HeldType
<1>4. HeldOf(v)[p] = HeldOf(w)[p] + (-1) /\ \A q \in Pages \ {p} : HeldOf(v)[q] = HeldOf(w)[q]
  <2>1. -1 \in Int
    OBVIOUS
  <2>2. /\ Plus(HeldOf(w), p, -1)[p] = HeldOf(w)[p] + (-1)
        /\ \A q \in Pages \ {p} : Plus(HeldOf(w), p, -1)[q] = HeldOf(w)[q]
    BY ONLY <1>2, <1>3, <2>1, PlusAt
  <2> QED
    BY <1>2, <2>2
<1>5. HeldOf(w)[p] > 0
  <2>1. HeldOf(w)[p] \in Int
    BY <1>2, <1>3 DEF Ledger
  <2> QED
    BY <1>3, <1>4, <2>1
<1>6. AnonHeld(t, v)
  BY <1>1, <1>4, <1>5 DEF AnonHeld
<1>7. ReadAlone(x, v)
  BY <1>2, <1>4, <1>5 DEF Owing, ReadAlone
<1> QED
  BY <1>1, <1>2, <1>6, <1>7 DEF Owing, p
-----------------------------------------------------------------------------
(* The locals of the threads.                                              *)
ReadPcs == {"read", "readVad", "readWs", "finish"}

Idle(x) == x.page = NoPage /\ \A k \in 1 .. Levels : x.pages[k] = NoPage

(* A thread that is not in do_fault() has nothing.                         *)
LEMMA IdleMap ==
  ASSUME NEW x
  PROVE  /\ \A c : Idle(x) => LocalMap(c, x)
         /\ \A c \in {"user", "access", "translate", "vad", "ws", "sleep"} :
              LocalMap(c, x) => Idle(x)
  BY DEF Idle, LocalMap

(* A step of thread f to pc state c, after which its locals are x, or a    *)
(* failed assertion in it.                                                 *)
LEMMA FaulterMoves ==
  ASSUME TypeInv, LocalMaps, NEW f \in Faulters, NEW c, NEW x,
         vm.panic = NoPanic, pc' = [pc EXCEPT ![f] = c], wr' = wr,
         \/ flt' = [flt EXCEPT ![f] = x] /\ LocalMap(c, x) /\ (c \in ReadPcs => x.page \in Pages)
         \/ flt' = flt /\ vm'.panic # NoPanic /\ (c \in ReadPcs => flt[f].page \in Pages)
  PROVE  LocalMaps'
<1>1. /\ flt \in [Faulters -> FaultLocals] /\ pc \in [Threads -> PcStates]
      /\ f \in Threads /\ "pgwriter" \in Threads /\ f # "pgwriter"
  BY VmmAssumption DEF TypeInv, TypeOK, Threads
<1>2. pc'[f] = c /\ \A g \in Faulters \ {f} : pc'[g] = pc[g]
  BY <1>1 DEF Threads
<1>3. pc'["pgwriter"] = pc["pgwriter"]
  BY <1>1
<1>4. \A g \in Faulters \ {f} : flt'[g] = flt[g]
  BY <1>1
<1>5. vm'.panic = NoPanic => \A g \in Faulters : LocalMap(pc'[g], flt'[g])
  BY <1>1, <1>2, <1>4 DEF LocalMaps
<1>6. \A g \in Faulters : pc'[g] \in ReadPcs => flt'[g].page \in Pages
  BY <1>1, <1>2, <1>4 DEF LocalMaps, ReadPcs
<1> QED
  BY <1>3, <1>5, <1>6 DEF LocalMaps, ReadPcs

(* A step of another thread.                                               *)
LEMMA OthersMove ==
  ASSUME LocalMaps, vm'.panic = NoPanic => vm.panic = NoPanic, flt' = flt,
         \A g \in Faulters : pc'[g] = pc[g], pc'["pgwriter"] # "send" => wr'.page = NoPage
  PROVE  LocalMaps'
  BY DEF LocalMaps

(* What a change of the locals of one thread leaves alone.                 *)
LEMMA OneThread ==
  ASSUME NEW y \in [Faulters -> FaultLocals], NEW f \in Faulters, NEW x
  PROVE  LET z == [y EXCEPT ![f] = x]
         IN  /\ z[f] = x /\ Rereads(y, z, f)
             /\ x.page = y[f].page /\ (x.page \in Pages => x.pte = y[f].pte) => SameReads(y, z)
             /\ x.pages = y[f].pages => SameWirings(y, z)
             /\ \A k \in 1 .. Levels :
                  (\A j \in 1 .. Levels \ {k} : x.pages[j] = y[f].pages[j]) => Rewired(y, z, f, k)
<1> DEFINE z == [y EXCEPT ![f] = x]
<1>1. z[f] = x /\ \A g \in Faulters \ {f} : z[g] = y[g]
  OBVIOUS
<1> HIDE DEF z
<1>2. Rereads(y, z, f)
  BY <1>1 DEF Rereads
<1>3. x.page = y[f].page /\ (x.page \in Pages => x.pte = y[f].pte) => SameReads(y, z)
  BY <1>1 DEF SameReads
<1>4. x.pages = y[f].pages => SameWirings(y, z)
  BY <1>1 DEF SameWirings
<1>5. ASSUME NEW k \in 1 .. Levels, \A j \in 1 .. Levels \ {k} : x.pages[j] = y[f].pages[j]
      PROVE  Rewired(y, z, f, k)
  BY <1>1, <1>5 DEF Rewired
<1> QED
  BY <1>1, <1>2, <1>3, <1>4, <1>5 DEF z

(* A step that changes neither the tables nor the pages.                   *)
LEMMA SameOwing ==
  ASSUME NEW s \in VmStates, NEW t, NEW x, NEW y, NEW w \in WriterLocals, NEW v,
         Owing(s, x, w), Same(s, t), SameReads(x, y), SameWirings(x, y), HeldOf(v) = HeldOf(w)
  PROVE  Owing(t, y, v)
<1>1. Steady(s, t)
  BY DEF Same, SameRec, Steady
<1>2. Home(t) = Home(s) /\ Kept(s, t)
  BY <1>1, SteadyHome
<1>3. Maps(t, Home(t), NoPage, BusyOf(x), WiredOf(x), WiredOf(x), HeldOf(w))
  BY <1>2, SameMaps DEF Owing
<1> QED
  BY <1>2, <1>3, OwingSame

(* A step of thread f that is a critical section ending in state s.        *)
LEMMA FaultCommits ==
  ASSUME MapInv, NEW f \in Faulters, NEW c, NEW s, NEW x,
         vm.panic = NoPanic, pc' = [pc EXCEPT ![f] = c], CommitFault(f, s, x),
         s.panic = NoPanic => /\ LocalMap(c, x) /\ (c \in ReadPcs => x.page \in Pages)
                              /\ Owing(s, [flt EXCEPT ![f] = x], wr),
         c \in ReadPcs => flt[f].page \in Pages
  PROVE  LocalMaps' /\ Owing(vm', flt', wr')
<1>1. TypeInv /\ LocalMaps /\ vm \in VmStates /\ wr \in WriterLocals /\ Owing(vm, flt, wr)
  BY DEF MapInv, TypeInv, TypeOK
<1>2. CASE s.panic = NoPanic
  <2>1. vm' = s /\ flt' = [flt EXCEPT ![f] = x] /\ wr' = wr
    BY <1>2 DEF CommitFault, Commit
  <2>2. LocalMaps'
    BY <1>1, <1>2, <2>1, FaulterMoves
  <2> QED
    BY <1>2, <2>1, <2>2
<1>3. CASE s.panic # NoPanic
  <2>1. vm' = [vm EXCEPT !.panic = s.panic] /\ flt' = flt /\ wr' = wr
    BY <1>3 DEF CommitFault, Commit
  <2>2. vm'.panic # NoPanic /\ Same(vm, vm')
    BY <1>1, <1>3, <2>1 DEF VmStates, Same, SameRec
  <2>3. SameReads(flt, flt') /\ SameWirings(flt, flt')
    BY <2>1 DEF SameReads, SameWirings
  <2>4. LocalMaps'
    BY <1>1, <2>1, <2>2, FaulterMoves
  <2>5. Owing(vm', flt', wr')
    BY <1>1, <2>1, <2>2, <2>3, SameOwing
  <2> QED
    BY <2>4, <2>5
<1> QED
  BY <1>2, <1>3

(* A step of thread f outside a critical section.                          *)
LEMMA FaulterPasses ==
  ASSUME MapInv, NEW f \in Faulters, NEW c, NEW x,
         vm.panic = NoPanic, pc' = [pc EXCEPT ![f] = c], Same(vm, vm'), wr' = wr,
         flt' = [flt EXCEPT ![f] = x], x.pages = flt[f].pages, x.page = flt[f].page,
         x.page \in Pages => x.pte = flt[f].pte,
         LocalMap(c, x), c \in ReadPcs => x.page \in Pages
  PROVE  LocalMaps' /\ Owing(vm', flt', wr')
<1>1. /\ TypeInv /\ LocalMaps /\ vm \in VmStates /\ wr \in WriterLocals /\ Owing(vm, flt, wr)
      /\ flt \in [Faulters -> FaultLocals]
  BY DEF MapInv, TypeInv, TypeOK
<1>2. LocalMaps'
  BY <1>1, FaulterMoves
<1>3. SameReads(flt, flt') /\ SameWirings(flt, flt')
  BY <1>1, OneThread
<1>4. Owing(vm', flt', wr')
  BY <1>1, <1>3, SameOwing
<1> QED
  BY <1>2, <1>4

(* What is known of thread f.                                              *)
LEMMA MapFacts ==
  ASSUME MapInv, vm.panic = NoPanic, NEW f \in Faulters
  PROVE  /\ vm \in VmStates /\ flt \in [Faulters -> FaultLocals] /\ wr \in WriterLocals
         /\ Placed(vm, NoPage) /\ Owing(vm, flt, wr) /\ TypeInv
         /\ flt[f] \in FaultLocals /\ LocalOK(pc[f], flt[f]) /\ LocalMap(pc[f], flt[f])
         /\ flt[f].pages \in [1 .. Levels -> Pages \cup {NoPage}]
         /\ WiredOf(flt) \in Ledger /\ HeldOf(wr) \in Ledger
         /\ \A q \in Pages : HeldOf(wr)[q] >= 0
         /\ Maps(vm, Home(vm), NoPage, BusyOf(flt), WiredOf(flt), WiredOf(flt), HeldOf(wr))
         /\ NoPage \notin Pages
<1>1. /\ vm \in VmStates /\ flt \in [Faulters -> FaultLocals] /\ wr \in WriterLocals
      /\ Placed(vm, NoPage) /\ Owing(vm, flt, wr) /\ TypeInv /\ LocalMap(pc[f], flt[f])
      /\ LocalOK(pc[f], flt[f])
  BY DEF MapInv, TypeInv, TypeOK, LocalMaps, LocalsOK
<1>2. flt[f] \in FaultLocals
  BY <1>1
<1>3. flt[f].pages \in [1 .. Levels -> Pages \cup {NoPage}]
  BY <1>2 DEF FaultLocals
<1>4. WiredOf(flt) \in Ledger /\ HeldOf(wr) \in Ledger /\ \A q \in Pages : HeldOf(wr)[q] >= 0
  BY <1>1, WiredType, HeldType
<1>5. NoPage \notin Pages
  BY DEF NoPage, Pages
<1> QED
  BY <1>1, <1>2, <1>3, <1>4, <1>5 DEF Owing

(* The steps that change no page and no table: access() and the locks.     *)
LEMMA PassMaps ==
  ASSUME MapInv, NEW f \in Faulters,
         \/ AccessHit(f) \/ AccessFault(f) \/ LockVad(f) \/ Awake(f)
         \/ SendRead(f) \/ RelockVad(f) \/ RelockWs(f)
  PROVE  LocalMaps' /\ Owing(vm', flt', wr')
<1>1. PICK c : /\ vm.panic = NoPanic /\ pc' = [pc EXCEPT ![f] = c] /\ flt' = flt /\ wr' = wr
               /\ \/ pc[f] \in {"access", "vad", "sleep"} /\ c \in {"translate", "vad", "ws"}
                  \/ pc[f] \in ReadPcs /\ c \in ReadPcs
  BY DEF AccessHit, AccessFault, LockVad, Awake, SendRead, RelockVad, RelockWs, Goto, ReadPcs
<1>2. vm \in VmStates /\ flt \in [Faulters -> FaultLocals]
  BY <1>1, MapFacts
<1>3. Same(vm, vm')
  <2>1. vm' = vm \/ \E q, d : vm' = [vm EXCEPT !.data[q] = d]
    BY DEF AccessHit, AccessFault, LockVad, Awake, SendRead, RelockVad, RelockWs
  <2>2. vm'.table = vm.table /\ vm'.page = vm.page
    BY <1>2, <2>1 DEF VmStates
  <2> QED
    BY <2>2 DEF Same, SameRec
<1>4. LocalMap(pc[f], flt[f]) /\ LocalOK(pc[f], flt[f])
  BY <1>1, MapFacts
<1>5. LocalMap(c, flt[f]) /\ (c \in ReadPcs => flt[f].page \in Pages)
  <2>1. CASE pc[f] \in {"access", "vad", "sleep"} /\ c \in {"translate", "vad", "ws"}
    BY <1>4, <2>1, IdleMap DEF ReadPcs
  <2>2. CASE pc[f] \in ReadPcs /\ c \in ReadPcs
    BY <1>4, <2>2 DEF LocalMap, LocalOK, ReadPcs
  <2> QED
    BY <1>1, <2>1, <2>2
<1>6. flt' = [flt EXCEPT ![f] = flt[f]]
  BY <1>1, <1>2
<1> QED
  BY <1>1, <1>3, <1>5, <1>6, FaulterPasses

(* The steps that change locals that own nothing.                          *)
LEMMA StartMaps ==
  ASSUME MapInv, NEW f \in Faulters,
         \/ \E va \in VAddrs, write \in Writes : Pick(f, va, write)
         \/ Translate(f) \/ LockWs(f)
  PROVE  LocalMaps' /\ Owing(vm', flt', wr')
<1>1. PICK c, x : /\ vm.panic = NoPanic /\ pc' = [pc EXCEPT ![f] = c] /\ wr' = wr
                  /\ flt' = [flt EXCEPT ![f] = x]
                  /\ pc[f] \in {"user", "translate", "ws"} /\ c \in {"access", "user", "wire"}
                  /\ \/ x = NoFault
                     \/ \E va, write : x = [flt[f] EXCEPT !.va = va, !.write = write]
                     \/ x = [flt[f] EXCEPT !.level = Levels + 1]
  <2>1. CASE \E va \in VAddrs, write \in Writes : Pick(f, va, write)
    <3>1. PICK va \in VAddrs, write \in Writes : Pick(f, va, write)
      BY <2>1
    <3> DEFINE x == [flt[f] EXCEPT !.va = va, !.write = write]
    <3>2. /\ vm.panic = NoPanic /\ pc' = [pc EXCEPT ![f] = "access"] /\ wr' = wr
          /\ flt' = [flt EXCEPT ![f] = x] /\ pc[f] = "user"
      <4>1. flt \in [Faulters -> FaultLocals]
        BY DEF MapInv, TypeInv, TypeOK
      <4> QED
        BY <3>1, <4>1, Zenon DEF Pick, Goto
    <3>3. \E e, d : x = [flt[f] EXCEPT !.va = e, !.write = d]
      BY ZenonT(60)
    <3> HIDE DEF x
    <3> QED
      BY <3>2, <3>3, Zenon
  <2>2. CASE Translate(f)
    BY <2>2, Zenon DEF Translate, Goto
  <2>3. CASE LockWs(f)
    <3>1. flt \in [Faulters -> FaultLocals]
      BY DEF MapInv, TypeInv, TypeOK
    <3> QED
      BY <2>3, <3>1, Zenon DEF LockWs, Goto
  <2> QED
    BY <2>1, <2>2, <2>3, Zenon
<1>2. vm \in VmStates /\ flt[f] \in FaultLocals /\ LocalMap(pc[f], flt[f])
  BY <1>1, MapFacts, Zenon
<1>3. Idle(flt[f])
  BY <1>1, <1>2, IdleMap, Zenon
<1>4. x.pages = flt[f].pages /\ x.page = NoPage
  <2>1. flt[f].pages = [k \in 1 .. Levels |-> NoPage] /\ flt[f].page = NoPage
    BY <1>2, <1>3 DEF Idle, FaultLocals
  <2>2. CASE x = NoFault
    BY <2>1, <2>2 DEF NoFault
  <2>3. CASE x # NoFault
    BY <1>1, <1>2, <2>1, <2>3, Zenon DEF FaultLocals
  <2> QED
    BY <2>2, <2>3
<1>5. LocalMap(c, x) /\ flt[f].page = NoPage
  BY <1>3, <1>4, IdleMap DEF Idle
<1>6. NoPage \notin Pages /\ c \notin ReadPcs
  <2>1. NoPage \notin Pages
    BY DEF NoPage, Pages
  <2>2. c \notin ReadPcs
    BY <1>1, Zenon DEF ReadPcs
  <2> QED
    BY <2>1, <2>2
<1>7. Same(vm, vm')
  <2>1. vm' = vm \/ \E q, d : vm' = [vm EXCEPT !.data[q] = d]
    BY Zenon DEF Pick, Translate, LockWs
  <2>2. vm'.table = vm.table /\ vm'.page = vm.page
    BY <1>2, <2>1 DEF VmStates
  <2> QED
    BY <2>2, Zenon DEF Same, SameRec
<1> QED
  BY <1>1, <1>4, <1>5, <1>6, <1>7, FaulterPasses, Zenon

(* vmp_wire_pte() starts with the root.                                    *)
LEMMA WireRootMaps ==
  ASSUME MapInv, NEW f \in Faulters, WireRoot(f)
  PROVE  LocalMaps' /\ Owing(vm', flt', wr')
<1> DEFINE s == NonswapPteCreated(vm, Root, TRUE)
           x == [flt[f] EXCEPT !.level = Levels, !.pages[Levels] = Root]
           y == [flt EXCEPT ![f] = x]
<1>1. /\ vm.panic = NoPanic /\ pc[f] = "wire" /\ pc' = [pc EXCEPT ![f] = "wire"]
      /\ flt[f].level = Levels + 1 /\ CommitFault(f, s, x)
  <2>1. vm.panic = NoPanic /\ pc[f] = "wire" /\ pc' = [pc EXCEPT ![f] = "wire"]
    BY DEF WireRoot, Goto
  <2> QED
    BY <2>1 DEF WireRoot
<1>2. /\ vm \in VmStates /\ flt \in [Faulters -> FaultLocals] /\ wr \in WriterLocals
      /\ Owing(vm, flt, wr) /\ flt[f] \in FaultLocals /\ LocalMap(pc[f], flt[f])
      /\ flt[f].pages \in [1 .. Levels -> Pages \cup {NoPage}]
      /\ WiredOf(flt) \in Ledger /\ HeldOf(wr) \in Ledger
      /\ Maps(vm, Home(vm), NoPage, BusyOf(flt), WiredOf(flt), WiredOf(flt), HeldOf(wr))
  BY <1>1, MapFacts
<1>3. Levels \in 1 .. Levels /\ Levels \in Nat /\ Root \in Pages
  BY VmAssumption, ConstantTypes
<1>4. Idle(flt[f])
  BY <1>1, <1>2, <1>3 DEF LocalMap, Idle
<1>5. /\ x.level = Levels /\ x.page = NoPage /\ x.pte = flt[f].pte /\ x.pages[Levels] = Root
      /\ \A j \in 1 .. Levels \ {Levels} : x.pages[j] = NoPage
  BY <1>2, <1>3, <1>4 DEF FaultLocals, Idle
<1> HIDE DEF x
<1>6. LocalMap("wire", x) /\ "wire" \notin ReadPcs
  BY <1>3, <1>5 DEF LocalMap, ReadPcs
<1>7. /\ y[f] = x /\ SameReads(flt, y) /\ Rewired(flt, y, f, Levels)
  <2>1. \A j \in 1 .. Levels \ {Levels} : x.pages[j] = flt[f].pages[j]
    BY <1>4, <1>5 DEF Idle
  <2>2. x.page = flt[f].page /\ (x.page \in Pages => x.pte = flt[f].pte)
    BY <1>4, <1>5 DEF Idle
  <2> QED
    BY <1>2, <1>3, <2>1, <2>2, OneThread
<1> HIDE DEF y
<1>8. vm.page[Root].use = TableUse[Levels] /\ IsTable(vm, Root)
  BY <1>2, <1>3, LevelUse DEF Maps, Linked, IsTable
<1>9. ASSUME s.panic = NoPanic PROVE Owing(s, y, wr)
  <2>1. /\ Maps(s, Home(s), NoPage, BusyOf(flt),
                Plus(WiredOf(flt), Root, 1), Plus(WiredOf(flt), Root, 1), HeldOf(wr))
        /\ Steady(vm, s)
    BY <1>2, <1>3, <1>8, <1>9, WiredMaps
  <2> HIDE DEF s
  <2>2. Kept(vm, s) /\ s.page[Root].use = TableUse[Levels]
    BY <1>3, <1>8, <2>1, SteadyHome DEF Steady
  <2>3. flt[f].pages[Levels] = NoPage /\ y[f].pages[Levels] = Root
    BY <1>3, <1>4, <1>5, <1>7 DEF Idle
  <2> QED
    BY <1>2, <1>3, <1>7, <2>1, <2>2, <2>3, OwingWired
<1> HIDE DEF s
<1> QED
  BY <1>1, <1>6, <1>9, FaultCommits DEF y

(* ... and goes on a level down.                                           *)
LEMMA WireLevelMaps ==
  ASSUME MapInv, NEW f \in Faulters, WireLevel(f)
  PROVE  LocalMaps' /\ Owing(vm', flt', wr')
<1> DEFINE l   == flt[f].level
           dir == flt[f].pages[l]
           i   == flt[f].va[l]
           use == TableUse[l - 1]
           s   == WireTable(vm, dir, i, use)
           x   == [flt[f] EXCEPT !.level = l - 1, !.pages[l - 1] = s.table[dir][i].page]
           y   == [flt EXCEPT ![f] = x]
           c   == IF flt[f].level = 2 THEN "fault" ELSE "wire"
<1>1. /\ vm.panic = NoPanic /\ pc[f] = "wire" /\ pc' = [pc EXCEPT ![f] = c]
      /\ l \in 2 .. Levels /\ CommitFault(f, s, x)
  <2>1. vm.panic = NoPanic /\ pc[f] = "wire" /\ pc' = [pc EXCEPT ![f] = c]
    BY ZenonT(60) DEF WireLevel, Goto
  <2> QED
    BY <2>1, Zenon DEF WireLevel
<1>2. /\ vm \in VmStates /\ flt \in [Faulters -> FaultLocals] /\ wr \in WriterLocals
      /\ Owing(vm, flt, wr) /\ flt[f] \in FaultLocals /\ LocalMap(pc[f], flt[f])
      /\ LocalOK(pc[f], flt[f]) /\ TypeInv /\ NoPage \notin Pages
      /\ flt[f].pages \in [1 .. Levels -> Pages \cup {NoPage}] /\ Placed(vm, NoPage)
      /\ WiredOf(flt) \in Ledger /\ HeldOf(wr) \in Ledger
      /\ \A q \in Pages : HeldOf(wr)[q] >= 0
      /\ Maps(vm, Home(vm), NoPage, BusyOf(flt), WiredOf(flt), WiredOf(flt), HeldOf(wr))
  BY <1>1, MapFacts, ZenonT(60)
<1>3. /\ l \in 1 .. Levels /\ l - 1 \in 1 .. Levels /\ l \in {2, 3, 4} /\ Levels \in Nat
      /\ dir \in Pages /\ i \in Idx
  <2>1. l \in 1 .. Levels /\ l - 1 \in 1 .. Levels /\ l \in {2, 3, 4} /\ Levels \in Nat /\ l >= l
    <3>1. l \in 2 .. Levels /\ Levels \in 2 .. 4
      BY <1>1, VmAssumption, ZenonT(60)
    <3> HIDE DEF l
    <3> QED
      BY ONLY <3>1, SMTT(60)
  <2>2. i \in Idx
    BY <1>1, <1>2, <2>1, FaulterFacts, Zenon
  <2> QED
    BY <1>1, <1>2, <2>1, <2>2, Zenon DEF LocalOK
<1>4. vm.page[dir].use = TableUse[l]
  BY <1>2, <1>3 DEF Owing, TablesWired
<1>5. IsTable(vm, dir) /\ use \in TableUses /\ use = Below(vm.page[dir].use)
  BY <1>3, <1>4 DEF IsTable, TableUse, TableUses, Below
<1>6. flt[f].pages[l - 1] = NoPage /\ flt[f].page = NoPage
      /\ \A j \in 1 .. Levels : j < l => flt[f].pages[j] = NoPage
  <2>1. \A j \in 1 .. Levels : flt[f].pages[j] # NoPage => j >= l
    BY <1>1, <1>2, ZenonT(60) DEF LocalMap
  <2>2. flt[f].page = NoPage
    BY <1>1, <1>2, Zenon DEF LocalMap
  <2> HIDE DEF l
  <2>3. l \in Int /\ l - 1 < l /\ \A j \in 1 .. Levels : j < l => ~(j >= l)
    BY ONLY <1>3, SMTT(60)
  <2> QED
    BY <1>3, <2>1, <2>2, <2>3, Zenon
<1>7. /\ x.level = l - 1 /\ x.page = NoPage /\ x.pages[l - 1] = s.table[dir][i].page
      /\ \A j \in 1 .. Levels \ {l - 1} : x.pages[j] = flt[f].pages[j]
  BY <1>2, <1>3, <1>6, ZenonT(60) DEF FaultLocals
<1> HIDE DEF x
<1>8. LocalMap(c, x) /\ c \notin ReadPcs
  <2> HIDE DEF l, dir, i, use, s, y
  <2>1. \A k \in 1 .. Levels : x.pages[k] # NoPage => k >= l - 1
    <3> TAKE k \in 1 .. Levels
    <3>1. k < l - 1 => x.pages[k] = NoPage
      <4>1. k < l - 1 => k # l - 1 /\ k < l
        BY ONLY <1>3, k \in 1 .. Levels
      <4> QED
        BY <1>6, <1>7, <4>1
    <3>2. k < l - 1 \/ k >= l - 1
      BY ONLY <1>3, k \in 1 .. Levels, SMTT(60)
    <3> QED
      BY <3>1, <3>2
  <2> QED
    BY <1>7, <2>1, Zenon DEF LocalMap, ReadPcs
<1>9. y[f] = x /\ SameReads(flt, y) /\ Rewired(flt, y, f, l - 1)
  <2> HIDE DEF l, dir, i, use, s, c
  <2>1. x.page = flt[f].page /\ x.page \notin Pages
    BY <1>2, <1>6, <1>7
  <2>2. /\ y[f] = x
        /\ x.page = flt[f].page /\ (x.page \in Pages => x.pte = flt[f].pte) => SameReads(flt, y)
        /\ \A k \in 1 .. Levels :
             (\A j \in 1 .. Levels \ {k} : x.pages[j] = flt[f].pages[j]) => Rewired(flt, y, f, k)
    BY <1>2, OneThread
  <2> QED
    BY <1>3, <1>7, <2>1, <2>2
<1> HIDE DEF y, c
<1>10. ASSUME s.panic = NoPanic PROVE Owing(s, y, wr)
  <2> HIDE DEF l, dir, i, use
  <2>1. PICK p \in Pages :
          /\ Maps(s, Home(s), NoPage, BusyOf(flt),
                  Plus(WiredOf(flt), p, 1), Plus(WiredOf(flt), p, 1), HeldOf(wr))
          /\ Kept(vm, s) /\ Entry(s, << dir, i >>).page = p /\ s.page[p].use = use
    BY <1>2, <1>3, <1>5, <1>10, WireTableMaps
  <2> HIDE DEF s
  <2>2. y[f].pages[l - 1] = p
    BY <1>7, <1>9, <2>1 DEF Entry
  <2>3. s.page[p].use = TableUse[l - 1] /\ flt[f].pages[l - 1] = NoPage
    BY <1>6, <2>1 DEF use
  <2> DEFINE k == l - 1
  <2>4. k \in 1 .. Levels
    BY <1>3
  <2> HIDE DEF k
  <2>5. /\ Rewired(flt, y, f, k) /\ flt[f].pages[k] = NoPage /\ y[f].pages[k] = p
        /\ s.page[p].use = TableUse[k]
    BY <1>9, <2>2, <2>3 DEF k
  <2> QED
    BY <1>2, <1>9, <2>1, <2>4, <2>5, OwingWired
<1> HIDE DEF s
<1> QED
  BY <1>1, <1>8, <1>10, FaultCommits DEF y

(* vmp_page_alloc_locked() without a page to give.                         *)
LEMMA AllocFailsEffect ==
  ASSUME NEW s \in VmStates, ~CanAlloc(s), s.panic = NoPanic
  PROVE  Same(s, PageAlloc(s, "AnonPrivate"))
<1>1. PageAlloc(s, "AnonPrivate") = CheckShortage(s)
  BY DEF PageAlloc, Then
<1>2. CheckShortage(s).page = s.page /\ CheckShortage(s).table = s.table
  BY DEF CheckShortage, VmStates
<1> QED
  BY <1>1, <1>2 DEF Same, SameRec

(* What do_fault() finds at the leaf PTE.                                  *)
LEMMA LeafMap ==
  ASSUME MapInv, vm.panic = NoPanic, NEW f \in Faulters, pc[f] = "fault"
  PROVE  /\ FaultPteAddr(f) \in PteAddr /\ Entry(vm, FaultPteAddr(f)) = FaultPte(f)
         /\ vm.page[FaultPteAddr(f)[1]].use = "PML1"
         /\ FaultPte(f).page \in Pages /\ LeafKey(flt[f].va) \in WsKey /\ flt[f].write \in BOOLEAN
         /\ flt[f].page = NoPage /\ flt[f].level = 1 /\ FaultPteAddr(f)[1] = flt[f].pages[1]
<1>1. /\ TypeInv /\ Owing(vm, flt, wr) /\ LocalMap(pc[f], flt[f]) /\ LocalOK(pc[f], flt[f])
  BY MapFacts
<1>2. /\ FaultPteAddr(f) \in PteAddr /\ flt[f].pages[1] \in Pages /\ FaultPte(f).page \in Pages
      /\ LeafKey(flt[f].va) \in WsKey /\ flt[f].write \in BOOLEAN /\ 1 \in 1 .. Levels
  BY <1>1, LeafFacts, FaulterFacts
<1>3. Entry(vm, FaultPteAddr(f)) = FaultPte(f) /\ FaultPteAddr(f)[1] = flt[f].pages[1]
  BY DEF Entry, FaultPteAddr, FaultPte
<1>4. vm.page[flt[f].pages[1]].use = TableUse[1]
  BY <1>1, <1>2 DEF Owing, TablesWired
<1>5. flt[f].page = NoPage /\ flt[f].level = 1
  BY <1>1 DEF LocalMap, LocalOK
<1> QED
  BY <1>2, <1>3, <1>4, <1>5 DEF TableUse

(* do_fault() on the leaf PTE, when it starts no read.                     *)
LEMMA HandledMaps ==
  ASSUME MapInv, NEW f \in Faulters, NEW s, NEW r, Handled(f, s, Result(f, r)),
         s.panic = NoPanic =>
           /\ Kept(vm, s)
           /\ Maps(s, Home(s), NoPage, BusyOf(flt), WiredOf(flt), WiredOf(flt), HeldOf(wr))
  PROVE  LocalMaps' /\ Owing(vm', flt', wr')
<1> DEFINE x == Result(f, r)
           y == [flt EXCEPT ![f] = x]
<1>1. /\ vm.panic = NoPanic /\ pc[f] = "fault" /\ pc' = [pc EXCEPT ![f] = "unwire"]
      /\ CommitFault(f, s, x)
  BY DEF Handled, Goto
<1>2. /\ vm \in VmStates /\ flt \in [Faulters -> FaultLocals] /\ wr \in WriterLocals
      /\ Owing(vm, flt, wr) /\ flt[f] \in FaultLocals
  BY <1>1, MapFacts
<1>3. flt[f].page = NoPage /\ flt[f].level = 1
  BY <1>1, LeafMap
<1>4. x.pages = flt[f].pages /\ x.page = flt[f].page /\ x.pte = flt[f].pte /\ x.level = 1
  BY <1>2, <1>3 DEF Result, FaultLocals
<1> HIDE DEF x
<1>5. LocalMap("unwire", x) /\ "unwire" \notin ReadPcs
  BY <1>3, <1>4 DEF LocalMap, ReadPcs
<1>6. SameReads(flt, y) /\ SameWirings(flt, y)
  BY <1>2, <1>4, OneThread
<1> HIDE DEF y
<1>7. s.panic = NoPanic => Owing(s, y, wr)
  BY <1>2, <1>6, OwingSame
<1> QED
  BY <1>1, <1>5, <1>7, FaultCommits DEF y

(* do_fault() on a valid PTE, or without a page to give, or on a busy PTE. *)
LEMMA ValidLeafMaps ==
  ASSUME MapInv, NEW f \in Faulters,
         MakeWriteable(f) \/ ValidFault(f) \/ AllocFails(f) \/ BusyFault(f)
  PROVE  LocalMaps' /\ Owing(vm', flt', wr')
<1> DEFINE a == FaultPteAddr(f)
           q == FaultPte(f).page
<1>1. vm.panic = NoPanic /\ pc[f] = "fault"
  BY DEF MakeWriteable, ValidFault, AllocFails, BusyFault, FaultsOn
<1>2. /\ vm \in VmStates /\ WiredOf(flt) \in Ledger /\ HeldOf(wr) \in Ledger
      /\ Maps(vm, Home(vm), NoPage, BusyOf(flt), WiredOf(flt), WiredOf(flt), HeldOf(wr))
  BY <1>1, MapFacts
<1>3. a \in PteAddr /\ Entry(vm, a) = FaultPte(f) /\ q \in Pages
  BY <1>1, LeafMap
<1>4. ASSUME NEW s, Same(vm, s)
      PROVE  /\ Kept(vm, s)
             /\ Maps(s, Home(s), NoPage, BusyOf(flt), WiredOf(flt), WiredOf(flt), HeldOf(wr))
  <2>1. Steady(vm, s)
    BY <1>4 DEF Same, SameRec, Steady
  <2> QED
    BY <1>2, <1>4, <2>1, SteadyHome, SameMaps
<1>5. CASE MakeWriteable(f)
  <2> DEFINE s == SetPte(vm, a, HwPte(q, TRUE))
  <2>1. Handled(f, s, Result(f, "ok")) /\ Entry(vm, a).kind = "Valid" /\ Entry(vm, a).page = q
    BY <1>3, <1>5 DEF MakeWriteable, FaultsOn
  <2>2. ASSUME s.panic = NoPanic
        PROVE  /\ Kept(vm, s)
               /\ Maps(s, Home(s), NoPage, BusyOf(flt), WiredOf(flt), WiredOf(flt), HeldOf(wr))
    <3>1. TRUE \in BOOLEAN
      OBVIOUS
    <3> HIDE DEF a, q
    <3>2. Maps(s, Home(vm), NoPage, BusyOf(flt), WiredOf(flt), WiredOf(flt), HeldOf(wr)) /\ Steady(vm, s)
      BY <1>2, <1>3, <2>1, <2>2, <3>1, RevalidatedMaps
    <3> HIDE DEF s
    <3> QED
      BY <3>2, SteadyHome
  <2> HIDE DEF s
  <2> QED
    BY <2>1, <2>2, HandledMaps
<1>6. CASE ValidFault(f)
  <2>1. Same(vm, vm)
    BY DEF Same, SameRec
  <2>2. Handled(f, vm, Result(f, "ok"))
    BY <1>6 DEF ValidFault
  <2> QED
    BY <1>4, <2>1, <2>2, HandledMaps
<1>7. CASE AllocFails(f)
  <2> DEFINE s == PageAlloc(vm, "AnonPrivate")
  <2>1. Same(vm, s)
    BY <1>1, <1>2, <1>7, AllocFailsEffect DEF AllocFails
  <2>2. Handled(f, s, Result(f, "again"))
    BY <1>7 DEF AllocFails
  <2> HIDE DEF s
  <2> QED
    BY <1>4, <2>1, <2>2, HandledMaps
<1>8. CASE BusyFault(f)
  <2> DEFINE s == Kfatal(vm, "fault.c:170")
  <2>1. s.panic # NoPanic
    BY <1>2, KfatalPassed DEF NoPanic
  <2>2. Handled(f, s, Result(f, "ok"))
    BY <1>8 DEF BusyFault
  <2> HIDE DEF s
  <2> QED
    BY <2>1, <2>2, HandledMaps
<1> QED
  BY <1>5, <1>6, <1>7, <1>8

(* ... on a zero PTE or a transition PTE.                                  *)
LEMMA FillLeafMaps ==
  ASSUME MapInv, NEW f \in Faulters, DemandZero(f) \/ TransFault(f)
  PROVE  LocalMaps' /\ Owing(vm', flt', wr')
<1> DEFINE a == FaultPteAddr(f)
           q == FaultPte(f).page
           k == LeafKey(flt[f].va)
           w == flt[f].write
<1>1. vm.panic = NoPanic /\ pc[f] = "fault"
  BY DEF DemandZero, TransFault, FaultsOn
<1>2. /\ vm \in VmStates /\ WiredOf(flt) \in Ledger /\ HeldOf(wr) \in Ledger
      /\ Placed(vm, NoPage) /\ \A p \in Pages : HeldOf(wr)[p] >= 0
      /\ Maps(vm, Home(vm), NoPage, BusyOf(flt), WiredOf(flt), WiredOf(flt), HeldOf(wr))
  BY <1>1, MapFacts
<1>3. /\ a \in PteAddr /\ Entry(vm, a) = FaultPte(f) /\ q \in Pages /\ k \in WsKey
      /\ w \in BOOLEAN /\ vm.page[a[1]].use = "PML1" /\ a[1] = flt[f].pages[1]
  BY <1>1, LeafMap
<1>4. CASE DemandZero(f)
  <2> DEFINE s == ZeroFill(vm, a, k, w)
  <2>1. CanAlloc(vm) /\ Entry(vm, a).kind = "Zero"
    BY <1>3, <1>4 DEF DemandZero, FaultsOn
  <2>2. Handled(f, s, Result(f, "ok"))
    BY <1>3, <1>4 DEF DemandZero, ZeroFill
  <2> HIDE DEF a, k, w
  <2>3. ASSUME s.panic = NoPanic
        PROVE  /\ Kept(vm, s)
               /\ Maps(s, Home(s), NoPage, BusyOf(flt), WiredOf(flt), WiredOf(flt), HeldOf(wr))
    BY <1>2, <1>3, <2>1, <2>3, ZeroFillMaps
  <2> HIDE DEF s
  <2> QED
    BY <2>2, <2>3, HandledMaps
<1>5. CASE TransFault(f)
  <2> DEFINE s == Reclaim(vm, a, k, q)
  <2>1. Entry(vm, a).kind = "Trans" /\ Entry(vm, a).page = q
    BY <1>3, <1>5 DEF TransFault, FaultsOn
  <2>2. Handled(f, s, Result(f, "ok"))
    BY <1>5 DEF TransFault, Reclaim
  <2> HIDE DEF a, k, q
  <2>3. ASSUME s.panic = NoPanic
        PROVE  /\ Kept(vm, s)
               /\ Maps(s, Home(s), NoPage, BusyOf(flt), WiredOf(flt), WiredOf(flt), HeldOf(wr))
    BY <1>2, <1>3, <2>1, <2>3, ReclaimMaps
  <2> HIDE DEF s
  <2> QED
    BY <2>2, <2>3, HandledMaps
<1> QED
  BY <1>4, <1>5

(* ... on a swap PTE: the thread then has a page to read in.               *)
LEMMA SwapFaultMaps ==
  ASSUME MapInv, NEW f \in Faulters, SwapFault(f)
  PROVE  LocalMaps' /\ Owing(vm', flt', wr')
<1> DEFINE a == FaultPteAddr(f)
           k == LeafKey(flt[f].va)
           p == AllocatedPage(vm)
           s == StartRead(vm, a, k)
           x == [Result(f, "read") EXCEPT !.page = p, !.pte = a, !.slot = FaultPte(f).slot]
           y == [flt EXCEPT ![f] = x]
<1>1. vm.panic = NoPanic /\ pc[f] = "fault" /\ CanAlloc(vm) /\ FaultPte(f).kind = "Swap"
  BY DEF SwapFault, FaultsOn
<1>2. /\ vm \in VmStates /\ WiredOf(flt) \in Ledger /\ HeldOf(wr) \in Ledger
      /\ Placed(vm, NoPage) /\ (\A q \in Pages : HeldOf(wr)[q] >= 0) /\ wr \in WriterLocals
      /\ flt \in [Faulters -> FaultLocals] /\ Owing(vm, flt, wr) /\ flt[f] \in FaultLocals
      /\ Maps(vm, Home(vm), NoPage, BusyOf(flt), WiredOf(flt), WiredOf(flt), HeldOf(wr))
  BY <1>1, MapFacts
<1>3. /\ a \in PteAddr /\ Entry(vm, a).kind = "Swap" /\ k \in WsKey
      /\ vm.page[a[1]].use = "PML1" /\ a[1] = flt[f].pages[1]
      /\ flt[f].page = NoPage /\ flt[f].level = 1
  BY <1>1, LeafMap
<1>4. Handled(f, s, x)
  BY <1>3 DEF SwapFault, StartRead
<1>5. pc' = [pc EXCEPT ![f] = "unwire"] /\ CommitFault(f, s, x)
  BY <1>4 DEF Handled, Goto
<1>6. x.pages = flt[f].pages /\ x.page = p /\ x.pte = a /\ x.level = 1 /\ x.result = "read"
  BY <1>2, <1>3 DEF Result, FaultLocals
<1> HIDE DEF x
<1>7. LocalMap("unwire", x) /\ "unwire" \notin ReadPcs
  BY <1>6 DEF LocalMap, ReadPcs
<1>8. y[f] = x /\ Rereads(flt, y, f) /\ SameWirings(flt, y)
  BY <1>2, <1>6, OneThread
<1> HIDE DEF y
<1>9. ASSUME s.panic = NoPanic PROVE Owing(s, y, wr)
  <2> HIDE DEF a, k
  <2>1. /\ p \in Pages /\ vm.page[p].refcnt = 0 /\ Kept(vm, s)
        /\ Maps(s, Home(s), NoPage, BusyOf(flt) \cup {<< a, p >>},
                WiredOf(flt), WiredOf(flt), HeldOf(wr))
    BY <1>1, <1>2, <1>3, <1>9, StartReadMaps
  <2> HIDE DEF s, p
  <2>2. y[f].page = p /\ y[f].pte = a
    BY <1>6, <1>8
  <2> QED
    BY <1>2, <1>3, <1>8, <2>1, <2>2, OwingRead
<1> HIDE DEF s
<1> QED
  BY <1>1, <1>5, <1>7, <1>9, FaultCommits DEF y

(* vmp_pte_wire_state_release() gives a wiring back.                       *)
LEMMA UnwireMaps ==
  ASSUME MapInv, NEW f \in Faulters, Unwire(f)
  PROVE  LocalMaps' /\ Owing(vm', flt', wr')
<1> DEFINE l == flt[f].level
           p == flt[f].pages[l]
           n == IF l = Levels THEN l ELSE l + 1
           c == IF l = Levels THEN AfterFault[flt[f].result] ELSE "unwire"
           s == PteDeleted(vm, p)
           x == [flt[f] EXCEPT !.level = n, !.pages[l] = NoPage]
           y == [flt EXCEPT ![f] = x]
<1>1. /\ vm.panic = NoPanic /\ pc[f] = "unwire" /\ pc' = [pc EXCEPT ![f] = c]
      /\ CommitFault(f, s, x)
  BY DEF Unwire, Goto
<1>2. /\ vm \in VmStates /\ flt \in [Faulters -> FaultLocals] /\ wr \in WriterLocals
      /\ Owing(vm, flt, wr) /\ flt[f] \in FaultLocals /\ LocalMap(pc[f], flt[f])
      /\ LocalOK(pc[f], flt[f]) /\ NoPage \notin Pages
      /\ flt[f].pages \in [1 .. Levels -> Pages \cup {NoPage}]
      /\ WiredOf(flt) \in Ledger /\ HeldOf(wr) \in Ledger
      /\ \A q \in Pages : HeldOf(wr)[q] >= 0
      /\ Maps(vm, Home(vm), NoPage, BusyOf(flt), WiredOf(flt), WiredOf(flt), HeldOf(wr))
  BY <1>1, MapFacts
<1>3. l \in 1 .. Levels /\ l >= l /\ Levels \in Nat
  BY <1>1, <1>2, VmAssumption, SMTT(60) DEF LocalOK
<1>4. p \in Pages
  BY <1>1, <1>2, <1>3 DEF LocalOK
<1>5. IsTable(vm, p) /\ WiredOf(flt)[p] >= 1
  <2>1. vm.page[p].use = TableUse[l]
    BY <1>2, <1>3, <1>4 DEF Owing, TablesWired
  <2> QED
    BY <1>3, <1>4, <2>1, LevelUse, WiredType DEF IsTable
<1>6. /\ x.level = n /\ x.page = flt[f].page /\ x.pte = flt[f].pte /\ x.result = flt[f].result
      /\ x.pages[l] = NoPage /\ \A j \in 1 .. Levels \ {l} : x.pages[j] = flt[f].pages[j]
  BY <1>2, <1>3 DEF FaultLocals
<1> HIDE DEF x
<1>7. \A k \in 1 .. Levels : x.pages[k] # NoPage => k > l
  <2> TAKE k \in 1 .. Levels
  <2>1. flt[f].pages[k] # NoPage => k >= l
    BY <1>1, <1>2 DEF LocalMap
  <2>2. k >= l /\ k # l => k > l
    BY <1>3
  <2> QED
    BY <1>6, <2>1, <2>2
<1>8. x.page # NoPage => x.result = "read" /\ flt[f].page \in Pages
  BY <1>1, <1>2, <1>6 DEF LocalMap, FaultLocals
<1>9. flt[f].result = "read" => flt[f].page \in Pages
  BY <1>1, <1>2 DEF LocalOK
<1>10. LocalMap(c, x) /\ (c \in ReadPcs => x.page \in Pages /\ flt[f].page \in Pages)
  <2>1. CASE l = Levels
    <3>1. \A k \in 1 .. Levels : x.pages[k] = NoPage
      BY <1>3, <1>7, <2>1
    <3>2. c = AfterFault[flt[f].result] /\ flt[f].result \in {"ok", "again", "read"}
      BY <1>2, <2>1 DEF FaultLocals
    <3>3. (flt[f].result = "read" => c = "read") /\ (c \in ReadPcs => flt[f].result = "read")
      BY <3>2 DEF AfterFault, ReadPcs
    <3> HIDE DEF c
    <3>4. x.page # NoPage => c = "read"
      BY <1>6, <1>8, <3>3
    <3> QED
      BY <1>6, <1>9, <3>1, <3>3, <3>4 DEF LocalMap
  <2>2. CASE l # Levels
    <3>1. c = "unwire" /\ x.level = l + 1
      BY <1>6, <2>2
    <3>2. \A k \in 1 .. Levels : k > l => k >= l + 1
      BY <1>3
    <3> HIDE DEF c
    <3> QED
      BY <1>7, <1>8, <3>1, <3>2 DEF LocalMap, ReadPcs
  <2> QED
    BY <2>1, <2>2
<1> HIDE DEF c
<1>11. y[f] = x /\ SameReads(flt, y) /\ Rewired(flt, y, f, l)
  BY <1>2, <1>3, <1>6, OneThread
<1> HIDE DEF y
<1>12. ASSUME s.panic = NoPanic PROVE Owing(s, y, wr)
  <2>1. \A q \in Pages : HeldOf(wr)[q] > 0 => IsAnon(vm, q)
    BY <1>2 DEF Owing, AnonHeld
  <2>2. flt[f].pages[l] = p /\ y[f].pages[l] = NoPage
    BY <1>6, <1>11
  <2> HIDE DEF p, l
  <2>3. /\ Maps(s, Home(s), NoPage, BusyOf(flt),
                Plus(WiredOf(flt), p, -1), Plus(WiredOf(flt), p, -1), HeldOf(wr))
        /\ Unpinned(vm, s, p)
    BY <1>2, <1>4, <1>5, <1>12, <2>1, PteDeletedMaps
  <2> HIDE DEF s
  <2> QED
    BY <1>2, <1>3, <1>4, <1>5, <1>11, <2>2, <2>3, OwingUnwired
<1> HIDE DEF s, p, l, n
<1> QED
  BY <1>1, <1>10, <1>12, FaultCommits DEF y

(* do_fault() when the page has been read in.                              *)
LEMMA FinishReadMaps ==
  ASSUME MapInv, NEW f \in Faulters, FinishRead(f)
  PROVE  LocalMaps' /\ Owing(vm', flt', wr')
<1> DEFINE a == flt[f].pte
           p == flt[f].page
           k == LeafKey(flt[f].va)
           b == BusyOf(flt) \ {<< a, p >>}
           t == SetPte(vm, a, HwPte(p, FALSE))
           s == WslUnlockEntry(t, k)
           x == [flt[f] EXCEPT !.page = NoPage, !.pte = NullRef, !.slot = NoSlot]
           y == [flt EXCEPT ![f] = x]
<1>1. /\ vm.panic = NoPanic /\ pc[f] = "finish" /\ pc' = [pc EXCEPT ![f] = "access"]
      /\ CommitFault(f, s, x)
  BY DEF FinishRead, Goto
<1>2. /\ vm \in VmStates /\ flt \in [Faulters -> FaultLocals] /\ wr \in WriterLocals
      /\ Owing(vm, flt, wr) /\ flt[f] \in FaultLocals /\ LocalMap(pc[f], flt[f])
      /\ LocalOK(pc[f], flt[f])
      /\ WiredOf(flt) \in Ledger /\ HeldOf(wr) \in Ledger
      /\ Maps(vm, Home(vm), NoPage, BusyOf(flt), WiredOf(flt), WiredOf(flt), HeldOf(wr))
  BY <1>1, MapFacts
<1>3. p \in Pages
  BY <1>1, <1>2 DEF LocalOK
<1>4. << a, p >> \in BusyOf(flt) /\ a \in PteAddr
  BY <1>2, <1>3, ReadRefd
<1>5. x.pages = flt[f].pages /\ x.page = NoPage
  BY <1>2 DEF FaultLocals
<1> HIDE DEF x
<1>6. LocalMap("access", x) /\ "access" \notin ReadPcs
  BY <1>1, <1>2, <1>5 DEF LocalMap, ReadPcs
<1>7. y[f] = x /\ Rereads(flt, y, f) /\ SameWirings(flt, y)
  BY <1>2, <1>5, OneThread
<1> HIDE DEF y
<1>8. ASSUME s.panic = NoPanic PROVE Owing(s, y, wr)
  <2>1. FALSE \in BOOLEAN
    OBVIOUS
  <2>2. t \in VmStates
    <3>1. HwPte(p, FALSE) \in Pte
      <4>1. 0 \in Nat \cup {NoSlot}
        OBVIOUS
      <4> QED
        BY ONLY <1>3, <2>1, <4>1, PteTypes
    <3> QED
      BY <1>2, <1>4, <3>1, SetPteType
  <2> HIDE DEF a, p, b
  <2>3. t.panic = NoPanic /\ Same(t, s)
    <3> HIDE DEF t
    <3> QED
      BY <1>8, <2>2, WslEntryEffect
  <2>4. Maps(t, Home(vm), NoPage, b, WiredOf(flt), WiredOf(flt), HeldOf(wr)) /\ Steady(vm, t)
    BY <1>2, <1>3, <1>4, <2>1, <2>3, RevalidatedMaps DEF b
  <2> HIDE DEF t, s
  <2>5. Steady(vm, s)
    BY <2>3, <2>4 DEF Steady, Same, SameRec
  <2>6. Home(s) = Home(vm) /\ Kept(vm, s)
    BY <2>5, SteadyHome
  <2>7. Maps(s, Home(s), NoPage, b, WiredOf(flt), WiredOf(flt), HeldOf(wr))
    BY <2>2, <2>3, <2>4, <2>6, SameMaps
  <2>8. y[f].page = NoPage
    BY <1>5, <1>7
  <2> QED
    BY <1>2, <1>3, <1>7, <2>6, <2>7, <2>8, OwingFinished DEF b, a, p
<1> HIDE DEF s
<1> QED
  BY <1>1, <1>6, <1>8, FaultCommits DEF y

(* vmp_pgwriter() prepares page p for writing.                             *)
LEMMA CleanPageEffect ==
  ASSUME NEW s \in VmStates, NEW p \in Pages, NEW slot, CleanPage(s, p, slot).panic = NoPanic
  PROVE  s.panic = NoPanic /\ Refd(s, CleanPage(s, p, slot), p, 1)
<1> DEFINE r  == PageRetain(s, p)
           ok == r.page[p].use \in {"AnonPrivate", "PML1", "PML2", "PML3", "PML4"}
           t  == [r EXCEPT !.page[p].drumslot = slot, !.page[p].dirty = FALSE]
           k  == Kassert(r, ok, "pgwriter.c:164", t)
<1>1. k = CleanPage(s, p, slot)
  BY DEF CleanPage
<1>2. r \in VmStates
  BY PageRetainType
<1> HIDE DEF r
<1>3. /\ t.table = r.table /\ \A q \in Pages \ {p} : t.page[q] = r.page[q]
      /\ t.page[p].use = r.page[p].use /\ t.page[p].refcnt = r.page[p].refcnt
      /\ t.page[p].nonzero = r.page[p].nonzero /\ t.page[p].nonswap = r.page[p].nonswap
      /\ t.page[p].referent = r.page[p].referent
  <2>1. r.page \in PageDb /\ t.table = r.table
    BY <1>2, Parts DEF VmStates
  <2>2. t.page = [r.page EXCEPT ![p].drumslot = slot, ![p].dirty = FALSE]
    BY <1>2 DEF VmStates
  <2> HIDE DEF t
  <2> QED
    BY <2>1, <2>2 DEF PageDb, PageRec
<1> HIDE DEF t
<1>4. k.panic = NoPanic => r.panic = NoPanic /\ k = t
  BY <1>2, PanicSeen DEF Kassert, Then, NoPanic
<1> HIDE DEF k, ok
<1>5. r.panic = NoPanic /\ CleanPage(s, p, slot) = t
  BY <1>1, <1>4
<1>6. s.panic = NoPanic /\ Refd(s, r, p, 1)
  BY <1>5, PageRetainEffect DEF r
<1>7. Refd(s, t, p, 1)
  BY <1>3, <1>6 DEF Refd, SameRec
<1> QED
  BY <1>5, <1>6, <1>7

(* A critical section of the page writer or of the balancer.               *)
LEMMA DaemonCommits ==
  ASSUME MapInv, NEW s, NEW w, NEW pf1, vm.panic = NoPanic, Commit(s, flt, w, pf1),
         \A f \in Faulters : pc'[f] = pc[f],
         s.panic = NoPanic => Owing(s, flt, w),
         pc'["pgwriter"] # "send" => w.page = NoPage /\ wr.page = NoPage
  PROVE  LocalMaps' /\ Owing(vm', flt', wr')
<1>1. TypeInv /\ LocalMaps /\ vm \in VmStates /\ wr \in WriterLocals /\ Owing(vm, flt, wr)
  BY DEF MapInv, TypeInv, TypeOK
<1>2. CASE s.panic = NoPanic
  <2>1. vm' = s /\ flt' = flt /\ wr' = w
    BY <1>2 DEF Commit
  <2>2. LocalMaps'
    BY <1>1, <2>1, OthersMove
  <2> QED
    BY <1>2, <2>1, <2>2
<1>3. CASE s.panic # NoPanic
  <2>1. vm' = [vm EXCEPT !.panic = s.panic] /\ flt' = flt /\ wr' = wr
    BY <1>3 DEF Commit
  <2>2. vm'.panic # NoPanic /\ Same(vm, vm')
    BY <1>1, <1>3, <2>1 DEF VmStates, Same, SameRec
  <2>3. SameReads(flt, flt') /\ SameWirings(flt, flt')
    BY <2>1 DEF SameReads, SameWirings
  <2>4. LocalMaps'
    BY <1>1, <2>1, <2>2, OthersMove
  <2>5. Owing(vm', flt', wr')
    BY <1>1, <2>1, <2>2, <2>3, SameOwing
  <2> QED
    BY <2>4, <2>5
<1> QED
  BY <1>2, <1>3

(* What is known of the page writer and the balancer.                      *)
LEMMA DaemonFacts ==
  ASSUME MapInv
  PROVE  /\ vm \in VmStates /\ flt \in [Faulters -> FaultLocals] /\ wr \in WriterLocals
         /\ Placed(vm, NoPage) /\ Owing(vm, flt, wr) /\ TypeInv /\ LocalMaps
         /\ WiredOf(flt) \in Ledger /\ HeldOf(wr) \in Ledger
         /\ Maps(vm, Home(vm), NoPage, BusyOf(flt), WiredOf(flt), WiredOf(flt), HeldOf(wr))
         /\ \A t \in {"pgwriter", "balancer"} : \A c :
              /\ \A f \in Faulters : [pc EXCEPT ![t] = c][f] = pc[f]
              /\ [pc EXCEPT ![t] = c][t] = c
              /\ t # "pgwriter" => [pc EXCEPT ![t] = c]["pgwriter"] = pc["pgwriter"]
<1>1. /\ vm \in VmStates /\ flt \in [Faulters -> FaultLocals] /\ wr \in WriterLocals
      /\ Placed(vm, NoPage) /\ Owing(vm, flt, wr) /\ TypeInv /\ LocalMaps
  BY DEF MapInv, TypeInv, TypeOK
<1>2. WiredOf(flt) \in Ledger /\ HeldOf(wr) \in Ledger
  BY <1>1, WiredType, HeldType
<1>3. pc \in [Threads -> PcStates] /\ Faulters \cap {"pgwriter", "balancer"} = {}
  BY <1>1, VmmAssumption DEF TypeInv, TypeOK
<1> QED
  BY <1>1, <1>2, <1>3 DEF Owing, Threads

(* The steps of the page writer.                                           *)
LEMMA WriterMaps ==
  ASSUME MapInv, [Next]_vars, WriterStep
  PROVE  LocalMaps' /\ Owing(vm', flt', wr')
<1>1. vm' \in VmStates /\ wr' \in WriterLocals
  BY NextType DEF MapInv, TypeInv, TypeOK
<1>2. /\ vm \in VmStates /\ flt \in [Faulters -> FaultLocals] /\ wr \in WriterLocals
      /\ Placed(vm, NoPage) /\ Owing(vm, flt, wr) /\ TypeInv /\ LocalMaps
      /\ WiredOf(flt) \in Ledger /\ HeldOf(wr) \in Ledger
      /\ Maps(vm, Home(vm), NoPage, BusyOf(flt), WiredOf(flt), WiredOf(flt), HeldOf(wr))
  BY DaemonFacts
<1>3. ASSUME NEW c, pc' = [pc EXCEPT !["pgwriter"] = c]
      PROVE  (\A f \in Faulters : pc'[f] = pc[f]) /\ pc'["pgwriter"] = c
  BY <1>3, DaemonFacts, SMTT(60)
<1>4. CASE WriterCollect
  <2> DEFINE p == Head(vm.modified)
  <2>1. PICK slot, pf1 :
          Commit(CleanPage(vm, p, slot), flt, [wr EXCEPT !.page = p, !.slot = slot], pf1)
    BY <1>4, Zenon DEF WriterCollect
  <2> DEFINE s == CleanPage(vm, p, slot)
             w == [wr EXCEPT !.page = p, !.slot = slot]
  <2>2. /\ vm.panic = NoPanic /\ pc["pgwriter"] = "collect"
        /\ pc' = [pc EXCEPT !["pgwriter"] = "send"] /\ vm.modified # << >>
    BY <1>4 DEF WriterCollect, Goto
  <2>3. wr.page = NoPage
    BY <1>2, <2>2 DEF LocalMaps
  <2>4. p \in Pages /\ IsAnon(vm, p) /\ vm.page[p].refcnt = 0
    <3>1. vm.modified \in Seq(Pages)
      BY <1>2, Parts DEF Queue
    <3>2. p = vm.modified[1] /\ 1 \in 1 .. Len(vm.modified)
      BY <2>2, <3>1
    <3>3. p \in ModifiedSet(vm)
      BY <1>2, <3>2 DEF Placed, Lists
    <3> QED
      BY <3>3 DEF ModifiedSet, IsAnon
  <2> HIDE DEF p
  <2>5. ASSUME s.panic = NoPanic PROVE Owing(s, flt, w)
    <3>1. vm' = s /\ wr' = w
      BY <2>1, <2>5 DEF Commit
    <3>2. s \in VmStates /\ w \in WriterLocals
      BY <1>1, <3>1
    <3>3. w.iops = wr.iops /\ w.page = p
      BY <1>2 DEF WriterLocals
    <3>4. Refd(vm, s, p, 1) /\ 1 \in Int
      BY <1>2, <2>4, <2>5, CleanPageEffect
    <3> HIDE DEF s, w
    <3>5. /\ Maps(s, Home(s), NoPage, BusyOf(flt), WiredOf(flt), WiredOf(flt),
                  Plus(HeldOf(wr), p, 1))
          /\ Steady(vm, s)
      BY <1>2, <2>4, <3>2, <3>4, RefdMaps
    <3>6. Kept(vm, s) /\ s.page[p].use = vm.page[p].use
      BY <2>4, <3>5, SteadyHome DEF Steady
    <3> QED
      BY <1>2, <2>3, <2>4, <3>2, <3>3, <3>5, <3>6, OwingHeld
  <2>6. (\A f \in Faulters : pc'[f] = pc[f]) /\ pc'["pgwriter"] = "send"
    BY <1>3, <2>2
  <2>7. Commit(s, flt, w, pf1)
    BY <2>1
  <2> HIDE DEF s, w
  <2> QED
    BY <2>2, <2>5, <2>6, <2>7, DaemonCommits
<1>5. CASE WriterIdle
  <2>1. PICK c : /\ pc["pgwriter"] = "collect" /\ pc' = [pc EXCEPT !["pgwriter"] = c]
                 /\ vm' = [vm EXCEPT !.ev.pgwriter = FALSE] /\ flt' = flt /\ wr' = wr
    BY <1>5 DEF WriterIdle, Goto
  <2>2. Same(vm, vm') /\ vm'.panic = vm.panic
    BY <1>2, <2>1 DEF VmStates, Same, SameRec
  <2>3. SameReads(flt, flt') /\ SameWirings(flt, flt') /\ wr'.page = NoPage
    BY <1>2, <2>1 DEF SameReads, SameWirings, LocalMaps
  <2>4. \A f \in Faulters : pc'[f] = pc[f]
    BY <1>3, <2>1
  <2>5. LocalMaps'
    BY <1>2, <2>1, <2>2, <2>3, <2>4, OthersMove
  <2>6. Owing(vm', flt', wr')
    BY <1>2, <2>1, <2>2, <2>3, SameOwing
  <2> QED
    BY <2>5, <2>6
<1>6. CASE WriterSend
  <2>1. PICK c : /\ vm.panic = NoPanic /\ pc["pgwriter"] = "send"
                 /\ pc' = [pc EXCEPT !["pgwriter"] = c] /\ vm' = vm /\ flt' = flt
                 /\ wr'.iops = Append(wr.iops, wr.page) /\ wr'.page = NoPage
    BY <1>6 DEF WriterSend, Goto
  <2>2. wr.page \in Pages
    BY <1>2, <2>1 DEF TypeInv, LocalsOK
  <2>3. HeldOf(wr') = HeldOf(wr)
    BY <1>1, <1>2, <2>1, <2>2, HeldSent
  <2>4. Same(vm, vm') /\ SameReads(flt, flt') /\ SameWirings(flt, flt')
    BY <2>1 DEF Same, SameRec, SameReads, SameWirings
  <2>5. \A f \in Faulters : pc'[f] = pc[f]
    BY <1>3, <2>1
  <2>6. LocalMaps'
    BY <1>2, <2>1, <2>5, OthersMove
  <2>7. Owing(vm', flt', wr')
    BY <1>2, <2>3, <2>4, SameOwing
  <2> QED
    BY <2>6, <2>7
<1>7. CASE WriterRelease
  <2> DEFINE p == Head(wr.iops)
             s == PageRelease(vm, p)
             w == [wr EXCEPT !.iops = Tail(@)]
  <2>1. PICK c : /\ vm.panic = NoPanic /\ pc["pgwriter"] = "drain"
                 /\ pc' = [pc EXCEPT !["pgwriter"] = c]
    BY <1>7 DEF WriterRelease, Goto
  <2>2. wr.iops # << >> /\ Commit(s, flt, w, pf)
    BY <1>7 DEF WriterRelease
  <2>3. wr.page = NoPage /\ w.iops = Tail(wr.iops) /\ w.page = wr.page
    <3>1. wr.page = NoPage
      BY <1>2, <2>1 DEF LocalMaps
    <3> QED
      BY <1>2, <3>1 DEF WriterLocals
  <2>4. ASSUME s.panic = NoPanic PROVE Owing(s, flt, w)
    <3>1. vm' = s /\ wr' = w
      BY <2>2, <2>4 DEF Commit
    <3>2. s \in VmStates /\ w \in WriterLocals
      BY <1>1, <3>1
    <3> HIDE DEF w
    <3>3. p \in Pages /\ HeldOf(w) = Plus(HeldOf(wr), p, -1)
      BY <1>2, <2>2, <2>3, <3>2, HeldLess
    <3>4. HeldOf(wr)[p] > 0
      <4>1. HeldOf(w)[p] >= 0
        BY <3>2, <3>3, HeldType
      <4>2. -1 \in Int
        OBVIOUS
      <4> HIDE DEF p
      <4>3. Plus(HeldOf(wr), p, -1)[p] = HeldOf(wr)[p] + (-1) /\ HeldOf(wr)[p] \in Int
        BY <1>2, <3>3, <4>2, PlusAt
      <4> QED
        BY <3>3, <4>1, <4>3
    <3>5. vm.page[p].use # "Deleted"
      BY <1>2, <3>3, <3>4 DEF Owing, AnonHeld, IsAnon
    <3>6. Refd(vm, s, p, -1) /\ -1 \in Int
      BY <1>2, <2>4, <3>3, <3>5, PageReleaseEffect
    <3> HIDE DEF s, p
    <3>7. /\ Maps(s, Home(s), NoPage, BusyOf(flt), WiredOf(flt), WiredOf(flt),
                  Plus(HeldOf(wr), p, -1))
          /\ Steady(vm, s)
      BY <1>2, <3>2, <3>3, <3>6, RefdMaps
    <3>8. Kept(vm, s)
      BY <3>7, SteadyHome
    <3> QED
      BY <1>2, <2>2, <2>3, <3>2, <3>7, <3>8, OwingReleased DEF p
  <2>5. \A f \in Faulters : pc'[f] = pc[f]
    BY <1>3, <2>1
  <2> HIDE DEF s, w
  <2>6. w.page = NoPage
    BY <2>3
  <2> QED
    BY <2>1, <2>2, <2>3, <2>4, <2>5, <2>6, DaemonCommits
<1> QED
  BY <1>4, <1>5, <1>6, <1>7 DEF WriterStep

(* The steps of the balancer.                                              *)
LEMMA BalancerMaps ==
  ASSUME MapInv, [Next]_vars, BalancerStep
  PROVE  LocalMaps' /\ Owing(vm', flt', wr')
<1>1. vm' \in VmStates
  BY NextType DEF MapInv, TypeInv, TypeOK
<1>2. /\ vm \in VmStates /\ flt \in [Faulters -> FaultLocals] /\ wr \in WriterLocals
      /\ Owing(vm, flt, wr) /\ LocalMaps
      /\ WiredOf(flt) \in Ledger /\ HeldOf(wr) \in Ledger
      /\ Maps(vm, Home(vm), NoPage, BusyOf(flt), WiredOf(flt), WiredOf(flt), HeldOf(wr))
  BY DaemonFacts
<1>3. PICK c : vm.panic = NoPanic /\ pc' = [pc EXCEPT !["balancer"] = c]
  BY DEF BalancerStep, BalancerWake, BalancerTrim, BalancerUnlock, BalancerCheck, Goto
<1>4. (\A f \in Faulters : pc'[f] = pc[f]) /\ pc'["pgwriter"] = pc["pgwriter"]
  BY <1>3, DaemonFacts
<1>5. pc'["pgwriter"] # "send" => wr.page = NoPage
  BY <1>2, <1>4 DEF LocalMaps
<1>6. CASE BalancerTrim
  <2> DEFINE s == WslTrim1(vm)
  <2>1. vm.wsl.queue # << >> /\ Commit(s, flt, wr, pf)
    BY <1>6 DEF BalancerTrim
  <2>2. ASSUME s.panic = NoPanic PROVE Owing(s, flt, wr)
    <3>1. Trimmed(vm, s)
      BY <1>2, <2>1, <2>2, WslTrim1Effect
    <3>2. s \in VmStates
      BY <1>1, <2>1, <2>2 DEF Commit
    <3> HIDE DEF s
    <3>3. Home(vm) \in [Pages -> PteAddr]
      BY <1>2, PagePart DEF Home
    <3>4. /\ Maps(s, Home(vm), NoPage, BusyOf(flt), WiredOf(flt), WiredOf(flt), HeldOf(wr))
          /\ Steady(vm, s)
      BY <1>2, <3>1, <3>2, <3>3, TrimmedMaps DEF Steady
    <3>5. Home(s) = Home(vm) /\ Kept(vm, s)
      BY <3>4, SteadyHome
    <3>6. SameReads(flt, flt) /\ SameWirings(flt, flt)
      BY DEF SameReads, SameWirings
    <3> QED
      BY <1>2, <3>4, <3>5, <3>6, OwingSame
  <2> HIDE DEF s
  <2> QED
    BY <1>3, <1>4, <1>5, <2>1, <2>2, DaemonCommits
<1>7. CASE ~BalancerTrim
  <2>1. /\ vm' = vm \/ vm' = [vm EXCEPT !.ev.balancer = FALSE]
        /\ flt' = flt /\ wr' = wr
    BY <1>7 DEF BalancerStep, BalancerWake, BalancerUnlock, BalancerCheck
  <2>2. Same(vm, vm') /\ vm'.panic = vm.panic
    BY <1>2, <2>1 DEF VmStates, Same, SameRec
  <2>3. SameReads(flt, flt') /\ SameWirings(flt, flt')
    BY <2>1 DEF SameReads, SameWirings
  <2>4. LocalMaps'
    BY <1>2, <1>4, <1>5, <2>1, <2>2, OthersMove
  <2>5. Owing(vm', flt', wr')
    BY <1>2, <2>1, <2>2, <2>3, SameOwing
  <2> QED
    BY <2>4, <2>5
<1> QED
  BY <1>6, <1>7

-----------------------------------------------------------------------------
(* When the threads start, the root is a table without PTEs, nothing is    *)
(* wired, read in or written out, and every other page is free.            *)
LEMMA InitMaps == Init => MapInv
<1> SUFFICES ASSUME Init PROVE MapInv
  OBVIOUS
<1>1. \A a \in PteAddr : Entry(vm, a) = ZeroPte
  BY DEF Init, VmInit, PteAddr, Entry
<1>2. \A q \in Pages : /\ vm.page[q].use = IF q = Root THEN TableUse[Levels] ELSE "Free"
                       /\ vm.page[q].refcnt = IF q = Root THEN 1 ELSE 0
                       /\ vm.page[q].nonzero = 0 /\ vm.page[q].nonswap = 0
  BY DEF Init, VmInit
<1>3. \A f \in Faulters : /\ flt[f].page = NoPage /\ pc[f] = "user"
                          /\ \A k \in 1 .. Levels : flt[f].pages[k] = NoPage
  BY DEF Init, NoFault, Threads
<1>4. wr.iops = << >> /\ wr.page = NoPage
  BY DEF Init, NoWrite
<1>5. NoPage \notin Pages
  BY DEF NoPage, Pages
<1>6. Root \in Pages /\ TableUse[Levels] \in TableUses
  BY ConstantTypes, LevelUse, VmAssumption DEF Root
<1>7. BusyOf(flt) = {}
  BY <1>3, <1>5 DEF BusyOf
<1>8. \A q \in Pages : WiredOf(flt)[q] = 0
  <2> TAKE q \in Pages
  <2>1. {fl \in Faulters \X (1 .. Levels) : flt[fl[1]].pages[fl[2]] = q} = {}
    BY <1>3, <1>5
  <2> QED
    BY <2>1, FS_EmptySet DEF WiredOf
<1>9. \A q \in Pages : HeldOf(wr)[q] = 0
  <2> TAKE q \in Pages
  <2>1. {i \in 1 .. Len(wr.iops) : wr.iops[i] = q} = {}
    BY <1>4
  <2>2. wr.page # q
    BY <1>4, <1>5
  <2>3. HeldOf(wr)[q] = Cardinality({}) + 0
    BY <2>1, <2>2 DEF HeldOf
  <2> QED
    BY <2>3, FS_EmptySet
<1>10. \A q \in Pages : NumIn(vm, q) = 0 /\ NumUse(vm, q) = 0
  <2> TAKE q \in Pages
  <2>1. \A j \in Idx : vm.table[q][j] = ZeroPte
    BY DEF Init, VmInit
  <2> QED
    BY <2>1, EmptyTable
<1>11. ZeroPte.kind = "Zero"
  BY DEF ZeroPte
<1>12. Linked(vm, Home(vm), NoPage, BusyOf(flt))
  <2>1. PtesLinked(vm, Home(vm), NoPage)
    BY <1>1, <1>11 DEF PtesLinked
  <2>2. PagesLinked(vm, Home(vm), NoPage, BusyOf(flt))
    BY <1>2 DEF PagesLinked, IsAnon, IsTable, TableUses
  <2>3. BusyLinked(vm, Home(vm), NoPage, BusyOf(flt))
    BY <1>1, <1>7, <1>11 DEF BusyLinked
  <2> QED
    BY <1>2, <1>6, <2>1, <2>2, <2>3 DEF Linked
<1>13. Counted(vm, WiredOf(flt), WiredOf(flt))
  BY <1>2, <1>8, <1>10 DEF Counted
<1>14. Referenced(vm, Home(vm), NoPage, HeldOf(wr))
  <2> SUFFICES ASSUME NEW q \in Pages
               PROVE  vm.page[q].refcnt = 0 + Base(vm, Home(vm), NoPage, q)
    BY <1>9 DEF Referenced
  <2>1. CASE q = Root
    <3>1. IsTable(vm, q) /\ ~IsAnon(vm, q)
      BY <1>2, <1>6, <2>1 DEF IsTable, IsAnon, TableUses
    <3> QED
      BY <1>2, <2>1, <3>1 DEF Base
  <2>2. CASE q # Root
    <3>1. ~IsTable(vm, q) /\ ~IsAnon(vm, q)
      BY <1>2, <2>2 DEF IsTable, IsAnon, TableUses
    <3> QED
      BY <1>2, <2>2, <3>1 DEF Base
  <2> QED
    BY <2>1, <2>2
<1>15. TablesWired(vm, flt) /\ AnonHeld(vm, wr) /\ ReadAlone(flt, wr)
  BY <1>3, <1>5, <1>9 DEF TablesWired, AnonHeld, ReadAlone
<1>16. LocalMaps
  BY <1>3, <1>4 DEF LocalMaps, LocalMap
<1> QED
  BY <1>12, <1>13, <1>14, <1>15, <1>16, InitType, InitQueues DEF MapInv, Owing, Maps

(* Every step of the simulator keeps them.                                 *)
LEMMA NextMaps == MapInv /\ [Next]_vars => MapInv'
<1> SUFFICES ASSUME MapInv, [Next]_vars PROVE MapInv'
  OBVIOUS
<1>1. TypeInv' /\ Placed(vm, NoPage)'
  BY NextType, NextQueues DEF MapInv
<1>2. LocalMaps' /\ Owing(vm', flt', wr')
  <2>1. CASE \E f \in Faulters, va \in VAddrs, write \in Writes : Pick(f, va, write)
    BY <2>1, StartMaps
  <2>2. ASSUME NEW f \in Faulters, FaulterStep(f) PROVE LocalMaps' /\ Owing(vm', flt', wr')
    BY <2>2, PassMaps, StartMaps, WireRootMaps, WireLevelMaps, ValidLeafMaps, FillLeafMaps,
       SwapFaultMaps, UnwireMaps, FinishReadMaps, Zenon DEF FaulterStep
  <2>3. CASE WriterStep
    BY <2>3, WriterMaps
  <2>4. CASE BalancerStep
    BY <2>4, BalancerMaps
  <2>5. CASE UNCHANGED vars
    <3>1. vm' = vm /\ flt' = flt /\ wr' = wr /\ pc' = pc
      BY <2>5 DEF vars
    <3>2. LocalMaps'
      BY <3>1 DEF MapInv, LocalMaps
    <3> QED
      BY <3>1, <3>2 DEF MapInv
  <2> QED
    BY <2>1, <2>2, <2>3, <2>4, <2>5 DEF Next, Halted
<1>3. Owing(vm, flt, wr)'
  <2>1. /\ Linked(vm', Home(vm'), NoPage, BusyOf(flt')) /\ Counted(vm', WiredOf(flt'), WiredOf(flt'))
        /\ Referenced(vm', Home(vm'), NoPage, HeldOf(wr'))
        /\ TablesWired(vm', flt') /\ AnonHeld(vm', wr') /\ ReadAlone(flt', wr')
    BY <1>2 DEF Owing, Maps
  <2>2. /\ Home(vm') = Home(vm)' /\ BusyOf(flt') = BusyOf(flt)'
        /\ WiredOf(flt') = WiredOf(flt)' /\ HeldOf(wr') = HeldOf(wr)'
    BY DEF Home, BusyOf, WiredOf, HeldOf
  <2>3. Linked(vm, Home(vm), NoPage, BusyOf(flt))'
    <3>1. PtesLinked(vm, Home(vm), NoPage)'
      BY <2>1, <2>2, Zenon DEF Linked, PtesLinked, Entry, IsTable, Below
    <3>2. PagesLinked(vm, Home(vm), NoPage, BusyOf(flt))'
      BY <2>1, <2>2 DEF Linked, PagesLinked, Entry, IsTable, IsAnon
    <3>3. BusyLinked(vm, Home(vm), NoPage, BusyOf(flt))'
      BY <2>1, <2>2 DEF Linked, BusyLinked, Entry, IsAnon
    <3> QED
      BY <2>1, <3>1, <3>2, <3>3, Zenon DEF Linked
  <2>4. Counted(vm, WiredOf(flt), WiredOf(flt))'
    BY <2>1, <2>2 DEF Counted, NumIn, NumUse, InCoreSet, InUseSet, IsTable
  <2>5. Referenced(vm, Home(vm), NoPage, HeldOf(wr))'
    BY <2>1, <2>2 DEF Referenced, Base, Mapped, Entry, IsTable, IsAnon
  <2>6. TablesWired(vm, flt)' /\ AnonHeld(vm, wr)' /\ ReadAlone(flt, wr)'
    BY <2>1, <2>2 DEF TablesWired, AnonHeld, ReadAlone, IsAnon
  <2> QED
    BY <2>3, <2>4, <2>5, <2>6 DEF Owing, Maps
<1> QED
  BY <1>1, <1>2, <1>3 DEF MapInv

(* In every reachable state the PTE that maps a page and the referent of   *)
(* the page name one another, through the evictions of wsl_evict(), the    *)
(* steals of steal_page() and the tables that                              *)
(* vmp_pagetable_page_pte_deleted() frees: vmp_page_alloc_locked()         *)
(* rewrites the PTE of the page it steals and no other.                    *)
THEOREM MapsMutual == Spec => []ReverseMap
<1>1. MapInv => ReverseMap
  <2> SUFFICES ASSUME MapInv PROVE ReverseMap
    OBVIOUS
  <2>1. vm \in VmStates /\ Linked(vm, Home(vm), NoPage, BusyOf(flt))
    BY DaemonFacts DEF Maps
  <2>2. ASSUME NEW t \in Pages, NEW i \in Idx, vm.table[t][i].kind \in {"Valid", "Trans"}
        PROVE  /\ Table(t)
               /\ vm.page[vm.table[t][i].page].referent = << t, i >>
               /\ vm.table[t][i].kind = "Trans" => vm.page[t].use = "PML1"
               /\ IF vm.page[t].use = "PML1" THEN Anon(vm.table[t][i].page)
                  ELSE Table(vm.table[t][i].page)
    <3> DEFINE a == << t, i >>
    <3>1. a \in PteAddr /\ Entry(vm, a) = vm.table[t][i] /\ a[1] = t
      BY DEF PteAddr, Entry
    <3>2. vm.table[t][i].page \in Pages
      BY <2>1, TablePart DEF Pte
    <3>3. Entry(vm, a).kind \in {"Valid", "Trans"}
      BY <2>2, <3>1
    <3> HIDE DEF a
    <3>4. /\ IsTable(vm, t) /\ Home(vm)[vm.table[t][i].page] = a
          /\ vm.page[vm.table[t][i].page].use = Below(vm.page[t].use)
          /\ vm.table[t][i].kind = "Trans" => vm.page[t].use = "PML1"
      BY <2>1, <3>1, <3>3 DEF Linked, PtesLinked
    <3>5. vm.page[vm.table[t][i].page].referent = a
      BY <3>2, <3>4 DEF Home
    <3>6. IF vm.page[t].use = "PML1" THEN Anon(vm.table[t][i].page)
          ELSE Table(vm.table[t][i].page)
      BY <3>4 DEF Below, Anon, Table, IsTable, TableUses
    <3>7. Table(t)
      BY <3>4 DEF Table, IsTable, TableUses
    <3> QED
      BY ONLY <3>4, <3>5, <3>6, <3>7, Zenon DEF a
  <2>3. ASSUME NEW p \in Pages \ {Root}, Anon(p) \/ Table(p)
        PROVE  \/ /\ PteAt(vm.page[p].referent).kind \in {"Valid", "Trans"}
                  /\ PteAt(vm.page[p].referent).page = p
               \/ PteAt(vm.page[p].referent).kind = "Busy" /\ Reading(p) # {}
    <3> DEFINE a == vm.page[p].referent
    <3>1. Home(vm)[p] = a /\ a \in PteAddr /\ PteAt(a) = Entry(vm, a) /\ p # NoPage
      BY <2>1, PagePart DEF Home, PteAt, Entry, NoPage, Pages
    <3> HIDE DEF a
    <3>2. \/ Entry(vm, a).kind \in {"Valid", "Trans"} /\ Entry(vm, a).page = p
          \/ << a, p >> \in BusyOf(flt)
      BY <2>1, <2>3, <3>1 DEF Linked, PagesLinked, Anon, Table, IsAnon, IsTable, TableUses
    <3>3. ASSUME << a, p >> \in BusyOf(flt)
          PROVE  Entry(vm, a).kind = "Busy" /\ Reading(p) # {}
      <4>1. Entry(vm, a).kind = "Busy"
        BY <2>1, <3>1, <3>3 DEF Linked, BusyLinked
      <4>2. PICK f \in Faulters : << a, p >> = << flt[f].pte, flt[f].page >>
        BY <3>3 DEF BusyOf
      <4> QED
        BY <4>1, <4>2 DEF Reading
    <3> QED
      BY <3>1, <3>2, <3>3 DEF a
  <2> QED
    BY <2>2, <2>3 DEF ReverseMap
<1> QED
  BY <1>1, InitMaps, NextMaps, PTL DEF Spec

(* In every reachable state every reference that refcnt counts is          *)
(* somebody's: the PTE's and the page writer's for a page, those of its    *)
(* PTEs, of its wirings and of the working set for a page table.  The      *)
(* retains and releases of the fault handler, the working set, the page    *)
(* writer and the tables balance, whatever the order of the threads.       *)
THEOREM ReferencesAccounted == Spec => []RefcntAccounted
<1>1. MapInv => RefcntAccounted
  <2> SUFFICES ASSUME MapInv, NEW p \in Pages
               PROVE  /\ Anon(p) =>
                           vm.page[p].refcnt =
                             Holds(p) + (IF PteAt(vm.page[p].referent).kind \in {"Valid", "Busy"}
                                         THEN 1 ELSE 0)
                      /\ Table(p) => vm.page[p].refcnt = vm.page[p].nonswap + 1
    BY DEF RefcntAccounted
  <2>1. /\ vm \in VmStates /\ HeldOf(wr) \in Ledger /\ AnonHeld(vm, wr)
        /\ Referenced(vm, Home(vm), NoPage, HeldOf(wr))
    BY DaemonFacts DEF Maps, Owing
  <2>2. HeldOf(wr)[p] = Holds(p) /\ HeldOf(wr)[p] \in Int
    BY <2>1 DEF HeldOf, Holds, Ledger
  <2>3. vm.page[p].refcnt = HeldOf(wr)[p] + Base(vm, Home(vm), NoPage, p)
    BY <2>1 DEF Referenced
  <2>4. Home(vm)[p] = vm.page[p].referent /\ p # NoPage
    BY SMTT(60) DEF Home, NoPage, Pages
  <2>5. ASSUME Anon(p)
        PROVE  Base(vm, Home(vm), NoPage, p) =
                 IF PteAt(vm.page[p].referent).kind \in {"Valid", "Busy"} THEN 1 ELSE 0
    BY <2>4, <2>5 DEF Base, Mapped, IsAnon, Anon, PteAt, Entry
  <2>6. ASSUME Table(p) PROVE vm.page[p].refcnt = vm.page[p].nonswap + 1
    <3>1. IsTable(vm, p) /\ ~IsAnon(vm, p)
      BY <2>6 DEF Table, IsTable, IsAnon, TableUses
    <3>2. HeldOf(wr)[p] = 0
      <4>1. ~(HeldOf(wr)[p] > 0)
        BY <2>1, <3>1 DEF AnonHeld
      <4>2. HeldOf(wr)[p] >= 0
        BY HeldType DEF MapInv, TypeInv, TypeOK
      <4> QED
        BY <2>2, <4>1, <4>2
    <3>3. Base(vm, Home(vm), NoPage, p) = vm.page[p].nonswap + 1 /\ vm.page[p].nonswap \in Int
      BY <2>1, <3>1, PagePart DEF Base
    <3> QED
      BY <2>3, <3>2, <3>3
  <2> QED
    BY <2>2, <2>3, <2>5, <2>6
<1> QED
  BY <1>1, InitMaps, NextMaps, PTL DEF Spec

(* In every reachable state nonswap_ptes of a page table is the number of  *)
(* its in-core PTEs and wirings, and nonzero_ptes is no smaller than the   *)
(* number of its PTEs in use and wirings: when                             *)
(* vmp_pagetable_page_pte_deleted() finds the last one gone, no thread has *)
(* the table wired and none of its PTEs is in use.                         *)
THEOREM TablesCounted == Spec => []TableCounts
<1>1. MapInv => TableCounts
  <2> SUFFICES ASSUME MapInv, NEW t \in Pages, Table(t)
               PROVE  /\ vm.page[t].nonswap =
                           Wirings(t) + Cardinality({i \in Idx : vm.table[t][i].kind \in InCore})
                      /\ vm.page[t].nonzero >=
                           Wirings(t) + Cardinality({i \in Idx : vm.table[t][i].kind # "Zero"})
    BY DEF TableCounts
  <2>1. Counted(vm, WiredOf(flt), WiredOf(flt)) /\ IsTable(vm, t)
    BY DaemonFacts DEF Maps, Table, IsTable, TableUses
  <2>2. WiredOf(flt)[t] = Wirings(t)
    BY DEF WiredOf, Wirings
  <2>3. /\ NumIn(vm, t) = Cardinality({i \in Idx : vm.table[t][i].kind \in InCore})
        /\ NumUse(vm, t) = Cardinality({i \in Idx : vm.table[t][i].kind # "Zero"})
    BY DEF NumIn, NumUse, InCoreSet, InUseSet, InCore
  <2> QED
    BY <2>1, <2>2, <2>3 DEF Counted
<1> QED
  BY <1>1, InitMaps, NextMaps, PTL DEF Spec

(* In every reachable state, while do_fault() waits for its read with no   *)
(* lock held, the PTE pointer and the page it kept are still good: the PTE *)
(* is busy, its table is not freed or reused, and no other thread, nor the *)
(* page writer, has a reference to the page.                               *)
THEOREM SwapInUndisturbed == Spec => []SwapInStable
<1>1. MapInv => SwapInStable
  <2> SUFFICES ASSUME MapInv, NEW f \in Faulters,
                      pc[f] \in {"read", "readVad", "readWs", "finish"}
               PROVE  /\ PteAt(flt[f].pte).kind = "Busy"
                      /\ Table(flt[f].pte[1]) /\ vm.page[flt[f].pte[1]].nonswap > 0
                      /\ vm.page[flt[f].page].referent = flt[f].pte
                      /\ Anon(flt[f].page) /\ vm.page[flt[f].page].refcnt = 1
    BY DEF SwapInStable
  <2> DEFINE a == flt[f].pte
             t == a[1]
  <2>1. flt[f].page \in Pages
    BY DEF MapInv, LocalMaps
  <2>2. /\ a \in PteAddr /\ IsAnon(vm, flt[f].page) /\ Entry(vm, a).kind = "Busy"
        /\ vm.page[a[1]].use = "PML1"
        /\ vm.page[flt[f].page].referent = a /\ vm.page[flt[f].page].refcnt = 1
    <3>1. /\ vm \in VmStates /\ flt \in [Faulters -> FaultLocals] /\ wr \in WriterLocals
          /\ Owing(vm, flt, wr)
      BY DaemonFacts
    <3> QED
      BY <2>1, <3>1, ReadRefd
  <2> HIDE DEF a
  <2>3. t \in Pages /\ a[2] \in Idx /\ vm.table[t][a[2]].kind = "Busy"
    BY <2>2, AddrParts DEF Entry
  <2>4. IsTable(vm, t)
    BY <2>2 DEF IsTable, TableUses
  <2> HIDE DEF t
  <2>5. vm.page[t].nonswap = WiredOf(flt)[t] + NumIn(vm, t)
    BY <2>3, <2>4, DaemonFacts DEF Maps, Counted
  <2>6. NumIn(vm, t) \in Nat /\ NumIn(vm, t) # 0
    <3>1. IsFiniteSet(InCoreSet(vm.table[t])) /\ NumIn(vm, t) \in Nat
      BY CountsType
    <3>2. a[2] \in InCoreSet(vm.table[t])
      BY <2>3 DEF InCoreSet
    <3> QED
      BY <3>1, <3>2, FS_EmptySet DEF NumIn
  <2>7. WiredOf(flt)[t] \in Nat
    <3> DEFINE W == {fl \in Faulters \X (1 .. Levels) : flt[fl[1]].pages[fl[2]] = t}
    <3>1. IsFiniteSet(W)
      BY WiringsFinite, ZenonT(60)
    <3>2. WiredOf(flt)[t] = Cardinality(W)
      BY <2>3 DEF WiredOf
    <3> QED
      BY <3>1, <3>2, FS_CardinalityType
  <2>8. vm.page[t].nonswap > 0
    BY <2>5, <2>6, <2>7
  <2> QED
    BY <2>2, <2>4, <2>8 DEF PteAt, Entry, Table, IsTable, TableUses, Anon, IsAnon, a, t
<1> QED
  BY <1>1, InitMaps, NextMaps, PTL DEF Spec
=============================================================================
