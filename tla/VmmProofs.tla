----------------------------- MODULE VmmProofs -----------------------------
(***************************************************************************)
(* What the functions on the state of the memory manager keep: a           *)
(* well-typed state stays one.  Then the slots of the paging file:         *)
(* vmp_pagefile_alloc() finds a free slot whenever there is one, never     *)
(* gives out one that is in use, and keeps free_slots equal to the number  *)
(* of clear bits.  With this, every reachable state of the simulator is    *)
(* well typed.                                                             *)
(***************************************************************************)
EXTENDS VmmProps, SequenceTheorems, FiniteSetTheorems, WellFoundedInduction, TLAPS

-----------------------------------------------------------------------------
(* The operators on states keep their types.                               *)

(* The first page, the root table and the null referent are what their     *)
(* names say, whatever the constants.                                      *)
LEMMA ConstantTypes ==
  /\ 0 \in Pages /\ Root \in Pages
  /\ NullRef \in PteAddr \/ Idx = {}
  /\ 0 \in Idx
  /\ Pages \subseteq Nat
  BY VmAssumption DEF Pages, Idx, Root, NullRef, PteAddr

(* What the vmp_pte_*_create() functions of vmpsoft.h build are PTEs.      *)
LEMMA PteTypes ==
  ASSUME NEW p \in Pages, NEW w \in BOOLEAN, NEW slot \in Nat \cup {NoSlot}
  PROVE  /\ ZeroPte \in Pte /\ BusyPte \in Pte
         /\ HwPte(p, w) \in Pte /\ TransPte(p) \in Pte /\ SwapPte(slot) \in Pte
  BY ConstantTypes DEF Pte, PteKind, ZeroPte, BusyPte, HwPte, TransPte, SwapPte, NoSlot

(* The components of a state, and a state with one component replaced.     *)
LEMMA Parts ==
  ASSUME NEW s \in VmStates
  PROVE  /\ s.page \in PageDb /\ s.free \in Queue /\ s.standby \in Queue
         /\ s.modified \in Queue /\ s.stat \in Stats /\ s.wasShortage \in BOOLEAN
         /\ s.ev \in Events /\ s.table \in TableMem /\ s.data \in Contents
         /\ s.wsl \in WsList /\ s.panic \in PanicSite \cup {NoPanic}
  BY DEF VmStates

(* The fields of a struct vm_page of the PFN database.                     *)
LEMMA PagePart ==
  ASSUME NEW s \in VmStates, NEW p \in Pages
  PROVE  /\ s.page[p] \in PageRec
         /\ s.page[p].use \in PageUse /\ s.page[p].refcnt \in Nat
         /\ s.page[p].dirty \in BOOLEAN /\ s.page[p].drumslot \in Nat \cup {NoSlot}
         /\ s.page[p].nonzero \in Int /\ s.page[p].nonswap \in Int
         /\ s.page[p].referent \in PteAddr
         /\ s.page[p].referent[1] \in Pages /\ s.page[p].referent[2] \in Idx
  BY Parts DEF PageDb, PageRec, PteAddr

(* The fields of a PTE of a page table.                                    *)
LEMMA TablePart ==
  ASSUME NEW s \in VmStates, NEW p \in Pages, NEW i \in Idx
  PROVE  /\ s.table[p][i] \in Pte
         /\ s.table[p][i].page \in Pages /\ s.table[p][i].writeable \in BOOLEAN
         /\ s.table[p][i].slot \in Nat \cup {NoSlot}
  BY Parts DEF TableMem, Pte

(* An assignment to an element of the PFN database.                        *)
LEMMA SetPageType ==
  ASSUME NEW s \in VmStates, NEW p \in Pages, NEW r \in PageRec
  PROVE  [s EXCEPT !.page[p] = r] \in VmStates
<1>1. [s.page EXCEPT ![p] = r] \in PageDb
  BY Parts DEF PageDb
<1> QED
  BY <1>1 DEF VmStates

(* An assignment to a PTE.                                                 *)
LEMMA SetTableType ==
  ASSUME NEW s \in VmStates, NEW p \in Pages, NEW i \in Idx, NEW pte \in Pte
  PROVE  [s EXCEPT !.table[p][i] = pte] \in VmStates
<1>1. [s.table EXCEPT ![p][i] = pte] \in TableMem
  BY Parts DEF TableMem
<1> QED
  BY <1>1 DEF VmStates

(* kassert() and kfatal() leave a state of the same type.                  *)
LEMMA PanicType ==
  ASSUME NEW s \in VmStates, NEW t
  PROVE  /\ t \in VmStates => Then(s, t) \in VmStates
         /\ \A site \in PanicSite : [s EXCEPT !.panic = site] \in VmStates
  BY DEF VmStates, Then

(* kassert(): what follows is well-typed if it is when the condition       *)
(* holds.                                                                  *)
LEMMA KassertType ==
  ASSUME NEW s \in VmStates, NEW ok, NEW site \in PanicSite, NEW t,
         ok => t \in VmStates
  PROVE  Kassert(s, ok, site, t) \in VmStates
  BY DEF VmStates, Then, Kassert

(* kfatal() leaves the state it found, and its site.                       *)
LEMMA KfatalType ==
  ASSUME NEW s \in VmStates, NEW site \in PanicSite
  PROVE  Kfatal(s, site) \in VmStates
  BY KassertType DEF Kfatal

(* Unlink() closes the gap the element leaves.                             *)
LEMMA UnlinkProperties ==
  ASSUME NEW S, NEW q \in Seq(S), NEW x, Contains(q, x)
  PROVE  /\ Unlink(q, x) \in Seq(S)
         /\ Len(Unlink(q, x)) = Len(q) - 1
         /\ \E i \in 1 .. Len(q) :
              /\ q[i] = x
              /\ \A j \in 1 .. Len(q) - 1 :
                   Unlink(q, x)[j] = IF j < i THEN q[j] ELSE q[j + 1]
<1> DEFINE i == CHOOSE j \in 1 .. Len(q) : q[j] = x
           a == SubSeq(q, 1, i - 1)
           b == SubSeq(q, i + 1, Len(q))
<1>1. i \in 1 .. Len(q) /\ q[i] = x
  BY DEF Contains
<1> HIDE DEF i
<1>2. Len(q) \in Nat /\ \A j \in 1 .. Len(q) : q[j] \in S
  OBVIOUS
<1>3. /\ a \in Seq(S) /\ Len(a) = i - 1
      /\ \A j \in 1 .. i - 1 : a[j] = q[j]
  <2>1. \A j \in 1 .. i - 1 : q[j] \in S
    BY <1>1, <1>2
  <2> QED
    BY <1>1, <1>2, <2>1, SubSeqProperties
<1>4. /\ b \in Seq(S) /\ Len(b) = Len(q) - i
      /\ \A j \in 1 .. Len(q) - i : b[j] = q[i + j]
  <2>1. \A j \in i + 1 .. Len(q) : q[j] \in S
    BY <1>1, <1>2
  <2>2. i + 1 \in Int /\ Len(q) \in Int
    BY <1>1, <1>2
  <2>3. /\ b \in Seq(S) /\ Len(b) = IF i + 1 <= Len(q) THEN Len(q) - (i + 1) + 1 ELSE 0
        /\ \A j \in 1 .. Len(q) - (i + 1) + 1 : b[j] = q[i + 1 + j - 1]
    BY ONLY <2>1, <2>2, SubSeqProperties
  <2> QED
    BY <1>1, <1>2, <2>3
<1>5. Unlink(q, x) = a \o b
  BY DEF Unlink, RemoveAt, i
<1> HIDE DEF a, b
<1>6. /\ a \o b \in Seq(S) /\ Len(a \o b) = Len(a) + Len(b)
      /\ \A j \in 1 .. Len(a) + Len(b) :
           (a \o b)[j] = IF j <= Len(a) THEN a[j] ELSE b[j - Len(a)]
  BY <1>3, <1>4, ConcatProperties
<1>7. ASSUME NEW j \in 1 .. Len(q) - 1
      PROVE  (a \o b)[j] = IF j < i THEN q[j] ELSE q[j + 1]
  <2>1. CASE j < i
    BY <2>1, <1>1, <1>2, <1>3, <1>4, <1>6
  <2>2. CASE ~(j < i)
    <3>1. (a \o b)[j] = b[j - (i - 1)]
      BY <2>2, <1>1, <1>2, <1>3, <1>4, <1>6
    <3>2. b[j - (i - 1)] = q[i + (j - (i - 1))]
      BY <2>2, <1>1, <1>2, <1>4, SMTT(60)
    <3>3. i + (j - (i - 1)) = j + 1
      BY <1>1, <1>2
    <3> QED
      BY <2>2, <3>1, <3>2, <3>3
  <2> QED
    BY <2>1, <2>2
<1>8. Len(a) + Len(b) = Len(q) - 1
  BY <1>1, <1>2, <1>3, <1>4
<1>9. \A j \in 1 .. Len(q) - 1 :
        Unlink(q, x)[j] = IF j < i THEN q[j] ELSE q[j + 1]
  BY <1>5, <1>7
<1>10. \E k \in 1 .. Len(q) :
         /\ q[k] = x
         /\ \A j \in 1 .. Len(q) - 1 :
              Unlink(q, x)[j] = IF j < k THEN q[j] ELSE q[j + 1]
  BY <1>1, <1>9
<1> QED
  BY <1>5, <1>6, <1>8, <1>10

(* TAILQ_REMOVE leaves a queue of the same kind of element.                *)
LEMMA UnlinkType ==
  ASSUME NEW S, NEW q \in Seq(S), NEW x, Contains(q, x)
  PROVE  Unlink(q, x) \in Seq(S)
  BY UnlinkProperties
-----------------------------------------------------------------------------
(* check_shortage() of resident.c keeps the type of the state.             *)
LEMMA CheckShortageType ==
  ASSUME NEW s \in VmStates
  PROVE  CheckShortage(s) \in VmStates
  BY Zenon DEF CheckShortage, VmStates, Events, PageShortage, Available, Stats

(* The sufficiency test at the end of vmp_page_release_locked() keeps it.  *)
LEMMA AnnounceSufficienceType ==
  ASSUME NEW s \in VmStates
  PROVE  AnnounceSufficience(s) \in VmStates
  BY DEF AnnounceSufficience, VmStates, Events, PageSufficience, Available, Stats

(* The counters of vmstat, one or two of them set.                         *)
LEMMA StatsUpdate ==
  ASSUME NEW st \in Stats, NEW a \in Int, NEW b \in Int
  PROVE  /\ [st EXCEPT !.nactive = a] \in Stats
         /\ [st EXCEPT !.nfree = a] \in Stats
         /\ [st EXCEPT !.nstandby = a] \in Stats
         /\ [st EXCEPT !.nmodified = a] \in Stats
         /\ [st EXCEPT !.nmodified = a, !.nactive = b] \in Stats
         /\ [st EXCEPT !.nstandby = a, !.nactive = b] \in Stats
  BY DEF Stats

(* The counters of vmstat are integers.                                    *)
LEMMA StatsPart ==
  ASSUME NEW s \in VmStates
  PROVE  /\ s.stat.nfree \in Int /\ s.stat.nstandby \in Int
         /\ s.stat.nmodified \in Int /\ s.stat.nactive \in Int
  BY Parts DEF Stats

(* The fields of struct vm_page.                                           *)
LEMMA PageRecUpdate ==
  ASSUME NEW r \in PageRec
  PROVE  /\ \A n \in Nat : [r EXCEPT !.refcnt = n] \in PageRec
         /\ \A u \in PageUse : [r EXCEPT !.use = u] \in PageRec
         /\ \A d \in BOOLEAN : [r EXCEPT !.dirty = d] \in PageRec
         /\ \A sl \in Nat \cup {NoSlot} : [r EXCEPT !.drumslot = sl] \in PageRec
         /\ \A i \in Int : [r EXCEPT !.nonzero = i] \in PageRec
         /\ \A i \in Int : [r EXCEPT !.nonswap = i] \in PageRec
         /\ \A ref \in PteAddr : [r EXCEPT !.referent = ref] \in PageRec
  BY DEF PageRec

(* Two fields of struct vm_page assigned together.                         *)
LEMMA PageRecUpdate2 ==
  ASSUME NEW r \in PageRec
  PROVE  /\ \A a, b \in Int : [r EXCEPT !.nonzero = a, !.nonswap = b] \in PageRec
         /\ \A a \in Int, u \in PageUse : [r EXCEPT !.nonzero = a, !.use = u] \in PageRec
         /\ \A b \in Int, ref \in PteAddr :
              [r EXCEPT !.nonswap = b, !.referent = ref] \in PageRec
         /\ \A sl \in Nat \cup {NoSlot}, d \in BOOLEAN :
              [r EXCEPT !.drumslot = sl, !.dirty = d] \in PageRec
  BY Zenon DEF PageRec

(* An assignment to one field of a page of the PFN database.               *)
LEMMA SetFieldType ==
  ASSUME NEW s \in VmStates, NEW p \in Pages
  PROVE  /\ \A n \in Nat : [s EXCEPT !.page[p].refcnt = n] \in VmStates
         /\ \A u \in PageUse : [s EXCEPT !.page[p].use = u] \in VmStates
         /\ \A d \in BOOLEAN : [s EXCEPT !.page[p].dirty = d] \in VmStates
         /\ \A sl \in Nat \cup {NoSlot} : [s EXCEPT !.page[p].drumslot = sl] \in VmStates
         /\ \A i \in Int : [s EXCEPT !.page[p].nonzero = i] \in VmStates
         /\ \A i \in Int : [s EXCEPT !.page[p].nonswap = i] \in VmStates
         /\ \A ref \in PteAddr : [s EXCEPT !.page[p].referent = ref] \in VmStates
<1>1. s.page[p] \in PageRec
  BY PagePart
<1> QED
  BY <1>1, PageRecUpdate, SetPageType

(* vmp_page_retain_locked() keeps the type of the state.                   *)
LEMMA PageRetainType ==
  ASSUME NEW s \in VmStates, NEW p \in Pages
  PROVE  PageRetain(s, p) \in VmStates
<1> DEFINE t == [s EXCEPT !.page[p].refcnt = @ + 1]
           m == [t EXCEPT !.modified = Unlink(@, p), !.stat.nmodified = @ - 1,
                          !.stat.nactive = @ + 1]
           b == [t EXCEPT !.standby = Unlink(@, p), !.stat.nstandby = @ - 1,
                          !.stat.nactive = @ + 1]
<1>1. t \in VmStates
  <2>1. s.page[p].refcnt + 1 \in Nat
    BY PagePart
  <2>2. [s.page[p] EXCEPT !.refcnt = @ + 1] \in PageRec
    BY <2>1, PagePart, PageRecUpdate
  <2> QED
    BY <2>2, SetPageType
<1>2. s.stat.nactive + 1 \in Int /\ s.stat.nmodified - 1 \in Int /\ s.stat.nstandby - 1 \in Int
  BY StatsPart
<1>3. Contains(s.modified, p) => m \in VmStates
  <2> SUFFICES ASSUME Contains(s.modified, p) PROVE m \in VmStates
    OBVIOUS
  <2>1. Unlink(s.modified, p) \in Queue
    BY Parts, UnlinkType DEF Queue
  <2>2. [s.stat EXCEPT !.nmodified = @ - 1, !.nactive = @ + 1] \in Stats
    BY <1>2, Parts, StatsUpdate, Zenon
  <2> QED
    BY <1>1, <2>1, <2>2 DEF VmStates
<1>4. Contains(s.standby, p) => b \in VmStates
  <2> SUFFICES ASSUME Contains(s.standby, p) PROVE b \in VmStates
    OBVIOUS
  <2>1. Unlink(s.standby, p) \in Queue
    BY Parts, UnlinkType DEF Queue
  <2>2. [s.stat EXCEPT !.nstandby = @ - 1, !.nactive = @ + 1] \in Stats
    BY <1>2, Parts, StatsUpdate, Zenon
  <2> QED
    BY <1>1, <2>1, <2>2 DEF VmStates
<1> HIDE DEF t, m, b
<1> DEFINE km == Kassert(s, Contains(s.modified, p), "resident.c:147", m)
           kb == Kassert(s, Contains(s.standby, p), "resident.c:151", b)
<1>5. km \in VmStates /\ kb \in VmStates
  BY <1>3, <1>4, KassertType DEF PanicSite
<1> HIDE DEF km, kb
<1>6. /\ Then(s, t) \in VmStates
      /\ Kassert(s, s.page[p].use # "Deleted", "resident.c:145",
                 IF s.page[p].dirty THEN km ELSE kb) \in VmStates
  BY <1>1, <1>5, KassertType, PanicType DEF PanicSite
<1> QED
  BY <1>6 DEF PageRetain, km, kb, t, m, b

(* The page whose last reference is gone goes to a queue of pages.         *)
LEMMA RequeueType ==
  ASSUME NEW s \in VmStates, NEW p \in Pages
  PROVE  Requeue(s, p) \in VmStates
<1> DEFINE t == [s EXCEPT !.stat.nactive = @ - 1]
           f == [t EXCEPT !.free = << p >> \o @, !.stat.nfree = @ + 1,
                          !.page[p].use = "Free"]
           m == [t EXCEPT !.modified = Append(@, p), !.stat.nmodified = @ + 1]
           b == [t EXCEPT !.standby = Append(@, p), !.stat.nstandby = @ + 1]
<1>1. t \in VmStates
  <2>1. s.stat.nactive - 1 \in Int
    BY StatsPart
  <2>2. [s.stat EXCEPT !.nactive = @ - 1] \in Stats
    BY <2>1, Parts, StatsUpdate, ZenonT(60)
  <2> QED
    BY <2>2 DEF VmStates
<1> HIDE DEF t
<1>2. /\ [t.stat EXCEPT !.nfree = @ + 1] \in Stats
      /\ [t.stat EXCEPT !.nmodified = @ + 1] \in Stats
      /\ [t.stat EXCEPT !.nstandby = @ + 1] \in Stats
  <2>1. /\ t.stat.nfree + 1 \in Int /\ t.stat.nmodified + 1 \in Int
        /\ t.stat.nstandby + 1 \in Int
    BY <1>1, StatsPart
  <2> QED
    BY <1>1, <2>1, Parts, StatsUpdate, Zenon
<1>3. f \in VmStates
  <2>1. << p >> \o t.free \in Queue
    BY <1>1, Parts DEF Queue
  <2>2. [t.page EXCEPT ![p].use = "Free"] \in PageDb
    <3>1. t.page \in PageDb /\ t.page[p] \in PageRec
      BY <1>1, Parts, PagePart
    <3>2. [t.page[p] EXCEPT !.use = "Free"] \in PageRec
      BY <3>1, PageRecUpdate DEF PageUse
    <3> QED
      BY <3>1, <3>2 DEF PageDb
  <2> QED
    BY <1>1, <1>2, <2>1, <2>2 DEF VmStates
<1>4. m \in VmStates
  <2>1. Append(t.modified, p) \in Queue
    BY <1>1, Parts DEF Queue
  <2> QED
    BY <1>1, <1>2, <2>1 DEF VmStates
<1>5. b \in VmStates
  <2>1. Append(t.standby, p) \in Queue
    BY <1>1, Parts DEF Queue
  <2> QED
    BY <1>1, <1>2, <2>1 DEF VmStates
<1> HIDE DEF f, m, b
<1>6. AnnounceSufficience(CheckShortage(IF s.page[p].dirty THEN m ELSE b)) \in VmStates
  BY <1>4, <1>5, CheckShortageType, AnnounceSufficienceType
<1>7. Kfatal(s, "resident.c:183") \in VmStates
  BY KfatalType DEF PanicSite
<1> QED
  BY <1>3, <1>6, <1>7 DEF Requeue, t, f, m, b

(* vmp_page_release_locked() keeps the type: refcnt is positive before.    *)
LEMMA PageReleaseType ==
  ASSUME NEW s \in VmStates, NEW p \in Pages
  PROVE  PageRelease(s, p) \in VmStates
<1> DEFINE ok == s.page[p].refcnt > 0 /\ s.page[p].use # "Free"
           t == [s EXCEPT !.page[p].refcnt = @ - 1]
<1>1. ok => t \in VmStates
  <2>1. ok => s.page[p].refcnt - 1 \in Nat
    BY PagePart
  <2>2. ok => [s.page[p] EXCEPT !.refcnt = @ - 1] \in PageRec
    BY <2>1, PagePart, PageRecUpdate
  <2> QED
    BY <2>2, SetPageType
<1> HIDE DEF t
<1>2. ok => (IF t.page[p].refcnt = 0 THEN Requeue(t, p) ELSE t) \in VmStates
  BY <1>1, RequeueType
<1>3. Kassert(s, ok, "resident.c:164",
              IF t.page[p].refcnt = 0 THEN Requeue(t, p) ELSE t) \in VmStates
  BY <1>2, KassertType DEF PanicSite
<1> QED
  BY <1>3 DEF PageRelease, t
-----------------------------------------------------------------------------
(* The working set list.                                                   *)
LEMMA WslPart ==
  ASSUME NEW s \in VmStates
  PROVE  /\ s.wsl.queue \in Seq(WsKey) /\ s.wsl.tree \in SUBSET WsKey
         /\ s.wsl.nlocked \in Int /\ s.wsl.nentries \in Int /\ s.wsl.max \in Int
  BY Parts DEF WsList

(* The components of a working set list, replaced.                         *)
LEMMA WslUpdate ==
  ASSUME NEW w \in WsList, NEW q \in Seq(WsKey), NEW tr \in SUBSET WsKey,
         NEW l \in Int, NEW n \in Int
  PROVE  /\ [w EXCEPT !.queue = q, !.nlocked = l] \in WsList
         /\ [w EXCEPT !.tree = tr, !.queue = q] \in WsList
         /\ [w EXCEPT !.queue = q, !.tree = tr, !.nentries = n] \in WsList
         /\ [w EXCEPT !.nentries = n, !.nlocked = l, !.queue = q, !.tree = tr] \in WsList
  BY DEF WsList

(* vmp_wsl_lock_entry() keeps the type of the state.                       *)
LEMMA WslLockEntryType ==
  ASSUME NEW s \in VmStates, NEW k \in WsKey
  PROVE  WslLockEntry(s, k) \in VmStates
<1> DEFINE w == [s.wsl EXCEPT !.queue = Unlink(@, k), !.nlocked = @ + 1]
           t == [s EXCEPT !.wsl.queue = Unlink(@, k), !.wsl.nlocked = @ + 1]
<1>1. Contains(s.wsl.queue, k) => t \in VmStates
  <2> SUFFICES ASSUME Contains(s.wsl.queue, k) PROVE t \in VmStates
    OBVIOUS
  <2>1. Unlink(s.wsl.queue, k) \in Seq(WsKey)
    BY WslPart, UnlinkType
  <2>2. s.wsl.nlocked + 1 \in Int
    BY WslPart
  <2>3. w \in WsList
    BY <2>1, <2>2, Parts, WslPart, WslUpdate, Zenon
  <2> QED
    BY <2>3, Zenon DEF VmStates
<1> HIDE DEF t
<1> DEFINE u == Kassert(s, Contains(s.wsl.queue, k), "ws.c:146", t)
<1>2. u \in VmStates
  BY <1>1, KassertType DEF PanicSite
<1> HIDE DEF u
<1>3. Kassert(s, k \in s.wsl.tree, "ws.c:145", u) \in VmStates
  BY <1>2, KassertType DEF PanicSite
<1> QED
  BY <1>3 DEF WslLockEntry, t, u

(* vmp_wsl_unlock_entry() keeps the type of the state.                     *)
LEMMA WslUnlockEntryType ==
  ASSUME NEW s \in VmStates, NEW k \in WsKey
  PROVE  WslUnlockEntry(s, k) \in VmStates
<1> DEFINE w == [s.wsl EXCEPT !.queue = Append(@, k), !.nlocked = @ - 1]
           t == [s EXCEPT !.wsl.queue = Append(@, k), !.wsl.nlocked = @ - 1]
<1>1. t \in VmStates
  <2>1. Append(s.wsl.queue, k) \in Seq(WsKey)
    BY WslPart
  <2>2. s.wsl.nlocked - 1 \in Int
    BY WslPart
  <2>3. w \in WsList
    BY <2>1, <2>2, Parts, WslPart, WslUpdate, Zenon
  <2> QED
    BY <2>3, Zenon DEF VmStates
<1> HIDE DEF t
<1> DEFINE u == Kassert(s, ~Contains(s.wsl.queue, k), "ws.c:155", t)
<1>2. u \in VmStates
  BY <1>1, KassertType DEF PanicSite
<1> HIDE DEF u
<1>3. Kassert(s, k \in s.wsl.tree, "ws.c:154", u) \in VmStates
  BY <1>2, KassertType DEF PanicSite
<1> QED
  BY <1>3 DEF WslUnlockEntry, t, u

(* vmp_wsl_remove() keeps the type of the state.                           *)
LEMMA WslRemoveType ==
  ASSUME NEW s \in VmStates, NEW k \in WsKey
  PROVE  WslRemove(s, k) \in VmStates
<1> DEFINE w == [s.wsl EXCEPT !.tree = @ \ {k}, !.queue = Unlink(@, k)]
           t == [s EXCEPT !.wsl.tree = @ \ {k}, !.wsl.queue = Unlink(@, k)]
<1>1. Contains(s.wsl.queue, k) => t \in VmStates
  <2> SUFFICES ASSUME Contains(s.wsl.queue, k) PROVE t \in VmStates
    OBVIOUS
  <2>1. Unlink(s.wsl.queue, k) \in Seq(WsKey)
    BY WslPart, UnlinkType
  <2>2. s.wsl.tree \ {k} \in SUBSET WsKey
    BY WslPart
  <2>3. w \in WsList
    BY <2>1, <2>2, Parts, WslPart, WslUpdate, Zenon
  <2> QED
    BY <2>3, Zenon DEF VmStates
<1> HIDE DEF t
<1> DEFINE u == Kassert(s, Contains(s.wsl.queue, k), "ws.c:137", t)
<1>2. u \in VmStates
  BY <1>1, KassertType DEF PanicSite
<1> HIDE DEF u
<1>3. Kassert(s, k \in s.wsl.tree, "ws.c:135", u) \in VmStates
  BY <1>2, KassertType, Zenon DEF PanicSite
<1> QED
  BY <1>3 DEF WslRemove, t, u

(* wsl_evict() of the page under a PTE keeps the type of the state.        *)
LEMMA WslEvictType ==
  ASSUME NEW s \in VmStates, NEW t \in Pages, NEW i \in Idx
  PROVE  WslEvict(s, t, i) \in VmStates
<1> DEFINE pte == s.table[t][i]
           p   == pte.page
           u   == [s EXCEPT !.page[p].dirty = @ \/ pte.writeable,
                            !.table[t][i] = TransPte(p)]
<1>1. pte \in Pte /\ p \in Pages /\ pte.writeable \in BOOLEAN
  BY TablePart
<1> HIDE DEF pte, p
<1>2. u \in VmStates
  <2>1. (s.page[p].dirty \/ pte.writeable) \in BOOLEAN
    OBVIOUS
  <2>2. [s.page[p] EXCEPT !.dirty = @ \/ pte.writeable] \in PageRec
    BY <1>1, <2>1, PagePart, PageRecUpdate
  <2>3. [s.page EXCEPT ![p].dirty = @ \/ pte.writeable] \in PageDb
    BY <1>1, <2>2, Parts DEF PageDb
  <2>4. TransPte(p) \in Pte
    BY <1>1, PteTypes
  <2>5. [s.table EXCEPT ![t][i] = TransPte(p)] \in TableMem
    BY <2>4, Parts DEF TableMem
  <2> QED
    BY <2>3, <2>5 DEF VmStates
<1> HIDE DEF u
<1> DEFINE v == Kassert(s, s.page[p].use = "AnonPrivate", "ws.c:52", PageRelease(u, p))
<1>3. v \in VmStates
  BY <1>1, <1>2, PageReleaseType, KassertType, ZenonT(60) DEF PanicSite
<1> HIDE DEF v
<1>4. Kassert(s, pte.kind = "Valid", "ws.c:78", v) \in VmStates
  BY <1>3, KassertType, ZenonT(60) DEF PanicSite
<1> QED
  BY <1>4 DEF WslEvict, pte, p, u, v

(* wsl_trim_1() of a queue with an entry keeps the type of the state.      *)
LEMMA WslTrim1Type ==
  ASSUME NEW s \in VmStates, s.wsl.queue # << >>
  PROVE  WslTrim1(s) \in VmStates
<1> DEFINE k == Head(s.wsl.queue)
           w == [s.wsl EXCEPT !.queue = Tail(@), !.tree = @ \ {k}, !.nentries = @ - 1]
           t == [s EXCEPT !.wsl.queue = Tail(@), !.wsl.tree = @ \ {k},
                          !.wsl.nentries = @ - 1]
           pt == FetchPte(s, k[2])
<1>1. k \in WsKey
  BY WslPart
<1> HIDE DEF k
<1>2. t \in VmStates
  <2>1. Tail(s.wsl.queue) \in Seq(WsKey)
    BY WslPart
  <2>2. s.wsl.tree \ {k} \in SUBSET WsKey /\ s.wsl.nentries - 1 \in Int
    BY WslPart
  <2>3. w \in WsList
    BY <2>1, <2>2, Parts, WslPart, WslUpdate, ZenonT(60)
  <2> QED
    BY <2>3, Zenon DEF VmStates
<1> HIDE DEF t, pt
<1>3. k[1] # "table" => k[2][1] \in Idx
  BY <1>1, VmAssumption DEF WsKey, VAddr
<1>4. k[1] # "table" /\ pt \in Pages => WslEvict(t, pt, k[2][1]) \in VmStates
  BY <1>2, <1>3, WslEvictType
<1>5. k[1] # "table" =>
        Kassert(s, pt \in Pages, "ws.c:77", WslEvict(t, pt, k[2][1])) \in VmStates
  BY <1>4, KassertType DEF PanicSite
<1>6. Kassert(s, s.page[k[2]].referent[2] = 0, "resident.c:207",
              Kfatal(s, "tables.c:87")) \in VmStates
  BY KassertType, KfatalType, Zenon DEF PanicSite
<1> QED
  BY <1>5, <1>6 DEF WslTrim1, k, t, pt

(* wsl_try_expand(), or the eviction in its place, keeps the type.         *)
LEMMA WslMakeRoomType ==
  ASSUME NEW s \in VmStates
  PROVE  WslMakeRoom(s) \in VmStates
<1> DEFINE t == [s EXCEPT !.wsl.max = @ + WsPageExpansionCount]
<1>1. t \in VmStates
  <2>1. s.wsl.max + WsPageExpansionCount \in Int
    BY WslPart, VmAssumption
  <2>2. [s.wsl EXCEPT !.max = @ + WsPageExpansionCount] \in WsList
    BY <2>1, Parts DEF WsList
  <2> QED
    BY <2>2 DEF VmStates
<1>2. Kassert(s, s.wsl.queue # << >>, "ws.c:112", WslTrim1(s)) \in VmStates
  BY WslTrim1Type, KassertType DEF PanicSite
<1> HIDE DEF t
<1> QED
  BY <1>1, <1>2 DEF WslMakeRoom, t

(* vmp_wsl_insert() keeps the type of the state.                           *)
LEMMA WslInsertType ==
  ASSUME NEW s \in VmStates, NEW k \in WsKey, NEW locked \in BOOLEAN
  PROVE  WslInsert(s, k, locked) \in VmStates
<1>1. ASSUME NEW r \in VmStates
      PROVE  WslAdd(r, k, locked) \in VmStates
  <2> DEFINE w == [r.wsl EXCEPT !.nentries = @ + 1,
                                !.nlocked = IF locked THEN @ + 1 ELSE @,
                                !.queue = IF locked THEN @ ELSE Append(@, k),
                                !.tree = @ \cup {k}]
             t == [r EXCEPT !.wsl.nentries = @ + 1,
                            !.wsl.nlocked = IF locked THEN @ + 1 ELSE @,
                            !.wsl.queue = IF locked THEN @ ELSE Append(@, k),
                            !.wsl.tree = @ \cup {k}]
  <2>1. /\ r.wsl.nentries + 1 \in Int
        /\ (IF locked THEN r.wsl.nlocked + 1 ELSE r.wsl.nlocked) \in Int
    BY WslPart
  <2>2. (IF locked THEN r.wsl.queue ELSE Append(r.wsl.queue, k)) \in Seq(WsKey)
    BY WslPart
  <2>3. r.wsl.tree \cup {k} \in SUBSET WsKey
    BY WslPart, Zenon
  <2>4. w \in WsList
    BY <2>1, <2>2, <2>3, Parts, WslUpdate, ZenonT(60)
  <2>5. t \in VmStates
    BY <2>4, Zenon DEF VmStates
  <2> HIDE DEF t
  <2> QED
    BY <2>5, PanicType DEF WslAdd, t
<1> DEFINE u == WslAdd(WslMakeRoom(s), k, locked)
           v == Kassert(s, s.wsl.nentries <= s.wsl.max, "ws.c:108", u)
<1>2. u \in VmStates
  BY <1>1, WslMakeRoomType
<1> HIDE DEF u
<1>3. v \in VmStates
  BY <1>2, KassertType DEF PanicSite
<1> HIDE DEF v
<1>4. Kassert(s, k \notin s.wsl.tree, "ws.c:107", v) \in VmStates
  BY <1>3, KassertType DEF PanicSite
<1> QED
  BY <1>4 DEF WslInsert, u, v
-----------------------------------------------------------------------------
(* Page table pages.                                                       *)
LEMMA TableKeyType ==
  ASSUME NEW p \in Pages
  PROVE  TableKey(p) \in WsKey
  BY DEF TableKey, WsKey

(* vmp_pagetable_page_nonswap_pte_created() keeps the type of the state.   *)
LEMMA NonswapPteCreatedType ==
  ASSUME NEW s \in VmStates, NEW p \in Pages, NEW isNew \in BOOLEAN
  PROVE  NonswapPteCreated(s, p, isNew) \in VmStates
<1> DEFINE r == PageRetain(s, p)
<1>1. r \in VmStates
  BY PageRetainType
<1> HIDE DEF r
<1> DEFINE t == [r EXCEPT !.page[p].nonzero = IF isNew THEN @ + 1 ELSE @,
                          !.page[p].nonswap = @ + 1]
<1>2. t \in VmStates
  <2>1. /\ (IF isNew THEN r.page[p].nonzero + 1 ELSE r.page[p].nonzero) \in Int
        /\ r.page[p].nonswap + 1 \in Int
    BY <1>1, PagePart
  <2>2. [r.page[p] EXCEPT !.nonzero = IF isNew THEN @ + 1 ELSE @, !.nonswap = @ + 1]
          \in PageRec
    BY <1>1, <2>1, PagePart, PageRecUpdate2, Zenon
  <2>3. [r.page EXCEPT ![p].nonzero = IF isNew THEN @ + 1 ELSE @, ![p].nonswap = @ + 1]
          \in PageDb
    BY <1>1, <2>2, Parts DEF PageDb
  <2> QED
    BY <1>1, <2>3 DEF VmStates
<1> HIDE DEF t
<1>3. WslLockEntry(t, TableKey(p)) \in VmStates
  BY <1>2, TableKeyType, WslLockEntryType
<1> DEFINE u == IF r.page[p].nonswap = 0 /\ ~IsRootTable(r, p)
                THEN WslLockEntry(t, TableKey(p)) ELSE t
<1>4. u \in VmStates
  BY <1>2, <1>3
<1> HIDE DEF u
<1>5. Then(r, u) \in VmStates
  BY <1>1, <1>4, PanicType
<1> QED
  BY <1>5 DEF NonswapPteCreated, r, t, u

(* A table that loses a nonswap PTE stays well-typed.                      *)
LEMMA NonswapPteGoneType ==
  ASSUME NEW s \in VmStates, NEW p \in Pages
  PROVE  NonswapPteGone(s, p) \in VmStates
<1> DEFINE t == [s EXCEPT !.page[p].nonswap = @ - 1]
<1>1. t \in VmStates
  <2>1. s.page[p].nonswap - 1 \in Int
    BY PagePart
  <2>2. [s.page[p] EXCEPT !.nonswap = @ - 1] \in PageRec
    BY <2>1, PagePart, PageRecUpdate
  <2> QED
    BY <2>2, SetPageType
<1> HIDE DEF t
<1>2. WslUnlockEntry(t, TableKey(p)) \in VmStates
  BY <1>1, TableKeyType, WslUnlockEntryType
<1> DEFINE u == IF s.page[p].nonswap = 1 /\ ~IsRootTable(s, p)
                THEN WslUnlockEntry(t, TableKey(p)) ELSE t
<1>3. u \in VmStates
  BY <1>1, <1>2
<1> HIDE DEF u
<1>4. Then(s, u) \in VmStates
  BY <1>3, PanicType
<1> QED
  BY <1>4 DEF NonswapPteGone, t, u

(* vmp_pagetable_page_pte_became_swap() keeps the type of the state.       *)
LEMMA PteBecameSwapType ==
  ASSUME NEW s \in VmStates, NEW p \in Pages
  PROVE  PteBecameSwap(s, p) \in VmStates
  BY NonswapPteGoneType, PageReleaseType DEF PteBecameSwap

(* nonzero_ptes-- of vmp_pagetable_page_pte_deleted() keeps the type.      *)
LEMMA NonzeroLowered ==
  ASSUME NEW s \in VmStates, NEW p \in Pages
  PROVE  [s EXCEPT !.page[p].nonzero = @ - 1] \in VmStates
<1>1. s.page[p].nonzero - 1 \in Int
  BY PagePart
<1>2. [s.page[p] EXCEPT !.nonzero = @ - 1] \in PageRec
  BY <1>1, PagePart, PageRecUpdate
<1> QED
  BY <1>2, SetPageType

(* vmp_pagetable_page_pte_deleted() of a PTE that is not the last one      *)
(* keeps the type.                                                         *)
LEMMA PteUncountedType ==
  ASSUME NEW s \in VmStates, NEW p \in Pages
  PROVE  PteUncounted(s, p) \in VmStates
<1> DEFINE t == [s EXCEPT !.page[p].nonzero = @ - 1]
<1>1. t \in VmStates
  BY NonzeroLowered
<1> HIDE DEF t
<1>2. PageRelease(NonswapPteGone(t, p), p) \in VmStates
  BY <1>1, NonswapPteGoneType, PageReleaseType, Zenon
<1> QED
  BY <1>2 DEF PteUncounted, t

(* vmp_md_delete_table_pointers() keeps the type of the state.             *)
LEMMA DeleteTablePointersType ==
  ASSUME NEW s \in VmStates, NEW p \in Pages
  PROVE  DeleteTablePointers(s, p) \in VmStates
<1> DEFINE dir == s.page[p].referent[1]
           i   == s.page[p].referent[2]
           t   == [s EXCEPT !.table[dir][i] = ZeroPte]
           a   == Kassert(s, ~LastPte(s, dir), "tables.c:97", PteUncounted(t, dir))
           b   == Kassert(s, s.table[dir][i].kind \in {"Valid", "Trans"}, "tables.c:94", a)
<1>1. dir \in Pages /\ i \in Idx
  BY PagePart
<1> HIDE DEF dir, i
<1>2. t \in VmStates
  <2>1. ZeroPte \in Pte
    BY ConstantTypes DEF Pte, PteKind, ZeroPte
  <2> QED
    BY <1>1, <2>1, SetTableType
<1> HIDE DEF t
<1>3. PteUncounted(t, dir) \in VmStates
  BY <1>1, <1>2, PteUncountedType
<1>4. a \in VmStates
  BY <1>3, KassertType DEF PanicSite
<1> HIDE DEF a
<1>5. b \in VmStates
  BY <1>4, KassertType DEF PanicSite
<1> HIDE DEF b
<1>6. Kassert(s, i = 0, "resident.c:207", b) \in VmStates
  BY <1>5, KassertType, Zenon DEF PanicSite
<1> QED
  BY <1>6, Zenon DEF DeleteTablePointers, dir, i, t, a, b

(* Taking a dying table out of the working set keeps the type.             *)
LEMMA ForgetTableType ==
  ASSUME NEW s \in VmStates, NEW p \in Pages
  PROVE  ForgetTable(s, p) \in VmStates
<1>1. /\ WslRemove(WslUnlockEntry(s, TableKey(p)), TableKey(p)) \in VmStates
      /\ WslRemove(s, TableKey(p)) \in VmStates
  BY TableKeyType, WslUnlockEntryType, WslRemoveType
<1>2. Kfatal(s, "tables.c:59") \in VmStates
  BY KfatalType DEF PanicSite
<1> QED
  BY <1>1, <1>2 DEF ForgetTable

(* Freeing a table with its last PTE keeps the type of the state.          *)
LEMMA FreeTableType ==
  ASSUME NEW s \in VmStates, NEW p \in Pages
  PROVE  FreeTable(s, p) \in VmStates
<1> DEFINE d == [s EXCEPT !.page[p].nonzero = @ - 1, !.page[p].use = "Deleted"]
<1>1. d \in VmStates
  <2>1. s.page[p].nonzero - 1 \in Int
    BY PagePart
  <2>2. [s.page[p] EXCEPT !.nonzero = @ - 1, !.use = "Deleted"] \in PageRec
    BY <2>1, PagePart, PageRecUpdate2, Zenon DEF PageUse
  <2>3. [s.page EXCEPT ![p].nonzero = @ - 1, ![p].use = "Deleted"] \in PageDb
    BY <2>2, Parts DEF PageDb
  <2> QED
    BY <2>3, Zenon DEF VmStates
<1> HIDE DEF d
<1> DEFINE t == DeleteTablePointers(ForgetTable(d, p), p)
<1>2. t \in VmStates
  BY <1>1, ForgetTableType, DeleteTablePointersType
<1> HIDE DEF t
<1> DEFINE n == [t EXCEPT !.page[p].nonswap = 0, !.page[p].referent = NullRef]
<1>3. n \in VmStates
  <2>1. NullRef \in PteAddr
    BY ConstantTypes
  <2>2. [t.page[p] EXCEPT !.nonswap = 0, !.referent = NullRef] \in PageRec
    <3>1. t.page[p] \in PageRec /\ 0 \in Int
      BY <1>2, PagePart
    <3> HIDE DEF NullRef
    <3> QED
      BY <2>1, <3>1, PageRecUpdate2, Zenon
  <2>3. [t.page EXCEPT ![p].nonswap = 0, ![p].referent = NullRef] \in PageDb
    BY <1>2, <2>2, Parts DEF PageDb
  <2> QED
    BY <1>2, <2>3 DEF VmStates
<1> HIDE DEF n
<1> DEFINE u == Then(t, n)
<1>4. u \in VmStates
  BY <1>2, <1>3, PanicType
<1> HIDE DEF u
<1>5. PageRelease(PageRelease(u, p), p) \in VmStates
  BY <1>4, PageReleaseType
<1> QED
  BY <1>5 DEF FreeTable, d, t, n, u

(* vmp_pagetable_page_pte_deleted() keeps the type of the state.           *)
LEMMA PteDeletedType ==
  ASSUME NEW s \in VmStates, NEW p \in Pages
  PROVE  PteDeleted(s, p) \in VmStates
  BY FreeTableType, PteUncountedType, PanicType DEF PteDeleted
-----------------------------------------------------------------------------
(* The allocator.                                                          *)
LEMMA TakePageType ==
  ASSUME NEW s \in VmStates, NEW p \in Pages, NEW use \in PageUse
  PROVE  TakePage(s, p, use) \in VmStates
<1> DEFINE r == [s.page[p] EXCEPT !.refcnt = 1, !.use = use, !.dirty = FALSE,
                                  !.drumslot = NoSlot, !.referent = NullRef]
<1>1. [s.page EXCEPT ![p] = r] \in PageDb
  <2>1. s.page[p] \in PageRec /\ NullRef \in PteAddr /\ NoSlot \in Nat \cup {NoSlot}
    BY PagePart, ConstantTypes
  <2>2. ASSUME NEW q \in PageRec, NEW n \in Nat, NEW d \in BOOLEAN,
               NEW sl \in Nat \cup {NoSlot}, NEW ref \in PteAddr
        PROVE  [q EXCEPT !.refcnt = n, !.use = use, !.dirty = d,
                         !.drumslot = sl, !.referent = ref] \in PageRec
    BY <2>2 DEF PageRec
  <2>3. r \in PageRec
    BY <2>1, <2>2, Zenon
  <2> QED
    BY <2>3, Parts DEF PageDb
<1>2. [s.stat EXCEPT !.nactive = @ + 1] \in Stats
  <2>1. s.stat.nactive + 1 \in Int
    BY StatsPart
  <2> QED
    BY <2>1, Parts, StatsUpdate, Zenon
<1>3. [s.table EXCEPT ![p] = [i \in Idx |-> ZeroPte]] \in TableMem
  <2>1. ZeroPte \in Pte
    BY ConstantTypes DEF Pte, PteKind, ZeroPte
  <2> QED
    BY <2>1, Parts DEF TableMem
<1>4. [s.data EXCEPT ![p] = 0] \in Contents
  BY Parts DEF Contents, Content
<1> HIDE DEF r
<1>5. [s EXCEPT !.page[p] = r, !.stat.nactive = @ + 1,
                !.table[p] = [i \in Idx |-> ZeroPte], !.data[p] = 0] \in VmStates
  BY <1>1, <1>2, <1>3, <1>4 DEF VmStates
<1> QED
  BY <1>5 DEF TakePage, r

(* Taking the first page of the free queue keeps the type of the state.    *)
LEMMA TakeFreeType ==
  ASSUME NEW s \in VmStates, NEW use \in PageUse, s.free # << >>
  PROVE  TakeFree(s, use) \in VmStates
<1> DEFINE p == Head(s.free)
           t == TakePage(s, p, use)
           u == [t EXCEPT !.free = Tail(@), !.stat.nfree = @ - 1]
           a == Kassert(s, s.page[p].referent = NullRef, "resident.c:124", u)
<1>1. p \in Pages
  BY Parts DEF Queue
<1> HIDE DEF p
<1>2. t \in VmStates /\ t.free = s.free
  <2>1. t \in VmStates
    BY <1>1, TakePageType
  <2>2. t.free = s.free
    BY DEF TakePage, VmStates
  <2> QED
    BY <2>1, <2>2
<1> HIDE DEF t
<1>3. u \in VmStates
  <2>1. Tail(t.free) \in Queue
    BY <1>2, Parts DEF Queue
  <2>2. t.stat.nfree - 1 \in Int
    BY <1>2, StatsPart
  <2>3. [t.stat EXCEPT !.nfree = @ - 1] \in Stats
    BY <1>2, <2>2, Parts, StatsUpdate, Zenon
  <2> QED
    BY <1>2, <2>1, <2>3 DEF VmStates
<1> HIDE DEF u
<1>4. a \in VmStates
  BY <1>3, KassertType, SMTT(60) DEF PanicSite
<1> HIDE DEF a
<1>5. Kassert(s, s.page[p].refcnt = 0 /\ s.page[p].nonzero = 0, "resident.c:122", a) \in VmStates
  BY <1>4, KassertType DEF PanicSite
<1> QED
  BY <1>5 DEF TakeFree, p, t, u, a

(* steal_page() keeps the type of the state.                               *)
LEMMA StealPageType ==
  ASSUME NEW s \in VmStates, NEW use \in PageUse, s.standby # << >>
  PROVE  StealPage(s, use) \in VmStates
<1> DEFINE p   == Head(s.standby)
           ref == s.page[p].referent
           b   == [s EXCEPT !.standby = Tail(@),
                            !.table[ref[1]][ref[2]] = SwapPte(s.page[p].drumslot)]
           t   == PteBecameSwap(b, ref[1])
           u   == [TakePage(t, p, use) EXCEPT !.stat.nstandby = @ - 1]
           a   == Kassert(t, t.page[p].refcnt = 0 /\ t.page[p].nonzero = 0,
                          "resident.c:81", u)
<1>1. p \in Pages
  BY Parts DEF Queue
<1> HIDE DEF p
<1>2. ref[1] \in Pages /\ ref[2] \in Idx
  BY <1>1, PagePart
<1> HIDE DEF ref
<1>3. b \in VmStates
  <2>1. Tail(s.standby) \in Queue
    BY Parts DEF Queue
  <2>2. SwapPte(s.page[p].drumslot) \in Pte
    <3>1. s.page[p].drumslot \in Nat \cup {NoSlot}
      BY <1>1, PagePart
    <3> QED
      BY <1>1, <3>1, PteTypes
  <2>3. [s.table EXCEPT ![ref[1]][ref[2]] = SwapPte(s.page[p].drumslot)] \in TableMem
    BY <1>2, <2>2, Parts DEF TableMem
  <2> QED
    BY <2>1, <2>3 DEF VmStates
<1> HIDE DEF b
<1>4. t \in VmStates
  BY <1>2, <1>3, PteBecameSwapType
<1> HIDE DEF t
<1>5. u \in VmStates
  <2> DEFINE v == TakePage(t, p, use)
  <2>1. v \in VmStates
    BY <1>1, <1>4, TakePageType
  <2> HIDE DEF v
  <2>2. v.stat.nstandby - 1 \in Int
    BY <2>1, StatsPart, SMTT(60)
  <2>3. [v.stat EXCEPT !.nstandby = @ - 1] \in Stats
    BY <2>1, <2>2, Parts, StatsUpdate, Zenon
  <2>4. [v EXCEPT !.stat.nstandby = @ - 1] \in VmStates
    BY <2>1, <2>3 DEF VmStates
  <2> QED
    BY <2>4 DEF v
<1> HIDE DEF u
<1>6. a \in VmStates
  BY <1>4, <1>5, KassertType DEF PanicSite
<1> HIDE DEF a
<1>7. Kassert(s, s.page[p].use = "AnonPrivate", "resident.c:78", a) \in VmStates
  BY <1>6, KassertType, Zenon DEF PanicSite
<1> QED
  BY <1>7, Zenon DEF StealPage, p, ref, b, t, u, a

(* vmp_page_alloc_locked() keeps the type of the state and returns a page. *)
LEMMA PageAllocType ==
  ASSUME NEW s \in VmStates, NEW use \in PageUse
  PROVE  /\ PageAlloc(s, use) \in VmStates
         /\ CanAlloc(s) => AllocatedPage(s) \in Pages
<1>1. CheckShortage(s) \in VmStates
  BY CheckShortageType
<1>2. CanAlloc(s) => (IF s.free # << >> THEN TakeFree(s, use) ELSE StealPage(s, use)) \in VmStates
  BY TakeFreeType, StealPageType DEF CanAlloc
<1>3. CanAlloc(s) => AllocatedPage(s) \in Pages
  BY Parts DEF CanAlloc, AllocatedPage, Queue
<1> QED
  BY <1>1, <1>2, <1>3, PanicType DEF PageAlloc

-----------------------------------------------------------------------------
(* Two fields of a struct vm_page at a time.                               *)
LEMMA TwoFieldsType ==
  ASSUME NEW s \in VmStates, NEW p \in Pages, NEW a \in Int, NEW b \in Int,
         NEW use \in PageUse, NEW ref \in PteAddr
  PROVE  /\ [s EXCEPT !.page[p].nonzero = a, !.page[p].nonswap = b] \in VmStates
         /\ [s EXCEPT !.page[p].nonzero = a, !.page[p].use = use] \in VmStates
         /\ [s EXCEPT !.page[p].nonswap = a, !.page[p].referent = ref] \in VmStates
<1>1. /\ [s.page[p] EXCEPT !.nonzero = a, !.nonswap = b] \in PageRec
      /\ [s.page[p] EXCEPT !.nonzero = a, !.use = use] \in PageRec
      /\ [s.page[p] EXCEPT !.nonswap = a, !.referent = ref] \in PageRec
  BY PagePart, PageRecUpdate2, Zenon
<1>2. /\ [s.page EXCEPT ![p].nonzero = a, ![p].nonswap = b] \in PageDb
      /\ [s.page EXCEPT ![p].nonzero = a, ![p].use = use] \in PageDb
      /\ [s.page EXCEPT ![p].nonswap = a, ![p].referent = ref] \in PageDb
  BY <1>1, Parts DEF PageDb
<1> QED
  BY <1>2 DEF VmStates

-----------------------------------------------------------------------------
(* The paging file.                                                        *)

(* free_slots counts the clear bits of the bitmap, as                      *)
(* init_vmp_pagefile() and vmp_pagefile_alloc() mean it to.                *)
FreeSlotsExact(f) == f.free_slots = NSlots - Cardinality(f.bitmap)

(* A set of naturals that is not empty has a least element, and Min is it: *)
(* the first iteration at which the loop of vmp_pagefile_alloc() finds a   *)
(* clear bit.                                                              *)
LEMMA MinOfNaturals ==
  ASSUME NEW S, S \subseteq Nat, S # {}
  PROVE  Min(S) \in S /\ \A y \in S : Min(S) <= y
<1>1. PICK x \in S : \A y \in S : ~(<< y, x >> \in OpToRel(<, Nat))
  BY NatLessThanWellFounded, WFMin, Zenon
<1>2. ASSUME NEW y \in S, ~(x <= y)
      PROVE  FALSE
  <2>1. y \in Nat /\ x \in Nat /\ y < x
    BY <1>2
  <2>2. << y, x >> \in {ss \in Nat \X Nat : ss[1] < ss[2]}
    BY <2>1
  <2>3. OpToRel(<, Nat) = {ss \in Nat \X Nat : ss[1] < ss[2]}
    BY Zenon DEF OpToRel
  <2> QED
    BY <1>1, <2>2, <2>3, Zenon
<1> QED
  BY <1>2 DEF Min

(* The probe index wraps around inside the bitmap, (next_free + i) %       *)
(* total_slots.                                                            *)
LEMMA ProbeType ==
  ASSUME NEW f \in PagefileStates, NEW i \in Slots
  PROVE  Probe(f, i) \in Slots
  BY PagefileAssumption DEF Probe, Slots, PagefileStates

(* The slot vmp_pagefile_alloc() returns is one whose bit is clear.        *)
LEMMA PagefileSlotFree ==
  ASSUME NEW f \in PagefileStates, HasSlot(f)
  PROVE  PagefileSlot(f) \in Slots \ f.bitmap
<1>1. FreeProbes(f) \subseteq Nat /\ FreeProbes(f) # {}
  BY DEF HasSlot, FreeProbes, Slots
<1>2. Min(FreeProbes(f)) \in FreeProbes(f)
  BY <1>1, MinOfNaturals
<1>3. Min(FreeProbes(f)) \in Slots /\ Probe(f, Min(FreeProbes(f))) \notin f.bitmap
  BY <1>2 DEF FreeProbes
<1> QED
  BY <1>3, ProbeType DEF PagefileSlot

(* The search goes around the whole bitmap: it misses no clear bit.        *)
LEMMA SearchComplete ==
  ASSUME NEW f \in PagefileStates, NEW x \in Slots \ f.bitmap
  PROVE  FreeProbes(f) # {}
<1> DEFINE n == f.next_free
           i == IF n <= x THEN x - n ELSE x - n + NSlots
<1>1. n \in Slots /\ NSlots \in Nat \ {0} /\ x \in Slots
  BY PagefileAssumption DEF PagefileStates
<1>2. i \in Slots
  BY <1>1 DEF Slots
<1>3. (n + i) % NSlots = x
  <2>1. CASE n <= x
    <3>1. n + i = x
      BY <2>1, <1>1 DEF Slots
    <3>2. x % NSlots = x
      BY <1>1 DEF Slots
    <3> QED
      BY <3>1, <3>2
  <2>2. CASE ~(n <= x)
    <3>1. n + i = x + NSlots
      BY <2>2, <1>1 DEF Slots
    <3>2. (x + NSlots) % NSlots = x
      BY <1>1 DEF Slots
    <3> QED
      BY <3>1, <3>2
  <2> QED
    BY <2>1, <2>2
<1>4. i \in FreeProbes(f)
  BY <1>2, <1>3 DEF FreeProbes, Probe
<1> QED
  BY <1>4

(* The paging file that init_vmp_pagefile() leaves counts its free slots   *)
(* exactly.                                                                *)
LEMMA PagefileInitSound == PagefileInit \in PagefileStates /\ FreeSlotsExact(PagefileInit)
<1>1. Cardinality({}) = 0
  BY FS_EmptySet
<1> QED
  BY <1>1, PagefileAssumption DEF PagefileInit, PagefileStates, FreeSlotsExact, Slots

(* vmp_pagefile_alloc() keeps the type of the paging file, and its result  *)
(* is a slot or -1.                                                        *)
LEMMA PagefileAllocType ==
  ASSUME NEW f \in PagefileStates
  PROVE  /\ PagefileAlloc(f) \in PagefileStates
         /\ PagefileSlot(f) \in Nat \cup {-1}
<1>1. CASE ~HasSlot(f)
  BY <1>1 DEF PagefileAlloc, PagefileSlot
<1>2. CASE HasSlot(f)
  <2>1. PagefileSlot(f) \in Slots
    BY <1>2, PagefileSlotFree
  <2>2. (PagefileSlot(f) + 1) % NSlots \in Slots
    BY <2>1, PagefileAssumption DEF Slots
  <2> QED
    BY <1>2, <2>1, <2>2 DEF PagefileAlloc, PagefileStates, Slots
<1> QED
  BY <1>1, <1>2

(* vmp_pagefile_alloc() takes one clear bit and one from free_slots.       *)
LEMMA PagefileAllocExact ==
  ASSUME NEW f \in PagefileStates, FreeSlotsExact(f)
  PROVE  FreeSlotsExact(PagefileAlloc(f))
<1>1. CASE ~HasSlot(f)
  BY <1>1 DEF PagefileAlloc
<1>2. CASE HasSlot(f)
  <2>1. PagefileSlot(f) \in Slots \ f.bitmap
    BY <1>2, PagefileSlotFree
  <2>2. IsFiniteSet(f.bitmap)
    <3>1. IsFiniteSet(Slots)
      BY FS_Interval, PagefileAssumption DEF Slots
    <3>2. f.bitmap \subseteq Slots
      BY DEF PagefileStates
    <3> QED
      BY <3>1, <3>2, FS_Subset
  <2>3. /\ Cardinality(f.bitmap \cup {PagefileSlot(f)}) = Cardinality(f.bitmap) + 1
        /\ Cardinality(f.bitmap) \in Nat
    BY <2>1, <2>2, FS_AddElement, FS_CardinalityType
  <2> QED
    BY <1>2, <2>3, PagefileAssumption DEF PagefileAlloc, FreeSlotsExact, PagefileStates
<1> QED
  BY <1>1, <1>2

(* vmp_pagefile_alloc() fails only when every slot is in use.              *)
THEOREM AllocFailsOnlyWhenFull ==
  ASSUME NEW f \in PagefileStates, FreeSlotsExact(f)
  PROVE  (PagefileSlot(f) = -1) <=> (f.bitmap = Slots)
<1>1. f.bitmap \subseteq Slots /\ IsFiniteSet(Slots) /\ Cardinality(Slots) = NSlots
  BY FS_Interval, PagefileAssumption DEF Slots, PagefileStates
<1>2. HasSlot(f) => PagefileSlot(f) # -1 /\ f.bitmap # Slots
  <2>1. HasSlot(f) => PagefileSlot(f) \in Slots \ f.bitmap
    BY PagefileSlotFree
  <2>2. \A x \in Slots : x # -1
    BY PagefileAssumption DEF Slots
  <2> QED
    BY <2>1, <2>2
<1>3. ASSUME f.bitmap # Slots
      PROVE  HasSlot(f)
  <2>1. PICK x : x \in Slots \ f.bitmap
    BY <1>1, <1>3
  <2>2. FreeProbes(f) # {}
    BY <2>1, SearchComplete
  <2>3. /\ Cardinality(f.bitmap) < Cardinality(Slots) /\ Cardinality(f.bitmap) \in Nat
    BY <1>1, <1>3, FS_Subset, FS_CardinalityType
  <2> QED
    BY <1>1, <2>2, <2>3, PagefileAssumption DEF HasSlot, FreeSlotsExact
<1> QED
  BY <1>2, <1>3 DEF PagefileSlot

-----------------------------------------------------------------------------
(* The simulator.                                                          *)

(* What the locals of a faulting thread at c hold: the wire state has a    *)
(* page for each level that is wired, and a swap-in has its page.          *)
LocalOK(c, x) ==
  /\ c = "wire" => \A k \in 1 .. Levels : k >= x.level => x.pages[k] \in Pages
  /\ c = "fault" => x.level = 1 /\ \A k \in 1 .. Levels : x.pages[k] \in Pages
  /\ c = "unwire" => /\ x.level \in 1 .. Levels
                     /\ \A k \in 1 .. Levels : k >= x.level => x.pages[k] \in Pages
                     /\ x.result = "read" => x.page \in Pages
  /\ c \in {"read", "readVad", "readWs", "finish"} => x.page \in Pages

LocalsOK ==
  vm.panic = NoPanic =>
    /\ \A f \in Faulters : LocalOK(pc[f], flt[f])
    /\ pc["pgwriter"] = "send" => wr.page \in Pages

(* TypeOK is not inductive: a step of the wiring uses the page number      *)
(* that the step of the level above left in the wire state.                *)
TypeInv == TypeOK /\ LocalsOK

(* The locals of a thread that has no fault are well-typed.                *)
LEMMA NoFaultType == NoFault \in FaultLocals
  BY ConstantTypes, VmAssumption DEF NoFault, FaultLocals, VAddr

(* A step of a faulting thread that leaves the page writer alone.          *)
LEMMA FaulterTypes ==
  ASSUME TypeInv, vm.panic = NoPanic, NEW f \in Faulters, NEW c \in PcStates,
         NEW x \in FaultLocals, LocalOK(c, x),
         pc' = [pc EXCEPT ![f] = c], flt' = [flt EXCEPT ![f] = x], wr' = wr
  PROVE  /\ pc' \in [Threads -> PcStates] /\ flt' \in [Faulters -> FaultLocals]
         /\ wr' \in WriterLocals /\ LocalsOK'
<1>1. f \in Threads /\ f # "pgwriter" /\ "pgwriter" \in Threads /\ Faulters \subseteq Threads
  BY VmmAssumption DEF Threads
<1>2. pc' \in [Threads -> PcStates] /\ flt' \in [Faulters -> FaultLocals] /\ wr' \in WriterLocals
  BY <1>1 DEF TypeInv, TypeOK
<1>3. \A g \in Faulters : LocalOK(pc'[g], flt'[g])
  <2> TAKE g \in Faulters
  <2>1. CASE g = f
    BY <2>1, <1>1 DEF TypeInv, TypeOK
  <2>2. CASE g # f
    <3>1. pc'[g] = pc[g] /\ flt'[g] = flt[g]
      BY <2>2, <1>1 DEF TypeInv, TypeOK
    <3>2. LocalOK(pc[g], flt[g])
      BY DEF TypeInv, LocalsOK
    <3> QED
      BY <3>1, <3>2
  <2> QED
    BY <2>1, <2>2
<1>4. pc'["pgwriter"] = pc["pgwriter"]
  BY <1>1 DEF TypeInv, TypeOK
<1> QED
  BY <1>2, <1>3, <1>4 DEF LocalsOK, TypeInv

(* The same for a critical section, whose panic changes nothing else.      *)
LEMMA CommitTypes ==
  ASSUME TypeInv, vm.panic = NoPanic, NEW f \in Faulters, NEW c \in PcStates,
         NEW s \in VmStates, NEW x,
         s.panic = NoPanic => x \in FaultLocals /\ LocalOK(c, x),
         pc' = [pc EXCEPT ![f] = c], CommitFault(f, s, x)
  PROVE  /\ vm' \in VmStates /\ pf' \in PagefileStates
         /\ pc' \in [Threads -> PcStates] /\ flt' \in [Faulters -> FaultLocals]
         /\ wr' \in WriterLocals /\ LocalsOK'
<1>1. CASE s.panic = NoPanic
  <2>1. vm' = s /\ flt' = [flt EXCEPT ![f] = x] /\ wr' = wr /\ pf' = pf
    BY <1>1 DEF CommitFault, Commit
  <2>2. vm' \in VmStates /\ pf' \in PagefileStates
    BY <2>1 DEF TypeInv, TypeOK
  <2> QED
    BY <1>1, <2>1, <2>2, FaulterTypes
<1>2. CASE s.panic # NoPanic
  <2>1. vm' = [vm EXCEPT !.panic = s.panic] /\ flt' = flt /\ wr' = wr /\ pf' = pf
    BY <1>2 DEF CommitFault, Commit
  <2>2. s.panic \in PanicSite
    BY <1>2, Parts
  <2>3. vm' \in VmStates
    BY <2>1, <2>2, PanicType DEF TypeInv, TypeOK
  <2>4. vm'.panic # NoPanic
    BY <1>2, <2>1 DEF TypeInv, TypeOK, VmStates
  <2>5. pc' \in [Threads -> PcStates]
    BY DEF TypeInv, TypeOK, Threads
  <2> QED
    BY <2>1, <2>3, <2>4, <2>5 DEF TypeInv, TypeOK, LocalsOK
<1> QED
  BY <1>1, <1>2

-----------------------------------------------------------------------------
(* The operators of module Vmm on the state.                               *)
LEMMA SetPteType ==
  ASSUME NEW s \in VmStates, NEW ref \in PteAddr, NEW pte \in Pte
  PROVE  SetPte(s, ref, pte) \in VmStates
<1>1. ref[1] \in Pages /\ ref[2] \in Idx
  BY DEF PteAddr
<1>2. [s EXCEPT !.table[ref[1]][ref[2]] = pte] \in VmStates
  BY <1>1, SetTableType
<1> QED
  BY <1>2, PanicType DEF SetPte

(* An assignment to referent_pte keeps the type of the state.              *)
LEMMA SetReferentType ==
  ASSUME NEW s \in VmStates, NEW p \in Pages, NEW ref \in PteAddr
  PROVE  SetReferent(s, p, ref) \in VmStates
<1>1. [s EXCEPT !.page[p].referent = ref] \in VmStates
  BY SetFieldType
<1> QED
  BY <1>1, PanicType DEF SetReferent

(* vmp_md_setup_table_pointers() and the counts before it keep the type.   *)
LEMMA EnterTableType ==
  ASSUME NEW s \in VmStates, NEW dir \in Pages, NEW i \in Idx, NEW p \in Pages,
         NEW isNew \in BOOLEAN
  PROVE  EnterTable(s, dir, i, p, isNew) \in VmStates
<1> DEFINE c == [s EXCEPT !.page[p].nonzero = @ + 1, !.page[p].nonswap = @ + 1]
           t == Then(s, c)
           u == NonswapPteCreated(WslInsert(t, TableKey(p), TRUE), dir, isNew)
<1>1. c \in VmStates
  <2>1. s.page[p].nonzero + 1 \in Int /\ s.page[p].nonswap + 1 \in Int
    BY PagePart
  <2>2. [s.page[p] EXCEPT !.nonzero = @ + 1, !.nonswap = @ + 1] \in PageRec
    BY <2>1, PagePart, PageRecUpdate2, Zenon
  <2>3. [s.page EXCEPT ![p].nonzero = @ + 1, ![p].nonswap = @ + 1] \in PageDb
    BY <2>2, Parts DEF PageDb
  <2> QED
    BY <2>3 DEF VmStates
<1> HIDE DEF c
<1>2. t \in VmStates
  BY <1>1, PanicType
<1> HIDE DEF t
<1>3. u \in VmStates
  BY <1>2, TableKeyType, WslInsertType, NonswapPteCreatedType
<1> HIDE DEF u
<1>4. << dir, i >> \in PteAddr /\ HwPte(p, TRUE) \in Pte
  <2>1. NoSlot \in Nat \cup {NoSlot}
    OBVIOUS
  <2> QED
    BY <2>1, PteTypes DEF PteAddr
<1>5. SetPte(u, << dir, i >>, HwPte(p, TRUE)) \in VmStates
  BY <1>3, <1>4, SetPteType
<1> QED
  BY <1>5 DEF EnterTable, c, t, u

(* The Zero case of vmp_wire_pte() keeps the type of the state.            *)
LEMMA NewTableType ==
  ASSUME NEW s \in VmStates, NEW dir \in Pages, NEW i \in Idx, NEW use \in PageUse
  PROVE  NewTable(s, dir, i, use) \in VmStates
<1> DEFINE p == AllocatedPage(s)
           t == PageRetain(PageAlloc(s, use), p)
           u == EnterTable(SetReferent(t, p, << dir, i >>), dir, i, p, TRUE)
<1>1. CanAlloc(s) => p \in Pages /\ PageAlloc(s, use) \in VmStates
  BY PageAllocType
<1> HIDE DEF p
<1>2. CanAlloc(s) => t \in VmStates
  BY <1>1, PageRetainType
<1> HIDE DEF t
<1>3. << dir, i >> \in PteAddr
  BY DEF PteAddr
<1>4. CanAlloc(s) => SetReferent(t, p, << dir, i >>) \in VmStates
  BY <1>1, <1>2, <1>3, SetReferentType
<1>5. CanAlloc(s) => u \in VmStates
  BY <1>1, <1>4, EnterTableType
<1> HIDE DEF u
<1>6. Kassert(s, CanAlloc(s), "tables.c:226", u) \in VmStates
  BY <1>5, KassertType DEF PanicSite
<1> QED
  BY <1>6 DEF NewTable, p, t, u

(* Wiring one level leaves a well-typed state whose PTE names a page.      *)
LEMMA WireTableType ==
  ASSUME NEW s \in VmStates, NEW dir \in Pages, NEW i \in Idx, NEW use \in PageUse
  PROVE  WireTable(s, dir, i, use) \in VmStates
<1> DEFINE pte == s.table[dir][i]
<1>1. pte.page \in Pages
  BY TablePart
<1> HIDE DEF pte
<1>2. NonswapPteCreated(s, pte.page, TRUE) \in VmStates
  BY <1>1, NonswapPteCreatedType
<1>3. EnterTable(PageRetain(PageRetain(s, pte.page), pte.page), dir, i, pte.page, FALSE)
        \in VmStates
  BY <1>1, PageRetainType, EnterTableType
<1>4. NewTable(s, dir, i, use) \in VmStates
  BY NewTableType
<1>5. Kfatal(s, "tables.c:203") \in VmStates /\ Kfatal(s, "tables.c:216") \in VmStates
  BY KfatalType DEF PanicSite
<1> QED
  BY <1>2, <1>3, <1>4, <1>5 DEF WireTable, pte

(* cluster_anon() keeps the type of the state.                             *)
LEMMA CleanPageType ==
  ASSUME NEW s \in VmStates, NEW p \in Pages, NEW slot \in Nat \cup {NoSlot}
  PROVE  CleanPage(s, p, slot) \in VmStates
<1> DEFINE r == PageRetain(s, p)
<1>1. r \in VmStates
  BY PageRetainType
<1> HIDE DEF r
<1> DEFINE t == [r EXCEPT !.page[p].drumslot = slot, !.page[p].dirty = FALSE]
<1>2. t \in VmStates
  <2>1. r.page[p] \in PageRec
    BY <1>1, PagePart
  <2>2. [r.page[p] EXCEPT !.drumslot = slot, !.dirty = FALSE] \in PageRec
    BY <2>1, PageRecUpdate2, Zenon
  <2>3. [r.page EXCEPT ![p].drumslot = slot, ![p].dirty = FALSE] \in PageDb
    BY <1>1, <2>2, Parts DEF PageDb
  <2> QED
    BY <1>1, <2>3 DEF VmStates
<1> HIDE DEF t
<1>3. Kassert(r, r.page[p].use \in {"AnonPrivate", "PML1", "PML2", "PML3", "PML4"},
              "pgwriter.c:164", t) \in VmStates
  BY <1>1, <1>2, KassertType DEF PanicSite
<1> QED
  BY <1>3 DEF CleanPage, r, t

-----------------------------------------------------------------------------
(* The steps of a faulting thread.                                         *)
LEMMA FaulterFacts ==
  ASSUME TypeInv, vm.panic = NoPanic, NEW f \in Faulters
  PROVE  /\ vm \in VmStates /\ flt[f] \in FaultLocals /\ LocalOK(pc[f], flt[f])
         /\ flt[f].va \in VAddr /\ (\A l \in 1 .. Levels : flt[f].va[l] \in Idx)
         /\ 1 \in 1 .. Levels /\ Levels \in 1 .. Levels
         /\ flt[f].va[1] \in Idx
         /\ flt[f].write \in BOOLEAN /\ flt[f].level \in 1 .. Levels + 1
         /\ flt[f].pte \in PteAddr /\ flt[f].slot \in Nat \cup {NoSlot}
         /\ flt[f].result \in {"ok", "again", "read"}
         /\ LeafKey(flt[f].va) \in WsKey
         /\ flt = [flt EXCEPT ![f] = flt[f]]
  BY VmAssumption DEF TypeInv, TypeOK, LocalsOK, FaultLocals, VAddr, LeafKey, WsKey

(* What is left of TypeOK when a step of thread f is known to keep the     *)
(* types of the state and of the locals.                                   *)
LEMMA RestTypes ==
  ASSUME TypeInv, vm' \in VmStates, pf' \in PagefileStates, disk' = disk, target' = target,
         pc' \in [Threads -> PcStates], flt' \in [Faulters -> FaultLocals],
         wr' \in WriterLocals, LocalsOK', NEW f \in Faulters,
         vad_lock' \in {vad_lock, f, None}, ws_lock' \in {ws_lock, f, None},
         pfn_lock' \in {pfn_lock, f, None}
  PROVE  TypeInv'
  BY DEF TypeInv, TypeOK, LockStates, Threads

(* The access, and the locks do_fault() takes.                             *)
LEMMA AccessStepType ==
  ASSUME TypeInv, NEW f \in Faulters,
         \/ AccessHit(f) \/ AccessFault(f) \/ LockVad(f) \/ Awake(f)
         \/ RelockVad(f) \/ RelockWs(f)
  PROVE  TypeInv'
<1>1. vm.panic = NoPanic
  BY DEF AccessHit, AccessFault, LockVad, Awake, RelockVad, RelockWs, Goto
<1>2. PICK from \in PcStates, to \in PcStates :
        /\ pc[f] = from /\ pc' = [pc EXCEPT ![f] = to]
        /\ from \in {"readVad", "readWs"} \/ to \in {"translate", "vad", "ws"}
        /\ to \in {"translate", "vad", "ws", "readWs", "finish"}
  BY DEF AccessHit, AccessFault, LockVad, Awake, RelockVad, RelockWs, Goto, PcStates
<1>3. LocalOK(to, flt[f])
  BY <1>1, <1>2, FaulterFacts DEF LocalOK
<1>4. flt' = flt /\ wr' = wr /\ vm' = vm /\ pf' = pf /\ disk' = disk /\ target' = target
  BY DEF AccessHit, AccessFault, LockVad, Awake, RelockVad, RelockWs
<1>5. /\ pc' \in [Threads -> PcStates] /\ flt' \in [Faulters -> FaultLocals]
      /\ wr' \in WriterLocals /\ LocalsOK'
  <2>1. flt[f] \in FaultLocals /\ flt' = [flt EXCEPT ![f] = flt[f]]
    BY <1>1, <1>4, FaulterFacts
  <2> QED
    BY <1>1, <1>2, <1>3, <1>4, <2>1, FaulterTypes
<1>6. /\ vad_lock' \in {vad_lock, f, None} /\ ws_lock' \in {ws_lock, f, None}
      /\ pfn_lock' \in {pfn_lock, f, None}
  BY DEF AccessHit, AccessFault, LockVad, Awake, RelockVad, RelockWs
<1>7. vm' \in VmStates /\ pf' \in PagefileStates
  BY <1>4 DEF TypeInv, TypeOK
<1> QED
  BY <1>4, <1>5, <1>6, <1>7, RestTypes

(* A call of access() from main() keeps the invariant.                     *)
LEMMA PickType ==
  ASSUME TypeInv, NEW f \in Faulters, NEW va \in VAddrs, NEW write \in Writes,
         Pick(f, va, write)
  PROVE  TypeInv'
<1>1. vm.panic = NoPanic
  BY DEF Pick, Goto
<1> DEFINE x == [flt[f] EXCEPT !.va = va, !.write = write]
<1>2. x \in FaultLocals
  <2>1. va \in VAddr /\ write \in BOOLEAN /\ flt[f] \in FaultLocals
    BY <1>1, VmmAssumption, FaulterFacts
  <2> QED
    BY <2>1 DEF FaultLocals
<1>3. LocalOK("access", x) /\ "access" \in PcStates
  BY DEF LocalOK, PcStates
<1>4. /\ pc' = [pc EXCEPT ![f] = "access"] /\ flt' = [flt EXCEPT ![f] = x] /\ wr' = wr
      /\ vm' = vm /\ pf' = pf /\ disk' = disk /\ target' = target
      /\ vad_lock' = vad_lock /\ ws_lock' = ws_lock /\ pfn_lock' = pfn_lock
  BY DEF Pick, Goto
<1> HIDE DEF x
<1>5. /\ pc' \in [Threads -> PcStates] /\ flt' \in [Faulters -> FaultLocals]
      /\ wr' \in WriterLocals /\ LocalsOK'
  BY <1>1, <1>2, <1>3, <1>4, FaulterTypes
<1>6. vm' \in VmStates /\ pf' \in PagefileStates
  BY <1>4 DEF TypeInv, TypeOK
<1> QED
  BY <1>4, <1>5, <1>6, RestTypes

(* do_fault() taking ws_lock keeps the invariant.                          *)
LEMMA LockWsType ==
  ASSUME TypeInv, NEW f \in Faulters, LockWs(f)
  PROVE  TypeInv'
<1>1. vm.panic = NoPanic
  BY DEF LockWs, Goto
<1> DEFINE x == [flt[f] EXCEPT !.level = Levels + 1]
<1>2. x \in FaultLocals /\ x.level = Levels + 1
  <2>1. Levels + 1 \in 1 .. Levels + 1 /\ flt[f] \in FaultLocals
    BY <1>1, VmAssumption, FaulterFacts
  <2> QED
    BY <2>1 DEF FaultLocals
<1>3. LocalOK("wire", x) /\ "wire" \in PcStates
  BY <1>2, VmAssumption DEF LocalOK, PcStates
<1>4. /\ pc' = [pc EXCEPT ![f] = "wire"] /\ flt' = [flt EXCEPT ![f] = x] /\ wr' = wr
      /\ vm' = vm /\ pf' = pf /\ disk' = disk /\ target' = target
      /\ vad_lock' = vad_lock /\ ws_lock' = f /\ pfn_lock' = pfn_lock
  BY DEF LockWs, Goto
<1> HIDE DEF x
<1>5. /\ pc' \in [Threads -> PcStates] /\ flt' \in [Faulters -> FaultLocals]
      /\ wr' \in WriterLocals /\ LocalsOK'
  BY <1>1, <1>2, <1>3, <1>4, FaulterTypes
<1>6. vm' \in VmStates /\ pf' \in PagefileStates
  BY <1>4 DEF TypeInv, TypeOK
<1> QED
  BY <1>4, <1>5, <1>6, RestTypes

(* The contents of a page are set by a store or by a read from the paging  *)
(* file.                                                                   *)
LEMMA SetDataType ==
  ASSUME NEW s \in VmStates, NEW p \in Pages, NEW d \in Content
  PROVE  [s EXCEPT !.data[p] = d] \in VmStates
<1>1. [s.data EXCEPT ![p] = d] \in Contents
  BY Parts DEF Contents
<1> QED
  BY <1>1 DEF VmStates

(* The store at the end of access() keeps the invariant.                   *)
LEMMA TranslateType ==
  ASSUME TypeInv, NEW f \in Faulters, Translate(f)
  PROVE  TypeInv'
<1>1. vm.panic = NoPanic
  BY DEF Translate, Goto
<1>2. vm' \in VmStates
  <2> DEFINE va == flt[f].va
             p == vm.table[LeafTable(va)][va[1]].page
  <2>1. CASE flt[f].write /\ MmuHit(va, TRUE)
    <3>1. p \in Pages
      BY <1>1, <2>1, FaulterFacts, TablePart, Zenon DEF MmuHit
    <3>2. PICK d \in Data : vm' = [vm EXCEPT !.data[p] = d]
      BY <2>1, Zenon DEF Translate
    <3> QED
      BY <1>1, <3>1, <3>2, FaulterFacts, SetDataType, Zenon DEF Content
  <2>2. CASE ~(flt[f].write /\ MmuHit(va, TRUE))
    BY <2>2, <1>1, FaulterFacts DEF Translate
  <2> QED
    BY <2>1, <2>2, Zenon
<1>3. LocalOK("user", NoFault) /\ "user" \in PcStates
  BY DEF LocalOK, PcStates
<1>4. /\ pc' = [pc EXCEPT ![f] = "user"] /\ flt' = [flt EXCEPT ![f] = NoFault] /\ wr' = wr
      /\ pf' = pf /\ disk' = disk /\ target' = target
      /\ vad_lock' = vad_lock /\ ws_lock' = ws_lock /\ pfn_lock' = pfn_lock
  BY DEF Translate, Goto
<1>5. /\ pc' \in [Threads -> PcStates] /\ flt' \in [Faulters -> FaultLocals]
      /\ wr' \in WriterLocals /\ LocalsOK'
  BY <1>1, <1>3, <1>4, NoFaultType, FaulterTypes
<1>6. pf' \in PagefileStates
  BY <1>4 DEF TypeInv, TypeOK
<1> QED
  BY <1>2, <1>4, <1>5, <1>6, RestTypes, Zenon

(* The read of a swap-in keeps the invariant.                              *)
LEMMA SendReadType ==
  ASSUME TypeInv, NEW f \in Faulters, SendRead(f)
  PROVE  TypeInv'
<1>1. vm.panic = NoPanic /\ pc[f] = "read"
  BY DEF SendRead, Goto
<1>2. flt[f].page \in Pages /\ LocalOK("readVad", flt[f]) /\ "readVad" \in PcStates
  BY <1>1, FaulterFacts DEF LocalOK, PcStates
<1>3. vm' \in VmStates
  <2> DEFINE slot == vm.page[flt[f].page].drumslot
  <2>1. CASE slot \in Slots
    <3>1. disk[slot] \in Content
      BY <2>1 DEF TypeInv, TypeOK
    <3>2. vm' = [vm EXCEPT !.data[flt[f].page] = disk[slot]]
      BY <2>1 DEF SendRead
    <3> HIDE DEF slot
    <3> QED
      BY <1>1, <1>2, <3>1, <3>2, FaulterFacts, SetDataType
  <2>2. CASE slot \notin Slots
    BY <2>2, <1>1, FaulterFacts DEF SendRead
  <2> QED
    BY <2>1, <2>2
<1>4. /\ pc' = [pc EXCEPT ![f] = "readVad"] /\ flt' = flt /\ wr' = wr
      /\ pf' = pf /\ disk' = disk /\ target' = target
      /\ vad_lock' = vad_lock /\ ws_lock' = ws_lock /\ pfn_lock' = pfn_lock
  BY DEF SendRead, Goto
<1>5. /\ pc' \in [Threads -> PcStates] /\ flt' \in [Faulters -> FaultLocals]
      /\ wr' \in WriterLocals /\ LocalsOK'
  <2>1. flt[f] \in FaultLocals /\ flt' = [flt EXCEPT ![f] = flt[f]]
    BY <1>1, <1>4, FaulterFacts
  <2> QED
    BY <1>1, <1>2, <1>4, <2>1, FaulterTypes
<1>6. pf' \in PagefileStates
  BY <1>4 DEF TypeInv, TypeOK
<1> QED
  BY <1>3, <1>4, <1>5, <1>6, RestTypes

(* vmp_wire_pte(), from the root down.                                     *)
LEMMA WireRootType ==
  ASSUME TypeInv, NEW f \in Faulters, WireRoot(f)
  PROVE  TypeInv'
<1> DEFINE x == [flt[f] EXCEPT !.level = Levels, !.pages[Levels] = Root]
           s == NonswapPteCreated(vm, Root, TRUE)
<1>1. vm.panic = NoPanic
  BY DEF WireRoot, Goto
<1>2. x \in FaultLocals /\ x.level = Levels /\ x.pages[Levels] = Root
  <2>1. Levels \in 1 .. Levels + 1 /\ flt[f] \in FaultLocals /\ Root \in Pages
    BY <1>1, VmAssumption, ConstantTypes, FaulterFacts
  <2>2. Levels \in 1 .. Levels
    BY VmAssumption
  <2>3. x \in FaultLocals
    BY <2>1, <2>2 DEF FaultLocals
  <2>4. x.level = Levels /\ x.pages = [flt[f].pages EXCEPT ![Levels] = Root]
    BY <2>1, <2>2 DEF FaultLocals
  <2>5. flt[f].pages \in [1 .. Levels -> Pages \cup {NoPage}]
    BY <2>1 DEF FaultLocals
  <2> QED
    BY <2>2, <2>3, <2>4, <2>5
<1>3. LocalOK("wire", x) /\ "wire" \in PcStates
  BY <1>2, VmAssumption, ConstantTypes DEF LocalOK, PcStates
<1>4. s \in VmStates
  BY <1>1, ConstantTypes, FaulterFacts, NonswapPteCreatedType
<1>5. /\ pc' = [pc EXCEPT ![f] = "wire"] /\ CommitFault(f, s, x)
      /\ disk' = disk /\ target' = target
      /\ vad_lock' = vad_lock /\ ws_lock' = ws_lock /\ pfn_lock' = f
  BY DEF WireRoot, Goto
<1> HIDE DEF x, s
<1>6. /\ vm' \in VmStates /\ pf' \in PagefileStates
      /\ pc' \in [Threads -> PcStates] /\ flt' \in [Faulters -> FaultLocals]
      /\ wr' \in WriterLocals /\ LocalsOK'
  BY <1>1, <1>2, <1>3, <1>4, <1>5, CommitTypes
<1> QED
  BY <1>5, <1>6, RestTypes

(* One round of vmp_wire_pte() keeps the invariant: the next table is      *)
(* wired.                                                                  *)
LEMMA WireLevelType ==
  ASSUME TypeInv, NEW f \in Faulters, WireLevel(f)
  PROVE  TypeInv'
<1> DEFINE l   == flt[f].level
           dir == flt[f].pages[l]
           i   == flt[f].va[l]
           s   == WireTable(vm, dir, i, TableUse[l - 1])
           x   == [flt[f] EXCEPT !.level = l - 1, !.pages[l - 1] = s.table[dir][i].page]
           c   == IF l = 2 THEN "fault" ELSE "wire"
<1>1. vm.panic = NoPanic /\ pc[f] = "wire" /\ l \in 2 .. Levels
  BY Zenon DEF WireLevel, Goto
<1>2. dir \in Pages /\ i \in Idx /\ \A k \in 1 .. Levels : k >= l => flt[f].pages[k] \in Pages
  BY <1>1, VmAssumption, FaulterFacts DEF LocalOK
<1>3. TableUse[l - 1] \in PageUse
  <2>1. l - 1 \in {1, 2, 3}
    BY <1>1, VmAssumption
  <2> QED
    BY <2>1 DEF TableUse, PageUse
<1>4. s \in VmStates
  BY <1>1, <1>2, <1>3, FaulterFacts, WireTableType, Zenon
<1>5. /\ pc' = [pc EXCEPT ![f] = c] /\ CommitFault(f, s, x)
      /\ disk' = disk /\ target' = target
      /\ vad_lock' = vad_lock /\ ws_lock' = ws_lock /\ pfn_lock' \in {f, None}
  BY ZenonT(60) DEF WireLevel, Goto
<1> HIDE DEF s
<1>6. s.table[dir][i].page \in Pages
  BY <1>2, <1>4, TablePart, Zenon
<1>7. /\ x \in FaultLocals /\ x.level = l - 1
      /\ \A k \in 1 .. Levels : k >= l - 1 => x.pages[k] \in Pages
  <2> DEFINE q == s.table[dir][i].page
  <2> HIDE DEF q
  <2>1. l - 1 \in 1 .. Levels + 1 /\ l - 1 \in 1 .. Levels
    BY <1>1, VmAssumption, SMTT(60)
  <2>2. /\ l - 1 \in 1 .. Levels + 1 /\ l - 1 \in 1 .. Levels
        /\ flt[f] \in FaultLocals /\ q \in Pages
    BY <1>1, <1>6, <2>1, FaulterFacts, Zenon DEF q
  <2>3. [flt[f] EXCEPT !.level = l - 1, !.pages[l - 1] = q] \in FaultLocals
    BY <2>2 DEF FaultLocals
  <2>4. x.level = l - 1 /\ x.pages = [flt[f].pages EXCEPT ![l - 1] = q]
    BY <2>2 DEF FaultLocals, q
  <2>5. ASSUME NEW k \in 1 .. Levels, k >= l - 1
        PROVE  x.pages[k] \in Pages
    <3>1. flt[f].pages \in [1 .. Levels -> Pages \cup {NoPage}]
      BY <2>2, Zenon DEF FaultLocals
    <3>2. CASE k = l - 1
      BY <2>2, <2>4, <3>1, <3>2, ZenonT(60)
    <3>3. CASE k # l - 1
      <4>1. k >= l
        BY <2>5, <3>3, <1>1, VmAssumption
      <4> QED
        BY <1>2, <2>4, <3>1, <3>3, <4>1, Zenon
    <3> QED
      BY <3>2, <3>3, Zenon
  <2> QED
    BY <2>3, <2>4, <2>5, Zenon DEF q
<1>8. LocalOK(c, x) /\ c \in PcStates
  <2> HIDE DEF x
  <2>1. CASE l = 2
    <3>1. x.level = 1 /\ \A k \in 1 .. Levels : x.pages[k] \in Pages
      BY <2>1, <1>7, VmAssumption
    <3> QED
      BY <2>1, <3>1 DEF LocalOK, PcStates
  <2>2. CASE l # 2
    BY <2>2, <1>7 DEF LocalOK, PcStates
  <2> QED
    BY <2>1, <2>2
<1> HIDE DEF x, c
<1>9. /\ vm' \in VmStates /\ pf' \in PagefileStates
      /\ pc' \in [Threads -> PcStates] /\ flt' \in [Faulters -> FaultLocals]
      /\ wr' \in WriterLocals /\ LocalsOK'
  BY <1>1, <1>4, <1>5, <1>7, <1>8, CommitTypes
<1> QED
  BY <1>5, <1>9, RestTypes

(* do_fault() on the leaf PTE.                                             *)
LEMMA HandledType ==
  ASSUME TypeInv, NEW f \in Faulters, NEW s \in VmStates, NEW x \in FaultLocals,
         LocalOK("unwire", x), Handled(f, s, x)
  PROVE  TypeInv'
<1>1. vm.panic = NoPanic
  BY DEF Handled, Goto
<1>2. /\ pc' = [pc EXCEPT ![f] = "unwire"] /\ CommitFault(f, s, x)
      /\ disk' = disk /\ target' = target
      /\ vad_lock' = vad_lock /\ ws_lock' = ws_lock /\ pfn_lock' = f
  BY DEF Handled, Goto
<1>3. "unwire" \in PcStates
  BY DEF PcStates
<1>4. /\ vm' \in VmStates /\ pf' \in PagefileStates
      /\ pc' \in [Threads -> PcStates] /\ flt' \in [Faulters -> FaultLocals]
      /\ wr' \in WriterLocals /\ LocalsOK'
  BY <1>1, <1>2, <1>3, CommitTypes
<1> QED
  BY <1>2, <1>4, RestTypes

(* What do_fault() finds when the leaf PTE is wired.                       *)
LEMMA LeafFacts ==
  ASSUME TypeInv, NEW f \in Faulters, vm.panic = NoPanic, pc[f] = "fault"
  PROVE  /\ flt[f].pages[1] \in Pages /\ FaultPteAddr(f) \in PteAddr
         /\ FaultPte(f) \in Pte /\ FaultPte(f).page \in Pages
         /\ FaultPte(f).slot \in Nat \cup {NoSlot}
         /\ \A w \in BOOLEAN, p \in Pages : HwPte(p, w) \in Pte
         /\ BusyPte \in Pte /\ "AnonPrivate" \in PageUse
         /\ \A r \in {"ok", "again"} :
              Result(f, r) \in FaultLocals /\ LocalOK("unwire", Result(f, r))
<1>1. /\ flt[f] \in FaultLocals /\ flt[f].va[1] \in Idx /\ 1 \in 1 .. Levels
      /\ flt[f].level = 1 /\ \A k \in 1 .. Levels : flt[f].pages[k] \in Pages
  BY FaulterFacts DEF LocalOK
<1>2. flt[f].pages[1] \in Pages /\ FaultPteAddr(f) \in PteAddr
  BY <1>1, Zenon DEF FaultPteAddr, PteAddr
<1>3. /\ FaultPte(f) \in Pte /\ FaultPte(f).page \in Pages
      /\ FaultPte(f).slot \in Nat \cup {NoSlot}
  BY <1>1, <1>2, FaulterFacts, TablePart DEF FaultPte
<1>4. BusyPte \in Pte /\ \A w \in BOOLEAN, p \in Pages : HwPte(p, w) \in Pte
  <2>1. NoSlot \in Nat \cup {NoSlot} /\ 0 \in Pages
    BY ConstantTypes
  <2> QED
    BY <2>1, PteTypes
<1>5. ASSUME NEW r \in {"ok", "again"}
      PROVE  Result(f, r) \in FaultLocals /\ LocalOK("unwire", Result(f, r))
  <2>1. /\ Result(f, r) \in FaultLocals /\ Result(f, r).level = 1
        /\ Result(f, r).pages = flt[f].pages /\ Result(f, r).result = r
    BY <1>1 DEF Result, FaultLocals
  <2> QED
    BY <1>1, <2>1 DEF LocalOK
<1> QED
  BY <1>2, <1>3, <1>4, <1>5 DEF PageUse

(* A fault on a valid PTE keeps the invariant.                             *)
LEMMA ValidLeafType ==
  ASSUME TypeInv, NEW f \in Faulters,
         MakeWriteable(f) \/ ValidFault(f) \/ AllocFails(f) \/ BusyFault(f)
  PROVE  TypeInv'
<1>1. vm.panic = NoPanic /\ pc[f] = "fault"
  BY DEF MakeWriteable, ValidFault, AllocFails, BusyFault, FaultsOn
<1>2. vm \in VmStates
  BY DEF TypeInv, TypeOK
<1>3. \A r \in {"ok", "again"} : Result(f, r) \in FaultLocals /\ LocalOK("unwire", Result(f, r))
  BY <1>1, LeafFacts
<1>4. CASE MakeWriteable(f)
  <2>1. SetPte(vm, FaultPteAddr(f), HwPte(FaultPte(f).page, TRUE)) \in VmStates
    BY <1>1, <1>2, LeafFacts, SetPteType
  <2> QED
    BY <1>3, <1>4, <2>1, HandledType DEF MakeWriteable
<1>5. CASE ValidFault(f)
  BY <1>2, <1>3, <1>5, HandledType DEF ValidFault
<1>6. CASE AllocFails(f)
  <2>1. PageAlloc(vm, "AnonPrivate") \in VmStates
    BY <1>1, <1>2, LeafFacts, PageAllocType
  <2> QED
    BY <1>3, <1>6, <2>1, HandledType DEF AllocFails
<1>7. CASE BusyFault(f)
  <2>1. Kfatal(vm, "fault.c:170") \in VmStates
    BY <1>2, KfatalType DEF PanicSite
  <2> QED
    BY <1>3, <1>7, <2>1, HandledType DEF BusyFault
<1> QED
  BY <1>4, <1>5, <1>6, <1>7

(* A demand-zero fault keeps the invariant.                                *)
LEMMA DemandZeroType ==
  ASSUME TypeInv, NEW f \in Faulters, DemandZero(f)
  PROVE  TypeInv'
<1> DEFINE p == AllocatedPage(vm)
           s == SetPte(PageAlloc(vm, "AnonPrivate"), FaultPteAddr(f), HwPte(p, flt[f].write))
           u == WslInsert(NonswapPteCreated(s, flt[f].pages[1], TRUE),
                          LeafKey(flt[f].va), FALSE)
<1>1. vm.panic = NoPanic /\ pc[f] = "fault" /\ CanAlloc(vm) /\ vm \in VmStates
  BY DEF DemandZero, FaultsOn, TypeInv, TypeOK
<1>2. PageAlloc(vm, "AnonPrivate") \in VmStates /\ p \in Pages
  BY <1>1, LeafFacts, PageAllocType
<1>3. /\ FaultPteAddr(f) \in PteAddr /\ HwPte(p, flt[f].write) \in Pte
      /\ flt[f].pages[1] \in Pages /\ LeafKey(flt[f].va) \in WsKey
      /\ Result(f, "ok") \in FaultLocals /\ LocalOK("unwire", Result(f, "ok"))
  BY <1>1, <1>2, LeafFacts, FaulterFacts
<1>4. Handled(f, SetReferent(u, p, FaultPteAddr(f)), Result(f, "ok"))
  BY DEF DemandZero
<1> HIDE DEF p
<1>5. s \in VmStates
  BY <1>2, <1>3, SetPteType
<1> HIDE DEF s
<1>6. u \in VmStates
  BY <1>3, <1>5, NonswapPteCreatedType, WslInsertType
<1> HIDE DEF u
<1>7. SetReferent(u, p, FaultPteAddr(f)) \in VmStates
  BY <1>2, <1>3, <1>6, SetReferentType
<1> QED
  BY <1>3, <1>4, <1>7, HandledType

(* A fault on a transition PTE keeps the invariant.                        *)
LEMMA TransFaultType ==
  ASSUME TypeInv, NEW f \in Faulters, TransFault(f)
  PROVE  TypeInv'
<1> DEFINE p == FaultPte(f).page
           s == SetPte(PageRetain(vm, p), FaultPteAddr(f), HwPte(p, FALSE))
<1>1. vm.panic = NoPanic /\ pc[f] = "fault" /\ vm \in VmStates
  BY DEF TransFault, FaultsOn, TypeInv, TypeOK
<1>2. /\ p \in Pages /\ FaultPteAddr(f) \in PteAddr /\ HwPte(p, FALSE) \in Pte
      /\ LeafKey(flt[f].va) \in WsKey
      /\ Result(f, "ok") \in FaultLocals /\ LocalOK("unwire", Result(f, "ok"))
  BY <1>1, LeafFacts, FaulterFacts
<1>3. Handled(f, WslInsert(s, LeafKey(flt[f].va), FALSE), Result(f, "ok"))
  BY DEF TransFault
<1> HIDE DEF p
<1>4. s \in VmStates
  BY <1>1, <1>2, PageRetainType, SetPteType
<1> HIDE DEF s
<1>5. WslInsert(s, LeafKey(flt[f].va), FALSE) \in VmStates
  BY <1>2, <1>4, WslInsertType
<1> QED
  BY <1>2, <1>3, <1>5, HandledType

(* The first half of a swap-in keeps the invariant.                        *)
LEMMA SwapFaultType ==
  ASSUME TypeInv, NEW f \in Faulters, SwapFault(f)
  PROVE  TypeInv'
<1> DEFINE p == AllocatedPage(vm)
           s == SetReferent(PageAlloc(vm, "AnonPrivate"), p, FaultPteAddr(f))
           t == NonswapPteCreated(SetPte(s, FaultPteAddr(f), BusyPte), flt[f].pages[1], FALSE)
           x == [Result(f, "read") EXCEPT !.page = p, !.pte = FaultPteAddr(f),
                                          !.slot = FaultPte(f).slot]
<1>1. vm.panic = NoPanic /\ pc[f] = "fault" /\ CanAlloc(vm) /\ vm \in VmStates
  BY DEF SwapFault, FaultsOn, TypeInv, TypeOK
<1>2. PageAlloc(vm, "AnonPrivate") \in VmStates /\ p \in Pages
  BY <1>1, LeafFacts, PageAllocType
<1>3. /\ FaultPteAddr(f) \in PteAddr /\ BusyPte \in Pte
      /\ FaultPte(f).slot \in Nat \cup {NoSlot}
      /\ flt[f].pages[1] \in Pages /\ LeafKey(flt[f].va) \in WsKey
  BY <1>1, LeafFacts, FaulterFacts
<1>4. Handled(f, WslInsert(t, LeafKey(flt[f].va), TRUE), x)
  BY DEF SwapFault
<1> HIDE DEF p
<1>5. s \in VmStates
  BY <1>2, <1>3, SetReferentType
<1> HIDE DEF s
<1>6. SetPte(s, FaultPteAddr(f), BusyPte) \in VmStates
  BY <1>3, <1>5, SetPteType
<1>7. t \in VmStates
  BY <1>3, <1>6, NonswapPteCreatedType
<1> HIDE DEF t
<1>8. WslInsert(t, LeafKey(flt[f].va), TRUE) \in VmStates
  BY <1>3, <1>7, WslInsertType
<1>9. /\ x \in FaultLocals /\ x.level = flt[f].level /\ x.pages = flt[f].pages
      /\ x.page = p
  <2>1. flt[f] \in FaultLocals
    BY <1>1, FaulterFacts
  <2> DEFINE r == Result(f, "read")
  <2>2. r \in FaultLocals /\ r.level = flt[f].level /\ r.pages = flt[f].pages
    BY <2>1 DEF Result, FaultLocals
  <2> HIDE DEF r
  <2>3. ASSUME NEW ref \in PteAddr, NEW sl \in Nat \cup {NoSlot}
        PROVE  LET y == [r EXCEPT !.page = p, !.pte = ref, !.slot = sl]
               IN  y \in FaultLocals /\ y.level = r.level /\ y.pages = r.pages /\ y.page = p
    BY <1>2, <2>2, <2>3 DEF FaultLocals
  <2>4. LET y == [r EXCEPT !.page = p, !.pte = FaultPteAddr(f), !.slot = FaultPte(f).slot]
        IN  y \in FaultLocals /\ y.level = r.level /\ y.pages = r.pages /\ y.page = p
    BY <1>3, <2>3, Zenon
  <2> QED
    BY <2>2, <2>4 DEF r
<1>10. flt[f].level = 1 /\ (\A k \in 1 .. Levels : flt[f].pages[k] \in Pages) /\ 1 \in 1 .. Levels
  BY <1>1, FaulterFacts DEF LocalOK
<1> HIDE DEF x
<1>11. LocalOK("unwire", x)
  BY <1>2, <1>9, <1>10 DEF LocalOK
<1> QED
  BY <1>4, <1>8, <1>9, <1>11, HandledType

(* vmp_pte_wire_state_release(), from the leaf up.                         *)
LEMMA UnwireType ==
  ASSUME TypeInv, NEW f \in Faulters, Unwire(f)
  PROVE  TypeInv'
<1> DEFINE l    == flt[f].level
           last == l = Levels
           c    == IF last THEN AfterFault[flt[f].result] ELSE "unwire"
           s    == PteDeleted(vm, flt[f].pages[l])
           x    == [flt[f] EXCEPT !.level = IF last THEN l ELSE l + 1, !.pages[l] = NoPage]
<1>1. vm.panic = NoPanic /\ pc[f] = "unwire" /\ vm \in VmStates
  BY DEF Unwire, Goto, TypeInv, TypeOK
<1>2. /\ l \in 1 .. Levels /\ \A k \in 1 .. Levels : k >= l => flt[f].pages[k] \in Pages
      /\ flt[f].result = "read" => flt[f].page \in Pages
      /\ flt[f] \in FaultLocals /\ flt[f].result \in {"ok", "again", "read"}
  BY <1>1, FaulterFacts DEF LocalOK
<1>3. s \in VmStates
  <2>1. flt[f].pages[l] \in Pages
    BY <1>2
  <2> QED
    BY <1>1, <2>1, PteDeletedType
<1>4. /\ pc' = [pc EXCEPT ![f] = c] /\ CommitFault(f, s, x)
      /\ disk' = disk /\ target' = target
      /\ vad_lock' \in {f, None} /\ ws_lock' \in {f, None} /\ pfn_lock' \in {f, None}
  BY DEF Unwire, Goto
<1>5. /\ x \in FaultLocals /\ x.result = flt[f].result /\ x.page = flt[f].page
      /\ x.level = (IF last THEN l ELSE l + 1)
      /\ x.pages = [flt[f].pages EXCEPT ![l] = NoPage]
  <2> DEFINE n == IF last THEN l ELSE l + 1
  <2>1. n \in 1 .. Levels + 1 /\ l \in 1 .. Levels
    BY <1>2, VmAssumption
  <2> HIDE DEF n
  <2>2. LET y == [flt[f] EXCEPT !.level = n, !.pages[l] = NoPage]
        IN  /\ y \in FaultLocals /\ y.result = flt[f].result /\ y.page = flt[f].page
            /\ y.level = n /\ y.pages = [flt[f].pages EXCEPT ![l] = NoPage]
    BY <1>2, <2>1 DEF FaultLocals
  <2> QED
    BY <2>2 DEF n
<1> HIDE DEF x, s
<1>6. LocalOK(c, x) /\ c \in PcStates
  <2>1. CASE last
    <3>1. /\ c \in {"access", "sleep", "read"}
          /\ c = "read" => flt[f].result = "read"
      BY <2>1, <1>2 DEF AfterFault
    <3> HIDE DEF c
    <3> QED
      BY <1>2, <1>5, <3>1 DEF LocalOK, PcStates
  <2>2. CASE ~last
    <3>1. x.level = l + 1 /\ l + 1 \in 1 .. Levels
      BY <2>2, <1>2, <1>5, VmAssumption
    <3>2. flt[f].pages \in [1 .. Levels -> Pages \cup {NoPage}]
      BY <1>2 DEF FaultLocals
    <3>3. ASSUME NEW k \in 1 .. Levels, k >= l + 1
          PROVE  x.pages[k] \in Pages
      <4>1. k # l /\ k >= l
        BY <3>3, <1>2, VmAssumption
      <4> QED
        BY <1>2, <1>5, <3>2, <4>1
    <3> QED
      BY <2>2, <1>2, <1>5, <3>1, <3>3 DEF LocalOK, PcStates
  <2> QED
    BY <2>1, <2>2
<1> HIDE DEF c
<1>7. /\ vm' \in VmStates /\ pf' \in PagefileStates
      /\ pc' \in [Threads -> PcStates] /\ flt' \in [Faulters -> FaultLocals]
      /\ wr' \in WriterLocals /\ LocalsOK'
  BY <1>1, <1>3, <1>4, <1>5, <1>6, CommitTypes
<1> QED
  BY <1>4, <1>7, RestTypes

(* The second half of a swap-in keeps the invariant.                       *)
LEMMA FinishReadType ==
  ASSUME TypeInv, NEW f \in Faulters, FinishRead(f)
  PROVE  TypeInv'
<1> DEFINE t == SetPte(vm, flt[f].pte, HwPte(flt[f].page, FALSE))
           s == WslUnlockEntry(t, LeafKey(flt[f].va))
           x == [flt[f] EXCEPT !.page = NoPage, !.pte = NullRef, !.slot = NoSlot]
<1>1. vm.panic = NoPanic /\ pc[f] = "finish" /\ vm \in VmStates
  BY DEF FinishRead, Goto, TypeInv, TypeOK
<1>2. /\ flt[f] \in FaultLocals /\ flt[f].page \in Pages /\ flt[f].pte \in PteAddr
      /\ LeafKey(flt[f].va) \in WsKey
  BY <1>1, FaulterFacts DEF LocalOK
<1>3. t \in VmStates
  <2>1. HwPte(flt[f].page, FALSE) \in Pte
    <3>1. NoSlot \in Nat \cup {NoSlot}
      OBVIOUS
    <3> QED
      BY <1>2, <3>1, PteTypes
  <2> QED
    BY <1>1, <1>2, <2>1, SetPteType
<1>4. /\ pc' = [pc EXCEPT ![f] = "access"] /\ CommitFault(f, s, x)
      /\ disk' = disk /\ target' = target
      /\ vad_lock' = None /\ ws_lock' = None /\ pfn_lock' = pfn_lock
  BY DEF FinishRead, Goto
<1> HIDE DEF t
<1>5. s \in VmStates
  BY <1>2, <1>3, WslUnlockEntryType
<1>6. x \in FaultLocals
  <2>1. NullRef \in PteAddr
    BY ConstantTypes
  <2> QED
    BY <1>2, <2>1 DEF FaultLocals
<1>7. LocalOK("access", x) /\ "access" \in PcStates
  BY DEF LocalOK, PcStates
<1> HIDE DEF s, x
<1>8. /\ vm' \in VmStates /\ pf' \in PagefileStates
      /\ pc' \in [Threads -> PcStates] /\ flt' \in [Faulters -> FaultLocals]
      /\ wr' \in WriterLocals /\ LocalsOK'
  BY <1>1, <1>4, <1>5, <1>6, <1>7, CommitTypes
<1> QED
  BY <1>4, <1>8, RestTypes

-----------------------------------------------------------------------------
(* The page writer and the balancer.                                       *)
LEMMA DaemonTypes ==
  ASSUME TypeInv, vm.panic = NoPanic, NEW th \in {"pgwriter", "balancer"}, NEW c \in PcStates,
         pc' = [pc EXCEPT ![th] = c], flt' = flt, wr' \in WriterLocals,
         vm'.panic = NoPanic =>
           (IF th = "pgwriter" THEN c = "send" => wr'.page \in Pages ELSE wr' = wr)
  PROVE  /\ pc' \in [Threads -> PcStates] /\ flt' \in [Faulters -> FaultLocals]
         /\ LocalsOK'
<1>1. /\ th \in Threads /\ "pgwriter" \in Threads /\ Faulters \subseteq Threads
      /\ th \notin Faulters
  BY VmmAssumption DEF Threads
<1>2. pc' \in [Threads -> PcStates] /\ flt' \in [Faulters -> FaultLocals]
  BY <1>1 DEF TypeInv, TypeOK
<1>3. \A g \in Faulters : LocalOK(pc'[g], flt'[g])
  <2> TAKE g \in Faulters
  <2>1. pc'[g] = pc[g]
    BY <1>1 DEF TypeInv, TypeOK
  <2>2. LocalOK(pc[g], flt[g])
    BY DEF TypeInv, LocalsOK
  <2> QED
    BY <2>1, <2>2
<1>4. vm'.panic = NoPanic /\ pc'["pgwriter"] = "send" => wr'.page \in Pages
  BY <1>1 DEF TypeInv, TypeOK, LocalsOK
<1> QED
  BY <1>2, <1>3, <1>4 DEF LocalsOK

(* A step of the page writer or the balancer that leaves the faulting      *)
(* threads alone keeps what is known of their locals.                      *)
LEMMA DaemonRest ==
  ASSUME TypeInv, vm' \in VmStates, pf' \in PagefileStates, disk' \in [Slots -> Content],
         target' \in Int, pc' \in [Threads -> PcStates],
         flt' \in [Faulters -> FaultLocals], wr' \in WriterLocals, LocalsOK',
         vad_lock' = vad_lock, ws_lock' \in {ws_lock, "balancer", None}, pfn_lock' = pfn_lock
  PROVE  TypeInv'
  BY DEF TypeInv, TypeOK, LockStates, Threads

(* A critical section of one of them.                                      *)
LEMMA DaemonCommit ==
  ASSUME TypeInv, vm.panic = NoPanic, NEW s \in VmStates, NEW wr1, NEW pf1,
         s.panic = NoPanic => wr1 \in WriterLocals, pf1 \in PagefileStates,
         Commit(s, flt, wr1, pf1)
  PROVE  /\ vm' \in VmStates /\ pf' \in PagefileStates /\ wr' \in WriterLocals
         /\ flt' = flt
         /\ vm'.panic = NoPanic => wr' = wr1
<1>1. CASE s.panic = NoPanic
  BY <1>1 DEF Commit
<1>2. CASE s.panic # NoPanic
  <2>1. vm' = [vm EXCEPT !.panic = s.panic] /\ flt' = flt /\ wr' = wr /\ pf' = pf
    BY <1>2 DEF Commit
  <2>2. s.panic \in PanicSite
    BY <1>2, Parts
  <2>3. vm' \in VmStates
    BY <2>1, <2>2, PanicType DEF TypeInv, TypeOK
  <2>4. vm'.panic # NoPanic
    BY <1>2, <2>1 DEF TypeInv, TypeOK, VmStates
  <2> QED
    BY <2>1, <2>3, <2>4 DEF TypeInv, TypeOK
<1> QED
  BY <1>1, <1>2

(* One round of the loop of vmp_pgwriter() keeps the invariant.            *)
LEMMA WriterCollectType ==
  ASSUME TypeInv, WriterCollect
  PROVE  TypeInv'
<1> DEFINE p     == Head(vm.modified)
           isNew == vm.page[p].drumslot = NoSlot
           slot  == IF isNew THEN PagefileSlot(pf) ELSE vm.page[p].drumslot
           s     == CleanPage(vm, p, slot)
           w     == [wr EXCEPT !.page = p, !.slot = slot]
           pf1   == IF isNew THEN PagefileAlloc(pf) ELSE pf
<1>1. /\ vm.panic = NoPanic /\ vm \in VmStates /\ vm.modified # << >>
      /\ pf \in PagefileStates /\ wr \in WriterLocals
  BY Zenon DEF WriterCollect, Goto, TypeInv, TypeOK
<1>2. /\ pc' = [pc EXCEPT !["pgwriter"] = "send"] /\ Commit(s, flt, w, pf1)
      /\ disk' = disk /\ target' = target
      /\ vad_lock' = vad_lock /\ ws_lock' = ws_lock /\ pfn_lock' = pfn_lock
  BY DEF WriterCollect, Goto
<1>3. p \in Pages
  BY <1>1, Parts DEF Queue
<1> HIDE DEF p
<1>4. PagefileSlot(pf) \in Nat \cup {NoSlot} /\ PagefileAlloc(pf) \in PagefileStates
  BY <1>1, PagefileAllocType DEF NoSlot
<1>5. slot \in Nat \cup {NoSlot} /\ pf1 \in PagefileStates
  <2>1. vm.page[p].drumslot \in Nat \cup {NoSlot}
    BY <1>1, <1>3, PagePart
  <2> QED
    BY <1>1, <1>4, <2>1
<1> HIDE DEF isNew, slot, pf1
<1>6. s \in VmStates
  BY <1>1, <1>3, <1>5, CleanPageType
<1>7. w \in WriterLocals /\ w.page \in Pages
  BY <1>1, <1>3, <1>5 DEF WriterLocals
<1> HIDE DEF s, w
<1>8. /\ vm' \in VmStates /\ pf' \in PagefileStates /\ wr' \in WriterLocals
      /\ flt' = flt /\ (vm'.panic = NoPanic => wr' = w)
  BY <1>1, <1>2, <1>5, <1>6, <1>7, DaemonCommit
<1>9. /\ pc' \in [Threads -> PcStates] /\ flt' \in [Faulters -> FaultLocals]
      /\ LocalsOK'
  <2>1. "send" \in PcStates /\ "pgwriter" \in {"pgwriter", "balancer"}
    BY DEF PcStates
  <2>2. vm'.panic = NoPanic => wr'.page \in Pages
    BY <1>7, <1>8
  <2> QED
    BY <1>1, <1>2, <1>8, <2>1, <2>2, DaemonTypes
<1>10. disk' \in [Slots -> Content] /\ target' \in Int
  BY <1>2 DEF TypeInv, TypeOK
<1> QED
  BY <1>2, <1>8, <1>9, <1>10, DaemonRest

(* Setting or clearing an event keeps the type of the state.               *)
LEMMA SetEventType ==
  ASSUME NEW s \in VmStates
  PROVE  /\ [s EXCEPT !.ev.pgwriter = FALSE] \in VmStates
         /\ [s EXCEPT !.ev.balancer = FALSE] \in VmStates
  BY DEF VmStates, Events

(* Every step of vmp_pgwriter() keeps the invariant.                       *)
LEMMA WriterStepType ==
  ASSUME TypeInv, WriterStep
  PROVE  TypeInv'
<1>1. /\ vm.panic = NoPanic /\ vm \in VmStates /\ pf \in PagefileStates /\ wr \in WriterLocals
      /\ disk \in [Slots -> Content] /\ target \in Int
  BY DEF WriterStep, WriterCollect, WriterIdle, WriterSend, WriterRelease, Goto, TypeInv, TypeOK
<1>2. CASE WriterCollect
  BY <1>2, WriterCollectType
<1>3. CASE WriterIdle
  <2>1. PICK c \in {"collect", "drain"} : pc' = [pc EXCEPT !["pgwriter"] = c]
    BY <1>3 DEF WriterIdle, Goto
  <2>2. /\ vm' = [vm EXCEPT !.ev.pgwriter = FALSE]
        /\ pf' = pf /\ disk' = disk /\ flt' = flt /\ wr' = wr /\ target' = target
        /\ vad_lock' = vad_lock /\ ws_lock' = ws_lock /\ pfn_lock' = pfn_lock
    BY <1>3 DEF WriterIdle
  <2>3. vm' \in VmStates
    BY <1>1, <2>2, SetEventType
  <2>4. c \in PcStates /\ c # "send"
    BY DEF PcStates
  <2>5. /\ pc' \in [Threads -> PcStates] /\ flt' \in [Faulters -> FaultLocals]
        /\ LocalsOK'
    BY <1>1, <2>1, <2>2, <2>4, DaemonTypes
  <2> QED
    BY <1>1, <2>2, <2>3, <2>5, DaemonRest
<1>4. CASE WriterSend
  <2>1. PICK c \in {"collect", "drain"} : pc' = [pc EXCEPT !["pgwriter"] = c]
    BY <1>4 DEF WriterSend, Goto
  <2>2. /\ wr' = [iops |-> Append(wr.iops, wr.page), page |-> NoPage, slot |-> NoSlot]
        /\ vm' = vm /\ pf' = pf /\ flt' = flt /\ target' = target
        /\ vad_lock' = vad_lock /\ ws_lock' = ws_lock /\ pfn_lock' = pfn_lock
    BY <1>4 DEF WriterSend
  <2>3. wr.page \in Pages
    BY <1>1, <1>4 DEF WriterSend, Goto, TypeInv, LocalsOK
  <2>4. wr' \in WriterLocals
    <3>1. wr.iops \in Seq(Pages)
      BY <1>1 DEF WriterLocals
    <3>2. Append(wr.iops, wr.page) \in Seq(Pages)
      BY <2>3, <3>1
    <3> QED
      BY <2>2, <3>2 DEF WriterLocals
  <2>5. disk' \in [Slots -> Content]
    <3>1. vm.data[wr.page] \in Content
      BY <1>1, <2>3, Parts DEF Contents
    <3> QED
      BY <1>1, <1>4, <3>1 DEF WriterSend
  <2>6. c \in PcStates /\ c # "send"
    BY DEF PcStates
  <2>7. /\ pc' \in [Threads -> PcStates] /\ flt' \in [Faulters -> FaultLocals]
        /\ LocalsOK'
    BY <1>1, <2>1, <2>2, <2>4, <2>6, DaemonTypes
  <2> QED
    BY <1>1, <2>2, <2>4, <2>5, <2>7, DaemonRest
<1>5. CASE WriterRelease
  <2> DEFINE w == [wr EXCEPT !.iops = Tail(@)]
             s == PageRelease(vm, Head(wr.iops))
  <2>1. PICK c \in {"collect", "drain"} : pc' = [pc EXCEPT !["pgwriter"] = c]
    BY <1>5 DEF WriterRelease, Goto
  <2>2. /\ Commit(s, flt, w, pf) /\ wr.iops # << >>
        /\ disk' = disk /\ target' = target
        /\ vad_lock' = vad_lock /\ ws_lock' = ws_lock /\ pfn_lock' = pfn_lock
    BY <1>5 DEF WriterRelease
  <2>3. wr.iops \in Seq(Pages)
    BY <1>1 DEF WriterLocals
  <2>4. Head(wr.iops) \in Pages /\ Tail(wr.iops) \in Seq(Pages)
    BY <2>2, <2>3
  <2>5. s \in VmStates
    BY <1>1, <2>4, PageReleaseType
  <2>6. w \in WriterLocals
    BY <1>1, <2>4 DEF WriterLocals
  <2> HIDE DEF w, s
  <2>7. /\ vm' \in VmStates /\ pf' \in PagefileStates /\ wr' \in WriterLocals
        /\ flt' = flt
    BY <1>1, <2>2, <2>5, <2>6, DaemonCommit
  <2>8. c \in PcStates /\ c # "send"
    BY DEF PcStates
  <2>9. /\ pc' \in [Threads -> PcStates] /\ flt' \in [Faulters -> FaultLocals]
        /\ LocalsOK'
    BY <1>1, <2>1, <2>7, <2>8, DaemonTypes
  <2> QED
    BY <1>1, <2>2, <2>7, <2>9, DaemonRest
<1> QED
  BY <1>2, <1>3, <1>4, <1>5 DEF WriterStep

(* Every step of vmp_balancer() keeps the invariant.                       *)
LEMMA BalancerStepType ==
  ASSUME TypeInv, BalancerStep
  PROVE  TypeInv'
<1>1. /\ vm.panic = NoPanic /\ vm \in VmStates /\ pf \in PagefileStates /\ wr \in WriterLocals
      /\ disk \in [Slots -> Content] /\ target \in Int
  BY DEF BalancerStep, BalancerWake, BalancerTrim, BalancerUnlock, BalancerCheck, Goto,
         TypeInv, TypeOK
<1>2. PICK c \in {"trim", "check", "wait"} : pc' = [pc EXCEPT !["balancer"] = c]
  BY DEF BalancerStep, BalancerWake, BalancerTrim, BalancerUnlock, BalancerCheck, Goto
<1>3. /\ vm' \in VmStates /\ pf' \in PagefileStates /\ wr' \in WriterLocals /\ flt' = flt
      /\ vm'.panic = NoPanic => wr' = wr
  <2>1. CASE BalancerWake \/ BalancerUnlock
    BY <1>1, <2>1 DEF BalancerWake, BalancerUnlock
  <2>2. CASE BalancerCheck
    BY <1>1, <2>2, SetEventType DEF BalancerCheck
  <2>3. CASE BalancerTrim
    <3>1. WslTrim1(vm) \in VmStates
      BY <1>1, <2>3, WslTrim1Type DEF BalancerTrim
    <3>2. Commit(WslTrim1(vm), flt, wr, pf)
      BY <2>3 DEF BalancerTrim
    <3> QED
      BY <1>1, <3>1, <3>2, DaemonCommit
  <2> QED
    BY <2>1, <2>2, <2>3 DEF BalancerStep
<1>4. /\ disk' = disk /\ target' \in Int
      /\ vad_lock' = vad_lock /\ ws_lock' \in {ws_lock, "balancer", None} /\ pfn_lock' = pfn_lock
  <2>1. CASE BalancerWake
    BY <2>1, VmAssumption DEF BalancerWake
  <2>2. CASE BalancerTrim
    BY <1>1, <2>2 DEF BalancerTrim
  <2>3. CASE BalancerUnlock
    BY <2>3 DEF BalancerUnlock
  <2>4. CASE BalancerCheck
    BY <1>1, <2>4 DEF BalancerCheck
  <2> QED
    BY <2>1, <2>2, <2>3, <2>4 DEF BalancerStep
<1>5. c \in PcStates /\ "balancer" # "pgwriter" /\ "balancer" \in {"pgwriter", "balancer"}
  BY DEF PcStates
<1>6. /\ pc' \in [Threads -> PcStates] /\ flt' \in [Faulters -> FaultLocals]
      /\ LocalsOK'
  BY <1>1, <1>2, <1>3, <1>5, DaemonTypes
<1> QED
  BY <1>1, <1>3, <1>4, <1>6, DaemonRest

-----------------------------------------------------------------------------
(* The state main() starts the threads in.                                 *)
LEMMA InitType == Init => TypeInv
<1> SUFFICES ASSUME Init PROVE TypeInv
  OBVIOUS
<1>1. vm \in VmStates
  <2>1. vm = VmInit
    BY DEF Init
  <2>2. TableUse[Levels] \in PageUse
    <3>1. Levels \in {2, 3, 4}
      BY VmAssumption
    <3> QED
      BY <3>1 DEF TableUse, PageUse
  <2>3. VmInit.page \in PageDb
    BY <2>2, ConstantTypes DEF VmInit, PageDb, PageRec, PageUse
  <2>4. VmInit.free \in Queue
    <3>1. NPages - 1 \in Nat /\ \A i \in 1 .. NPages - 1 : i \in Pages
      BY VmAssumption DEF Pages
    <3> QED
      BY <3>1 DEF VmInit, Queue
  <2>5. VmInit.standby \in Queue /\ VmInit.modified \in Queue
    BY DEF VmInit, Queue
  <2>6. VmInit.stat \in Stats
    BY VmAssumption DEF VmInit, Stats
  <2>7. VmInit.ev \in Events /\ VmInit.wasShortage \in BOOLEAN
    BY DEF VmInit, Events
  <2>8. VmInit.table \in TableMem
    <3>1. ZeroPte \in Pte
      BY ConstantTypes DEF Pte, PteKind, ZeroPte
    <3> QED
      BY <3>1 DEF VmInit, TableMem
  <2>9. VmInit.data \in Contents
    BY DEF VmInit, Contents, Content
  <2>10. VmInit.wsl \in WsList /\ VmInit.panic = NoPanic
    BY VmAssumption DEF VmInit, WsList
  <2>11. VmInit = [page |-> VmInit.page, free |-> VmInit.free, standby |-> VmInit.standby,
                   modified |-> VmInit.modified, stat |-> VmInit.stat,
                   wasShortage |-> VmInit.wasShortage, ev |-> VmInit.ev,
                   table |-> VmInit.table, data |-> VmInit.data, wsl |-> VmInit.wsl,
                   panic |-> VmInit.panic]
    BY DEF VmInit
  <2> QED
    BY <2>1, <2>3, <2>4, <2>5, <2>6, <2>7, <2>8, <2>9, <2>10, <2>11 DEF VmStates
<1>2. pf \in PagefileStates /\ disk \in [Slots -> Content]
  BY PagefileInitSound DEF Init, Content
<1>3. pc \in [Threads -> PcStates]
  BY DEF Init, PcStates
<1>4. flt \in [Faulters -> FaultLocals]
  BY NoFaultType DEF Init
<1>5. wr \in WriterLocals /\ target \in Int
  BY DEF Init, NoWrite, WriterLocals
<1>6. LocalsOK
  <2>1. \A f \in Faulters : LocalOK(pc[f], flt[f])
    BY DEF Init, LocalOK, Threads
  <2>2. pc["pgwriter"] # "send"
    BY VmmAssumption DEF Init, Threads
  <2> QED
    BY <2>1, <2>2 DEF LocalsOK
<1> QED
  BY <1>1, <1>2, <1>3, <1>4, <1>5, <1>6 DEF Init, TypeInv, TypeOK, LockStates

(* Every step of the simulator keeps the invariant.                        *)
LEMMA NextType == TypeInv /\ [Next]_vars => TypeInv'
<1> SUFFICES ASSUME TypeInv, [Next]_vars PROVE TypeInv'
  OBVIOUS
<1>1. CASE \E f \in Faulters, va \in VAddrs, write \in Writes : Pick(f, va, write)
  BY <1>1, PickType
<1>2. ASSUME NEW f \in Faulters, FaulterStep(f)
      PROVE  TypeInv'
  BY <1>2, AccessStepType, TranslateType, LockWsType, WireRootType, WireLevelType,
     ValidLeafType, DemandZeroType, TransFaultType, SwapFaultType, UnwireType,
     SendReadType, FinishReadType DEF FaulterStep
<1>3. CASE WriterStep
  BY <1>3, WriterStepType
<1>4. CASE BalancerStep
  BY <1>4, BalancerStepType
<1>5. CASE Halted \/ UNCHANGED vars
  BY <1>5 DEF Halted, vars, TypeInv, TypeOK, LocalsOK
<1> QED
  BY <1>1, <1>2, <1>3, <1>4, <1>5 DEF Next

(* Every reachable state is well typed, whatever the sizes: the indexes    *)
(* vmp_wire_pte() and do_fault() take from the wire state and the swap-in  *)
(* are pages, reference counts do not go below zero, and a PTE holds the   *)
(* number of a page or of a slot.                                          *)
THEOREM TypeCorrect == Spec => []TypeOK
<1>1. TypeInv => TypeOK
  BY DEF TypeInv
<1> QED
  BY <1>1, InitType, NextType, PTL DEF Spec
-----------------------------------------------------------------------------
(* Only cluster_anon() asks for a slot; every other step leaves the paging *)
(* file alone.                                                             *)
LEMMA OnlyWriterAllocates ==
  ASSUME Next, ~WriterCollect
  PROVE  pf' = pf
<1>1. ASSUME NEW f \in Faulters, NEW va \in VAddrs, NEW write \in Writes, Pick(f, va, write)
      PROVE  pf' = pf
  BY <1>1 DEF Pick
<1>2. ASSUME NEW f \in Faulters, FaulterStep(f)
      PROVE  pf' = pf
  <2>1. CASE AccessHit(f) \/ AccessFault(f) \/ Translate(f) \/ LockVad(f) \/ LockWs(f)
               \/ Awake(f) \/ SendRead(f) \/ RelockVad(f) \/ RelockWs(f)
    BY <2>1, ZenonT(60) DEF AccessHit, AccessFault, Translate, LockVad, LockWs, Awake, SendRead,
                RelockVad, RelockWs
  <2>2. CASE WireRoot(f) \/ WireLevel(f) \/ Unwire(f) \/ FinishRead(f)
    BY <2>2, Zenon DEF WireRoot, WireLevel, Unwire, FinishRead, CommitFault, Commit
  <2>3. ASSUME NEW s, NEW x, Handled(f, s, x)
        PROVE  pf' = pf
    BY <2>3 DEF Handled, CommitFault, Commit
  <2>4. CASE MakeWriteable(f) \/ ValidFault(f) \/ DemandZero(f) \/ AllocFails(f)
               \/ TransFault(f) \/ SwapFault(f) \/ BusyFault(f)
    BY <2>3, <2>4 DEF MakeWriteable, ValidFault, DemandZero, AllocFails, TransFault,
                      SwapFault, BusyFault
  <2> QED
    BY <1>2, <2>1, <2>2, <2>4, Zenon DEF FaulterStep
<1>3. CASE WriterStep
  BY <1>3 DEF WriterStep, WriterIdle, WriterSend, WriterRelease, Commit
<1>4. CASE BalancerStep
  BY <1>4 DEF BalancerStep, BalancerWake, BalancerTrim, BalancerUnlock, BalancerCheck, Commit
<1>5. CASE Halted
  BY <1>5 DEF Halted, vars
<1> QED
  BY <1>1, <1>2, <1>3, <1>4, <1>5 DEF Next

(* Every step counts the slots that are left.                              *)
LEMMA NextSlotCount ==
  TypeInv /\ SlotCountExact /\ [Next]_vars => SlotCountExact'
<1> SUFFICES ASSUME TypeInv, SlotCountExact, [Next]_vars PROVE SlotCountExact'
  OBVIOUS
<1>1. pf' = pf \/ pf' = PagefileAlloc(pf)
  <2>1. CASE WriterCollect
    BY <2>1 DEF WriterCollect, Commit
  <2>2. CASE ~WriterCollect /\ Next
    BY <2>2, OnlyWriterAllocates
  <2>3. CASE UNCHANGED vars
    BY <2>3 DEF vars
  <2> QED
    BY <2>1, <2>2, <2>3
<1>2. FreeSlotsExact(pf) /\ FreeSlotsExact(PagefileAlloc(pf))
  <2>1. pf \in PagefileStates /\ FreeSlotsExact(pf)
    BY DEF TypeInv, TypeOK, SlotCountExact, FreeSlotsExact
  <2> QED
    BY <2>1, PagefileAllocExact
<1>3. FreeSlotsExact(pf')
  BY <1>1, <1>2
<1> QED
  BY <1>3 DEF SlotCountExact, FreeSlotsExact

(* At first all are left.                                                  *)
LEMMA InitSlotCount == Init => SlotCountExact
BY PagefileInitSound DEF Init, SlotCountExact, FreeSlotsExact

(* free_slots is the number of clear bits of the bitmap in every reachable *)
(* state, however the page writer is interleaved with the faults: with     *)
(* AllocFailsOnlyWhenFull, cluster_anon() gets -1 only when no slot is     *)
(* left.                                                                   *)
THEOREM SlotsCounted == Spec => []SlotCountExact
BY InitSlotCount, NextSlotCount, InitType, NextType, PTL DEF Spec

-----------------------------------------------------------------------------
(* The critical sections of vmp_pfn_lock, but for that of the page writer  *)
(* that asks for a slot, which WriterCollect states.                       *)
TableUses == {"PML1", "PML2", "PML3", "PML4"}

(* A demand-zero fault on the PTE at ref, whose address has the key k.     *)
ZeroFill(s, ref, k, w) ==
  LET p == AllocatedPage(s)
      t == SetPte(PageAlloc(s, "AnonPrivate"), ref, HwPte(p, w))
      u == WslInsert(NonswapPteCreated(t, ref[1], TRUE), k, FALSE)
  IN  SetReferent(u, p, ref)

(* The first half of a swap-in through the PTE at ref.                     *)
StartRead(s, ref, k) ==
  LET p == AllocatedPage(s)
      t == SetReferent(PageAlloc(s, "AnonPrivate"), p, ref)
      u == NonswapPteCreated(SetPte(t, ref, BusyPte), ref[1], FALSE)
  IN  WslInsert(u, k, TRUE)

(* Page p is mapped again by the transition PTE at ref.                    *)
Reclaim(s, ref, k, p) ==
  WslInsert(SetPte(PageRetain(s, p), ref, HwPte(p, FALSE)), k, FALSE)

Section(s, t) ==
  \/ t = s
  \/ \E p \in Pages : t = NonswapPteCreated(s, p, TRUE)
  \/ \E dir \in Pages, i \in Idx, use \in TableUses : t = WireTable(s, dir, i, use)
  \/ \E ref \in PteAddr, p \in Pages, w \in BOOLEAN : t = SetPte(s, ref, HwPte(p, w))
  \/ t = PageAlloc(s, "AnonPrivate")
  \/ t = Kfatal(s, "fault.c:170")
  \/ \E ref \in PteAddr, k \in WsKey, w \in BOOLEAN : CanAlloc(s) /\ t = ZeroFill(s, ref, k, w)
  \/ \E ref \in PteAddr, k \in WsKey : CanAlloc(s) /\ t = StartRead(s, ref, k)
  \/ \E ref \in PteAddr, k \in WsKey, p \in Pages : t = Reclaim(s, ref, k, p)
  \/ \E ref \in PteAddr, k \in WsKey, p \in Pages :
       t = WslUnlockEntry(SetPte(s, ref, HwPte(p, FALSE)), k)
  \/ \E p \in Pages : t = PteDeleted(s, p)
  \/ \E p \in Pages : t = PageRelease(s, p)
  \/ s.wsl.queue # << >> /\ t = WslTrim1(s)

(* All but the contents of pages, the events and panic stay as they are.   *)
Quiet ==
  /\ vm'.page = vm.page /\ vm'.table = vm.table /\ vm'.wsl = vm.wsl
  /\ vm'.free = vm.free /\ vm'.standby = vm.standby /\ vm'.modified = vm.modified
  /\ vm'.stat = vm.stat

(* A panic inside a section leaves the rest of the state as it was.        *)
LEMMA CommitShape ==
  ASSUME vm \in VmStates, NEW s, NEW a, NEW b, NEW c, Commit(s, a, b, c)
  PROVE  \/ Quiet /\ pf' = pf
         \/ vm' = s /\ s.panic = NoPanic /\ pf' = c
<1>1. CASE s.panic = NoPanic
  BY <1>1 DEF Commit
<1>2. CASE s.panic # NoPanic
  BY <1>2 DEF Commit, Quiet, VmStates
<1> QED
  BY <1>1, <1>2

(* The same for a section of a faulting thread.                            *)
LEMMA FaultShape ==
  ASSUME vm \in VmStates, NEW f, NEW s, NEW x, CommitFault(f, s, x), Section(vm, s)
  PROVE  pf' = pf /\ (Quiet \/ (vm'.panic = NoPanic /\ Section(vm, vm')))
<1>1. \/ Quiet /\ pf' = pf
      \/ vm' = s /\ s.panic = NoPanic /\ pf' = pf
  BY CommitShape DEF CommitFault
<1> QED
  BY <1>1

(* do_fault() on the leaf PTE runs one of the sections.                    *)
LEMMA LeafShape ==
  ASSUME TypeInv, NEW f \in Faulters,
         \/ MakeWriteable(f) \/ ValidFault(f) \/ DemandZero(f) \/ AllocFails(f)
         \/ TransFault(f) \/ SwapFault(f) \/ BusyFault(f)
  PROVE  pf' = pf /\ (Quiet \/ (vm'.panic = NoPanic /\ Section(vm, vm')))
<1> DEFINE ref == FaultPteAddr(f)
           k   == LeafKey(flt[f].va)
           q   == FaultPte(f).page
<1>1. vm.panic = NoPanic /\ pc[f] = "fault" /\ vm \in VmStates
  BY DEF MakeWriteable, ValidFault, DemandZero, AllocFails, TransFault, SwapFault, BusyFault,
         FaultsOn, TypeInv, TypeOK
<1>2. /\ ref \in PteAddr /\ q \in Pages /\ k \in WsKey /\ flt[f].write \in BOOLEAN
      /\ ref[1] = flt[f].pages[1]
  BY <1>1, LeafFacts, FaulterFacts DEF FaultPteAddr
<1>3. ASSUME NEW s, NEW x, Handled(f, s, x), Section(vm, s)
      PROVE  pf' = pf /\ (Quiet \/ (vm'.panic = NoPanic /\ Section(vm, vm')))
  BY <1>1, <1>3, FaultShape DEF Handled
<1>4. CASE MakeWriteable(f)
  <2>1. Section(vm, SetPte(vm, ref, HwPte(q, TRUE)))
    BY <1>2 DEF Section
  <2> QED
    BY <1>3, <1>4, <2>1 DEF MakeWriteable
<1>5. CASE ValidFault(f)
  <2>1. Section(vm, vm)
    BY DEF Section
  <2> QED
    BY <1>3, <1>5, <2>1 DEF ValidFault
<1>6. CASE DemandZero(f)
  <2>1. Section(vm, ZeroFill(vm, ref, k, flt[f].write))
    BY <1>2, <1>6 DEF Section, DemandZero
  <2>2. Handled(f, ZeroFill(vm, ref, k, flt[f].write), Result(f, "ok"))
    BY <1>2, <1>6 DEF DemandZero, ZeroFill
  <2> QED
    BY <1>3, <2>1, <2>2
<1>7. CASE AllocFails(f)
  <2>1. Section(vm, PageAlloc(vm, "AnonPrivate"))
    BY DEF Section
  <2> QED
    BY <1>3, <1>7, <2>1 DEF AllocFails
<1>8. CASE TransFault(f)
  <2>1. Section(vm, Reclaim(vm, ref, k, q))
    BY <1>2 DEF Section
  <2>2. Handled(f, Reclaim(vm, ref, k, q), Result(f, "ok"))
    BY <1>8 DEF TransFault, Reclaim
  <2> QED
    BY <1>3, <2>1, <2>2
<1>9. CASE SwapFault(f)
  <2>1. Section(vm, StartRead(vm, ref, k))
    BY <1>2, <1>9 DEF Section, SwapFault
  <2>2. PICK x : Handled(f, StartRead(vm, ref, k), x)
    BY <1>2, <1>9 DEF SwapFault, StartRead
  <2> QED
    BY <1>3, <2>1, <2>2
<1>10. CASE BusyFault(f)
  <2>1. Section(vm, Kfatal(vm, "fault.c:170"))
    BY DEF Section
  <2> QED
    BY <1>3, <1>10, <2>1 DEF BusyFault
<1> QED
  BY <1>4, <1>5, <1>6, <1>7, <1>8, <1>9, <1>10

(* Every step is quiet or runs one of the sections.                        *)
LEMMA StepShape ==
  ASSUME TypeInv, [Next]_vars
  PROVE  \/ WriterCollect
         \/ pf' = pf /\ (Quiet \/ (vm'.panic = NoPanic /\ Section(vm, vm')))
<1>1. vm \in VmStates
  BY DEF TypeInv, TypeOK
<1>2. ASSUME vm' = vm, pf' = pf
      PROVE  pf' = pf /\ Quiet
  BY <1>2 DEF Quiet
<1>3. ASSUME NEW f \in Faulters, NEW va \in VAddrs, NEW write \in Writes, Pick(f, va, write)
      PROVE  pf' = pf /\ Quiet
  BY <1>2, <1>3 DEF Pick
<1>4. ASSUME NEW f \in Faulters, FaulterStep(f)
      PROVE  pf' = pf /\ (Quiet \/ (vm'.panic = NoPanic /\ Section(vm, vm')))
  <2>1. CASE AccessHit(f) \/ AccessFault(f) \/ LockVad(f) \/ LockWs(f) \/ Awake(f)
               \/ RelockVad(f) \/ RelockWs(f)
    BY <1>2, <2>1 DEF AccessHit, AccessFault, LockVad, LockWs, Awake, RelockVad, RelockWs
  <2>2. CASE Translate(f) \/ SendRead(f)
    <3>1. pf' = pf /\ (vm' = vm \/ \E q, d : vm' = [vm EXCEPT !.data[q] = d])
      <4>1. CASE Translate(f)
        BY <4>1 DEF Translate
      <4>2. CASE SendRead(f)
        BY <4>2 DEF SendRead
      <4> QED
        BY <2>2, <4>1, <4>2, Zenon
    <3> QED
      BY <1>1, <3>1 DEF Quiet, VmStates
  <2>3. CASE WireRoot(f)
    <3>1. Section(vm, NonswapPteCreated(vm, Root, TRUE))
      BY ConstantTypes, ZenonT(60) DEF Section, Root
    <3> QED
      BY <1>1, <2>3, <3>1, FaultShape DEF WireRoot
  <2>4. CASE WireLevel(f)
    <3> DEFINE l   == flt[f].level
               dir == flt[f].pages[l]
               i   == flt[f].va[l]
    <3>1. vm.panic = NoPanic /\ pc[f] = "wire" /\ l \in 2 .. Levels
      BY <2>4, Zenon DEF WireLevel, Goto
    <3>2. dir \in Pages /\ i \in Idx
      BY <3>1, VmAssumption, FaulterFacts DEF LocalOK
    <3>3. TableUse[l - 1] \in TableUses
      <4>1. l - 1 \in {1, 2, 3}
        BY <3>1, VmAssumption
      <4> QED
        BY <4>1 DEF TableUse, TableUses
    <3>4. Section(vm, WireTable(vm, dir, i, TableUse[l - 1]))
      BY <3>2, <3>3 DEF Section
    <3> QED
      BY <1>1, <2>4, <3>4, FaultShape, Zenon DEF WireLevel
  <2>5. CASE \/ MakeWriteable(f) \/ ValidFault(f) \/ DemandZero(f) \/ AllocFails(f)
             \/ TransFault(f) \/ SwapFault(f) \/ BusyFault(f)
    BY <2>5, LeafShape
  <2>6. CASE Unwire(f)
    <3>1. vm.panic = NoPanic /\ pc[f] = "unwire"
      BY <2>6 DEF Unwire, Goto
    <3>2. flt[f].pages[flt[f].level] \in Pages
      <4>1. flt[f].level \in 1 .. Levels /\ flt[f].level >= flt[f].level
        BY <3>1, VmAssumption, FaulterFacts DEF LocalOK
      <4> QED
        BY <3>1, <4>1, FaulterFacts DEF LocalOK
    <3>3. Section(vm, PteDeleted(vm, flt[f].pages[flt[f].level]))
      BY <3>2 DEF Section
    <3> QED
      BY <1>1, <2>6, <3>3, FaultShape DEF Unwire
  <2>7. CASE FinishRead(f)
    <3>1. vm.panic = NoPanic /\ pc[f] = "finish"
      BY <2>7 DEF FinishRead, Goto
    <3>2. /\ flt[f].page \in Pages /\ flt[f].pte \in PteAddr /\ LeafKey(flt[f].va) \in WsKey
      BY <3>1, FaulterFacts DEF LocalOK
    <3>3. Section(vm, WslUnlockEntry(SetPte(vm, flt[f].pte, HwPte(flt[f].page, FALSE)),
                                     LeafKey(flt[f].va)))
      BY <3>2 DEF Section
    <3> QED
      BY <1>1, <2>7, <3>3, FaultShape DEF FinishRead
  <2> QED
    BY <1>4, <2>1, <2>2, <2>3, <2>4, <2>5, <2>6, <2>7 DEF FaulterStep
<1>5. CASE WriterIdle \/ WriterSend
  <2>1. pf' = pf /\ (vm' = vm \/ vm' = [vm EXCEPT !.ev.pgwriter = FALSE])
    BY <1>5 DEF WriterIdle, WriterSend
  <2> QED
    BY <1>1, <2>1 DEF Quiet, VmStates
<1>6. CASE WriterRelease
  <2>1. wr.iops \in Seq(Pages) /\ wr.iops # << >>
    BY <1>6 DEF WriterRelease, TypeInv, TypeOK, WriterLocals
  <2>2. Section(vm, PageRelease(vm, Head(wr.iops)))
    <3>1. Head(wr.iops) \in Pages
      BY <2>1
    <3> QED
      BY <3>1 DEF Section
  <2>3. \/ Quiet /\ pf' = pf
        \/ vm' = PageRelease(vm, Head(wr.iops)) /\ vm'.panic = NoPanic /\ pf' = pf
    BY <1>1, <1>6, CommitShape DEF WriterRelease
  <2> QED
    BY <2>2, <2>3
<1>7. CASE BalancerStep
  <2>1. CASE BalancerWake \/ BalancerUnlock \/ BalancerCheck
    <3>1. pf' = pf /\ (vm' = vm \/ vm' = [vm EXCEPT !.ev.balancer = FALSE])
      BY <2>1 DEF BalancerWake, BalancerUnlock, BalancerCheck
    <3> QED
      BY <1>1, <3>1 DEF Quiet, VmStates
  <2>2. CASE BalancerTrim
    <3>1. Section(vm, WslTrim1(vm))
      BY <2>2 DEF Section, BalancerTrim
    <3>2. \/ Quiet /\ pf' = pf
          \/ vm' = WslTrim1(vm) /\ vm'.panic = NoPanic /\ pf' = pf
      BY <1>1, <2>2, CommitShape DEF BalancerTrim
    <3> QED
      BY <3>1, <3>2
  <2> QED
    BY <1>7, <2>1, <2>2 DEF BalancerStep
<1>8. CASE Halted \/ UNCHANGED vars
  BY <1>2, <1>8 DEF Halted, vars
<1> QED
  BY <1>3, <1>4, <1>5, <1>6, <1>7, <1>8 DEF Next, WriterStep

-----------------------------------------------------------------------------
(***************************************************************************)
(* The queues: every page is on exactly the queue that its use, reference  *)
(* count and dirty bit name, and vmstat counts the queues, whatever the    *)
(* number of pages, page tables and threads.                               *)
(***************************************************************************)

(* Queue q lists the elements of S, each of them once.                     *)
Lists(q, S) ==
  /\ \A i \in 1 .. Len(q) : q[i] \in S
  /\ \A x \in S : \E i \in 1 .. Len(q) : q[i] = x
  /\ \A i, j \in 1 .. Len(q) : q[i] = q[j] => i = j

(* A queue that lists a set has its elements and its length.               *)
LEMMA ListsDistinct ==
  ASSUME NEW T, NEW q \in Seq(T), NEW S, Lists(q, S)
  PROVE  Elements(q) = S /\ Distinct(q) /\ Cardinality(S) = Len(q) /\ IsFiniteSet(S)
<1>1. Len(q) \in Nat /\ q \in [1 .. Len(q) -> T]
  BY LenProperties
<1>2. Elements(q) = S
  BY DEF Lists, Elements
<1>3. q \in Bijection(1 .. Len(q), S)
  BY <1>1 DEF Lists, Bijection, Injection, Surjection, IsInjective
<1>4. ExistsBijection(1 .. Len(q), S)
  BY <1>3 DEF ExistsBijection
<1>5. Cardinality(S) = Len(q)
  BY <1>1, <1>4, FS_CountingElements
<1>6. IsFiniteSet(S)
  BY <1>1, <1>4, FS_NatBijection
<1> QED
  BY <1>2, <1>5, <1>6 DEF Distinct

(* TAILQ_INSERT_TAIL of an element that is not on the queue.               *)
LEMMA ListsAppend ==
  ASSUME NEW T, NEW q \in Seq(T), NEW S, Lists(q, S), NEW x \in T, x \notin S
  PROVE  Lists(Append(q, x), S \cup {x})
<1> DEFINE r == Append(q, x)
<1>1. /\ Len(q) \in Nat /\ Len(r) = Len(q) + 1
      /\ \A i \in 1 .. Len(q) : r[i] = q[i]
      /\ r[Len(q) + 1] = x
  BY AppendProperties
<1> HIDE DEF r
<1>2. \A i \in 1 .. Len(r) : i \in 1 .. Len(q) \/ i = Len(q) + 1
  BY <1>1
<1>3. \A i \in 1 .. Len(q) : i \in 1 .. Len(r)
  BY <1>1
<1>4. Len(q) + 1 \in 1 .. Len(r)
  BY <1>1
<1>5. Lists(r, S \cup {x})
  BY <1>1, <1>2, <1>3, <1>4 DEF Lists
<1> QED
  BY <1>5 DEF r

(* TAILQ_INSERT_HEAD of an element that is not on the queue.               *)
LEMMA ListsPush ==
  ASSUME NEW T, NEW q \in Seq(T), NEW S, Lists(q, S), NEW x \in T, x \notin S
  PROVE  Lists(<< x >> \o q, S \cup {x})
<1> DEFINE r == << x >> \o q
<1>1. /\ Len(q) \in Nat /\ Len(r) = Len(q) + 1
      /\ \A i \in 1 .. Len(q) + 1 : r[i] = IF i = 1 THEN x ELSE q[i - 1]
  <2>1. << x >> \in Seq(T) /\ Len(<< x >>) = 1 /\ Len(q) \in Nat
    OBVIOUS
  <2>2. /\ Len(r) = 1 + Len(q)
        /\ \A i \in 1 .. 1 + Len(q) : r[i] = IF i <= 1 THEN << x >>[i] ELSE q[i - 1]
    BY <2>1, ConcatProperties
  <2> QED
    BY <2>1, <2>2
<1> HIDE DEF r
<1>2. \A i \in 1 .. Len(r) : i = 1 \/ i - 1 \in 1 .. Len(q)
  BY <1>1
<1>3. \A i \in 1 .. Len(q) : i + 1 \in 1 .. Len(r) /\ (i + 1) - 1 = i /\ i + 1 # 1
  BY <1>1
<1>4. 1 \in 1 .. Len(r)
  BY <1>1
<1>5. \A y \in S \cup {x} : \E i \in 1 .. Len(r) : r[i] = y
  <2>1. ASSUME NEW y \in S PROVE \E i \in 1 .. Len(r) : r[i] = y
    <3>1. PICK i \in 1 .. Len(q) : q[i] = y
      BY DEF Lists
    <3>2. i + 1 \in 1 .. Len(r) /\ r[i + 1] = y
      BY <1>1, <1>3, <3>1
    <3> QED
      BY <3>2
  <2> QED
    BY <1>1, <1>4, <2>1
<1>6. \A i \in 1 .. Len(r) : r[i] \in S \cup {x}
  BY <1>1, <1>2 DEF Lists
<1>7. \A i, j \in 1 .. Len(r) : r[i] = r[j] => i = j
  <2> TAKE i \in 1 .. Len(r), j \in 1 .. Len(r)
  <2> HAVE r[i] = r[j]
  <2>1. CASE i # 1 /\ j # 1
    <3>1. q[i - 1] = q[j - 1] /\ i - 1 \in 1 .. Len(q) /\ j - 1 \in 1 .. Len(q)
      BY <1>1, <1>2, <2>1
    <3>2. i - 1 = j - 1
      BY <3>1 DEF Lists
    <3> QED
      BY <3>2
  <2>2. CASE i = 1 \/ j = 1
    BY <1>1, <1>2, <2>2 DEF Lists
  <2> QED
    BY <2>1, <2>2
<1> QED
  BY <1>5, <1>6, <1>7 DEF Lists, r

(* TAILQ_REMOVE.                                                           *)
LEMMA ListsUnlink ==
  ASSUME NEW T, NEW q \in Seq(T), NEW S, Lists(q, S), NEW x, Contains(q, x)
  PROVE  x \in S /\ Lists(Unlink(q, x), S \ {x})
<1> DEFINE r == Unlink(q, x)
<1>1. \E i \in 1 .. Len(q) :
        /\ q[i] = x
        /\ \A j \in 1 .. Len(q) - 1 :
             Unlink(q, x)[j] = IF j < i THEN q[j] ELSE q[j + 1]
  BY UnlinkProperties, SMTT(30)
<1>2. PICK k \in 1 .. Len(q) :
        /\ q[k] = x
        /\ \A j \in 1 .. Len(q) - 1 : r[j] = IF j < k THEN q[j] ELSE q[j + 1]
  BY <1>1, Zenon
<1>3. Len(q) \in Nat /\ Len(r) = Len(q) - 1
  BY UnlinkProperties
<1> HIDE DEF r
<1> DEFINE g(j) == IF j < k THEN j ELSE j + 1
<1>4. \A j \in 1 .. Len(r) : g(j) \in 1 .. Len(q) /\ g(j) # k /\ r[j] = q[g(j)]
  BY <1>2, <1>3
<1>5. \A i \in 1 .. Len(q) : i # k => \E j \in 1 .. Len(r) : g(j) = i
  <2> SUFFICES ASSUME NEW i \in 1 .. Len(q), i # k PROVE \E j \in 1 .. Len(r) : g(j) = i
    OBVIOUS
  <2>1. CASE i < k
    BY <1>3, <2>1
  <2>2. CASE i > k
    <3>1. i - 1 \in 1 .. Len(r) /\ g(i - 1) = i
      BY <1>3, <2>2
    <3> QED
      BY <3>1
  <2> QED
    BY <2>1, <2>2
<1>6. \A i, j \in 1 .. Len(r) : g(i) = g(j) => i = j
  BY <1>3
<1> HIDE DEF g
<1>7. Lists(r, S \ {x})
  <2>1. \A i \in 1 .. Len(r) : r[i] \in S \ {x}
    BY <1>2, <1>4 DEF Lists
  <2>2. \A y \in S \ {x} : \E j \in 1 .. Len(r) : r[j] = y
    <3> TAKE y \in S \ {x}
    <3>1. PICK i \in 1 .. Len(q) : q[i] = y
      BY DEF Lists
    <3>2. PICK j \in 1 .. Len(r) : g(j) = i
      BY <1>2, <1>5, <3>1
    <3> QED
      BY <1>4, <3>1, <3>2
  <2>3. \A i, j \in 1 .. Len(r) : r[i] = r[j] => i = j
    <3> TAKE i \in 1 .. Len(r), j \in 1 .. Len(r)
    <3> HAVE r[i] = r[j]
    <3>1. g(i) = g(j)
      BY <1>4 DEF Lists
    <3> QED
      BY <1>6, <3>1
  <2> QED
    BY <2>1, <2>2, <2>3 DEF Lists
<1> QED
  BY <1>2, <1>7 DEF Lists, r

(* TAILQ_FIRST and its removal.                                            *)
LEMMA ListsTail ==
  ASSUME NEW T, NEW q \in Seq(T), NEW S, Lists(q, S), q # << >>
  PROVE  /\ Head(q) \in S /\ Lists(Tail(q), S \ {Head(q)})
         /\ Tail(q) \in Seq(T) /\ Len(Tail(q)) = Len(q) - 1
<1> DEFINE r == Tail(q)
<1>1. /\ Len(q) \in Nat \ {0} /\ r \in Seq(T) /\ Len(r) = Len(q) - 1
      /\ \A i \in 1 .. Len(r) : r[i] = q[i + 1]
      /\ Head(q) = q[1]
  BY HeadTailProperties, EmptySeq
<1> HIDE DEF r
<1>2. \A i \in 1 .. Len(r) : i + 1 \in 1 .. Len(q) /\ i + 1 # 1
  BY <1>1
<1>3. \A y \in S \ {q[1]} : \E j \in 1 .. Len(r) : r[j] = y
  <2> TAKE y \in S \ {q[1]}
  <2>1. PICK i \in 1 .. Len(q) : q[i] = y
    BY DEF Lists
  <2>2. i - 1 \in 1 .. Len(r) /\ (i - 1) + 1 = i
    BY <1>1, <2>1
  <2> QED
    BY <1>1, <2>1, <2>2
<1>4. \A i \in 1 .. Len(r) : r[i] \in S \ {q[1]}
  <2> TAKE i \in 1 .. Len(r)
  <2>1. r[i] = q[i + 1] /\ i + 1 \in 1 .. Len(q) /\ 1 \in 1 .. Len(q) /\ i + 1 # 1
    BY <1>1, <1>2
  <2>2. q[i + 1] \in S /\ q[i + 1] # q[1]
    BY <2>1 DEF Lists
  <2> QED
    BY <2>1, <2>2
<1>5. \A i, j \in 1 .. Len(r) : r[i] = r[j] => i = j
  <2> TAKE i \in 1 .. Len(r), j \in 1 .. Len(r)
  <2> HAVE r[i] = r[j]
  <2>1. i + 1 = j + 1
    BY <1>1, <1>2 DEF Lists
  <2> QED
    BY <1>1, <2>1
<1> QED
  BY <1>1, <1>3, <1>4, <1>5 DEF Lists, r

-----------------------------------------------------------------------------
FreeSet(s)     == {p \in Pages : s.page[p].use = "Free"}
StandbySet(s)  == {p \in Pages : /\ s.page[p].use = "AnonPrivate"
                                 /\ s.page[p].refcnt = 0 /\ ~s.page[p].dirty}
ModifiedSet(s) == {p \in Pages : /\ s.page[p].use = "AnonPrivate"
                                 /\ s.page[p].refcnt = 0 /\ s.page[p].dirty}
ActiveSet(s)   == {p \in Pages : s.page[p].refcnt > 0}

(* steal_page() takes the page h off the standby queue some time before it *)
(* gives it to its new owner and lowers the count; h is NoPage otherwise.  *)
Hole(h) == IF h \in Pages THEN 1 ELSE 0

(* The queues hold what they should, but for h, and vmstat counts it.      *)
Placed(s, h) ==
  /\ Lists(s.free, FreeSet(s))
  /\ Lists(s.standby, StandbySet(s) \ {h})
  /\ Lists(s.modified, ModifiedSet(s))
  /\ \A p \in Pages : s.page[p].refcnt = 0 => s.page[p].use \in {"AnonPrivate", "Free"}
  /\ \A p \in Pages : s.page[p].use = "Free" => s.page[p].refcnt = 0
  /\ s.stat.nfree = Len(s.free)
  /\ s.stat.nstandby = Len(s.standby) + Hole(h)
  /\ s.stat.nmodified = Len(s.modified)
  /\ s.stat.nactive = Cardinality(ActiveSet(s))
  /\ h \in Pages => h \in StandbySet(s)

(* What every function keeps: no thread sees the queues after a panic.     *)
QOK(s, h) == s.panic = NoPanic => Placed(s, h)

(* The fields of page q that the queues depend on.                         *)
SamePage(s, t, q) ==
  /\ t.page[q].use = s.page[q].use /\ t.page[q].refcnt = s.page[q].refcnt
  /\ t.page[q].dirty = s.page[q].dirty

SameLists(s, t) ==
  t.free = s.free /\ t.standby = s.standby /\ t.modified = s.modified /\ t.stat = s.stat

SameQueues(s, t) == SameLists(s, t) /\ \A q \in Pages : SamePage(s, t, q)

(* The hole counts for one page at most.                                   *)
LEMMA HoleType == \A h : Hole(h) \in Nat
  BY DEF Hole

(* Nothing that the queues depend on has changed.                          *)
LEMMA SameQueuesPlaced ==
  ASSUME NEW s, NEW t, NEW h, SameQueues(s, t), Placed(s, h)
  PROVE  Placed(t, h)
<1>1. /\ FreeSet(t) = FreeSet(s) /\ StandbySet(t) = StandbySet(s)
      /\ ModifiedSet(t) = ModifiedSet(s) /\ ActiveSet(t) = ActiveSet(s)
  BY DEF SameQueues, SamePage, FreeSet, StandbySet, ModifiedSet, ActiveSet
<1> QED
  BY <1>1 DEF Placed, SameQueues, SamePage, SameLists

(* The sets of pages when only page p has changed.                         *)
LEMMA OnePageMoves ==
  ASSUME NEW s, NEW t, NEW p \in Pages, \A q \in Pages \ {p} : SamePage(s, t, q)
  PROVE  /\ FreeSet(t) = IF t.page[p].use = "Free" THEN FreeSet(s) \cup {p} ELSE FreeSet(s) \ {p}
         /\ StandbySet(t) =
              IF t.page[p].use = "AnonPrivate" /\ t.page[p].refcnt = 0 /\ ~t.page[p].dirty
              THEN StandbySet(s) \cup {p} ELSE StandbySet(s) \ {p}
         /\ ModifiedSet(t) =
              IF t.page[p].use = "AnonPrivate" /\ t.page[p].refcnt = 0 /\ t.page[p].dirty
              THEN ModifiedSet(s) \cup {p} ELSE ModifiedSet(s) \ {p}
         /\ ActiveSet(t) = IF t.page[p].refcnt > 0 THEN ActiveSet(s) \cup {p} ELSE ActiveSet(s) \ {p}
  BY DEF SamePage, FreeSet, StandbySet, ModifiedSet, ActiveSet

(* There are finitely many active pages.                                   *)
LEMMA ActiveFinite ==
  ASSUME NEW s, NEW p
  PROVE  LET A == ActiveSet(s)
         IN  /\ IsFiniteSet(A) /\ Cardinality(A) \in Nat
             /\ Cardinality(A \cup {p}) = IF p \in A THEN Cardinality(A) ELSE Cardinality(A) + 1
             /\ Cardinality(A \ {p}) = IF p \in A THEN Cardinality(A) - 1 ELSE Cardinality(A)
<1>1. IsFiniteSet(Pages)
  BY FS_Interval, VmAssumption DEF Pages
<1>2. ActiveSet(s) \in SUBSET Pages
  BY DEF ActiveSet
<1>3. IsFiniteSet(ActiveSet(s))
  BY <1>1, <1>2, FS_Subset
<1> QED
  BY <1>3, FS_CardinalityType, FS_AddElement, FS_RemoveElement

(* kassert(): what follows holds if it does when the condition holds.      *)
LEMMA KassertQueues ==
  ASSUME NEW s \in VmStates, NEW ok, NEW site, site # NoPanic, NEW t, NEW h,
         s.panic = NoPanic /\ ok => QOK(t, h)
  PROVE  QOK(Kassert(s, ok, site, t), h)
<1>1. [s EXCEPT !.panic = site].panic = site
  BY DEF VmStates
<1> QED
  BY <1>1 DEF QOK, Kassert, Then

(* Nothing follows a failed assertion.                                     *)
LEMMA ThenQueues ==
  ASSUME NEW s, NEW t, NEW h, s.panic = NoPanic => QOK(t, h)
  PROVE  QOK(Then(s, t), h)
  BY DEF QOK, Then

(* kfatal() ends the program.                                              *)
LEMMA KfatalQueues ==
  ASSUME NEW s \in VmStates, NEW site, site # NoPanic, NEW h
  PROVE  QOK(Kfatal(s, site), h)
  BY KassertQueues DEF Kfatal

(* An assignment to fields of struct vm_page that the queues do not depend *)
(* on, to PTEs, to contents, to the working set list or to the events.     *)
LEMMA ElsewhereQueues ==
  ASSUME NEW s, NEW t, NEW h, QOK(s, h), s.panic = NoPanic, SameQueues(s, t)
  PROVE  QOK(t, h)
  BY SameQueuesPlaced DEF QOK

-----------------------------------------------------------------------------
(* The state with another reference count of page p.                       *)
LEMMA RefcntSet ==
  ASSUME NEW s \in VmStates, NEW p \in Pages, NEW n \in Nat,
         NEW t, t = [s EXCEPT !.page[p].refcnt = n]
  PROVE  /\ SameLists(s, t) /\ t.panic = s.panic
         /\ \A q \in Pages \ {p} : SamePage(s, t, q)
         /\ t.page[p].use = s.page[p].use /\ t.page[p].dirty = s.page[p].dirty
         /\ t.page[p].refcnt = n
  BY DEF VmStates, PageDb, PageRec, SameLists, SamePage

(* vmp_page_retain_locked(): a page that had no reference leaves the queue *)
(* that its dirty bit names and becomes an active page.                    *)
LEMMA PageRetainQueues ==
  ASSUME NEW s \in VmStates, NEW p \in Pages, NEW h, QOK(s, h)
  PROVE  QOK(PageRetain(s, p), h)
<1> DEFINE n == s.page[p].refcnt + 1
           t == [s EXCEPT !.page[p].refcnt = @ + 1]
           m == [t EXCEPT !.modified = Unlink(@, p), !.stat.nmodified = @ - 1,
                          !.stat.nactive = @ + 1]
           b == [t EXCEPT !.standby = Unlink(@, p), !.stat.nstandby = @ - 1,
                          !.stat.nactive = @ + 1]
<1>1. n \in Nat /\ n > 0 /\ s.page[p].refcnt \in Nat /\ s.page[p].dirty \in BOOLEAN
  BY PagePart
<1>2. t = [s EXCEPT !.page[p].refcnt = n]
  OBVIOUS
<1> HIDE DEF n, t
<1>3. /\ SameLists(s, t) /\ t.panic = s.panic
      /\ \A q \in Pages \ {p} : SamePage(s, t, q)
      /\ t.page[p].use = s.page[p].use /\ t.page[p].dirty = s.page[p].dirty
      /\ t.page[p].refcnt = n
  BY <1>1, <1>2, RefcntSet
<1>4. t \in VmStates
  BY <1>1, <1>2, SetFieldType
<1>5. /\ m.page = t.page /\ m.free = t.free /\ m.standby = t.standby
      /\ m.modified = Unlink(t.modified, p) /\ m.panic = t.panic
      /\ m.stat = [t.stat EXCEPT !.nmodified = @ - 1, !.nactive = @ + 1]
      /\ b.page = t.page /\ b.free = t.free /\ b.modified = t.modified
      /\ b.standby = Unlink(t.standby, p) /\ b.panic = t.panic
      /\ b.stat = [t.stat EXCEPT !.nstandby = @ - 1, !.nactive = @ + 1]
  BY <1>4 DEF VmStates
<1> HIDE DEF m, b
<1>6. /\ m.stat.nfree = s.stat.nfree /\ m.stat.nstandby = s.stat.nstandby
      /\ m.stat.nmodified = s.stat.nmodified - 1 /\ m.stat.nactive = s.stat.nactive + 1
      /\ b.stat.nfree = s.stat.nfree /\ b.stat.nstandby = s.stat.nstandby - 1
      /\ b.stat.nmodified = s.stat.nmodified /\ b.stat.nactive = s.stat.nactive + 1
  BY <1>3, <1>4, <1>5, Parts DEF Stats, SameLists
<1>7. s.free \in Seq(Pages) /\ s.standby \in Seq(Pages) /\ s.modified \in Seq(Pages)
  BY Parts DEF Queue
<1>8. ASSUME s.panic = NoPanic, s.page[p].refcnt # 0
      PROVE  QOK(t, h)
  <2>1. /\ FreeSet(t) = FreeSet(s) /\ StandbySet(t) = StandbySet(s)
        /\ ModifiedSet(t) = ModifiedSet(s) /\ ActiveSet(t) = ActiveSet(s)
    BY <1>1, <1>3, <1>8 DEF SamePage, FreeSet, StandbySet, ModifiedSet, ActiveSet
  <2>2. Placed(s, h)
    BY <1>8 DEF QOK
  <2> QED
    BY <1>1, <1>3, <1>8, <2>1, <2>2 DEF QOK, Placed, SameLists, SamePage
<1>9. ASSUME s.panic = NoPanic, s.page[p].refcnt = 0, s.page[p].use # "Deleted"
      PROVE  /\ s.page[p].dirty /\ Contains(s.modified, p) => QOK(m, h)
             /\ ~s.page[p].dirty /\ Contains(s.standby, p) => QOK(b, h)
  <2>1. Placed(s, h)
    BY <1>9 DEF QOK
  <2>2. Cardinality(ActiveSet(s) \cup {p}) = Cardinality(ActiveSet(s)) + 1
    <3>1. p \notin ActiveSet(s)
      BY <1>9 DEF ActiveSet
    <3> QED
      BY <3>1, ActiveFinite
  <2>3. /\ FreeSet(t) = IF s.page[p].use = "Free" THEN FreeSet(s) \cup {p} ELSE FreeSet(s) \ {p}
        /\ StandbySet(t) = StandbySet(s) \ {p} /\ ModifiedSet(t) = ModifiedSet(s) \ {p}
        /\ ActiveSet(t) = ActiveSet(s) \cup {p}
    BY <1>1, <1>3, OnePageMoves
  <2>4. ASSUME s.page[p].dirty, Contains(s.modified, p)
        PROVE  Placed(m, h)
    <3>1. p \in ModifiedSet(s) /\ Lists(Unlink(s.modified, p), ModifiedSet(s) \ {p})
      BY <1>7, <2>1, <2>4, ListsUnlink DEF Placed
    <3>2. Len(Unlink(s.modified, p)) = Len(s.modified) - 1
      BY <1>7, <2>4, UnlinkProperties
    <3>3. s.page[p].use = "AnonPrivate" /\ p \notin StandbySet(s) /\ p \notin FreeSet(s)
      BY <3>1 DEF ModifiedSet, StandbySet, FreeSet
    <3>4. /\ FreeSet(m) = FreeSet(s) /\ StandbySet(m) = StandbySet(s)
          /\ ModifiedSet(m) = ModifiedSet(s) \ {p} /\ ActiveSet(m) = ActiveSet(s) \cup {p}
      BY <1>5, <2>3, <3>3 DEF FreeSet, StandbySet, ModifiedSet, ActiveSet
    <3>5. \A q \in Pages : /\ m.page[q].refcnt = 0 => m.page[q].use \in {"AnonPrivate", "Free"}
                           /\ m.page[q].use = "Free" => m.page[q].refcnt = 0
      BY <1>1, <1>3, <1>5, <2>1, <3>3 DEF Placed, SamePage
    <3> QED
      BY <1>3, <1>5, <1>6, <2>1, <2>2, <3>1, <3>2, <3>4, <3>5 DEF Placed, SameLists
  <2>5. ASSUME ~s.page[p].dirty, Contains(s.standby, p)
        PROVE  Placed(b, h)
    <3>1. p \in StandbySet(s) \ {h} /\ Lists(Unlink(s.standby, p), (StandbySet(s) \ {h}) \ {p})
      BY <1>7, <2>1, <2>5, ListsUnlink DEF Placed
    <3>2. Len(Unlink(s.standby, p)) = Len(s.standby) - 1 /\ Len(s.standby) \in Nat
      BY <1>7, <2>5, UnlinkProperties
    <3>3. s.page[p].use = "AnonPrivate" /\ p \notin ModifiedSet(s) /\ p \notin FreeSet(s)
      BY <3>1 DEF ModifiedSet, StandbySet, FreeSet
    <3>4. /\ FreeSet(b) = FreeSet(s) /\ StandbySet(b) = StandbySet(s) \ {p}
          /\ ModifiedSet(b) = ModifiedSet(s) /\ ActiveSet(b) = ActiveSet(s) \cup {p}
      BY <1>5, <2>3, <3>3 DEF FreeSet, StandbySet, ModifiedSet, ActiveSet
    <3>5. (StandbySet(s) \ {h}) \ {p} = (StandbySet(s) \ {p}) \ {h}
      OBVIOUS
    <3>6. \A q \in Pages : /\ b.page[q].refcnt = 0 => b.page[q].use \in {"AnonPrivate", "Free"}
                           /\ b.page[q].use = "Free" => b.page[q].refcnt = 0
      BY <1>1, <1>3, <1>5, <2>1, <3>3 DEF Placed, SamePage
    <3>7. h \in Pages => h \in StandbySet(b)
      BY <2>1, <3>1, <3>4 DEF Placed
    <3>8. b.stat.nstandby = Len(b.standby) + Hole(h)
      <4>1. s.stat.nstandby = Len(s.standby) + Hole(h) /\ b.standby = Unlink(s.standby, p)
        BY <1>3, <1>5, <2>1 DEF Placed, SameLists
      <4> QED
        BY <1>6, <3>2, <4>1, HoleType
    <3> QED
      BY <1>3, <1>5, <1>6, <2>1, <2>2, <3>1, <3>4, <3>5, <3>6, <3>7, <3>8 DEF Placed, SameLists
  <2> QED
    BY <2>4, <2>5 DEF QOK
<1> DEFINE km == Kassert(s, Contains(s.modified, p), "resident.c:147", m)
           kb == Kassert(s, Contains(s.standby, p), "resident.c:151", b)
           kk == IF s.page[p].dirty THEN km ELSE kb
<1>10. ASSUME s.panic = NoPanic, s.page[p].refcnt = 0, s.page[p].use # "Deleted"
       PROVE  QOK(kk, h)
  <2>1. CASE s.page[p].dirty
    <3>1. QOK(km, h)
      BY <1>9, <1>10, <2>1, KassertQueues, Zenon DEF NoPanic
    <3> QED
      BY <2>1, <3>1
  <2>2. CASE ~s.page[p].dirty
    <3>1. QOK(kb, h)
      BY <1>9, <1>10, <2>2, KassertQueues, Zenon DEF NoPanic
    <3> QED
      BY <2>2, <3>1
  <2> QED
    BY <2>1, <2>2
<1> HIDE DEF kk
<1>11. CASE s.page[p].refcnt # 0
  <2>1. QOK(Then(s, t), h)
    BY <1>8, <1>11, ThenQueues
  <2> QED
    BY <1>11, <2>1 DEF PageRetain, t
<1>12. CASE s.page[p].refcnt = 0
  <2>1. QOK(Kassert(s, s.page[p].use # "Deleted", "resident.c:145", kk), h)
    BY <1>10, <1>12, KassertQueues, Zenon DEF NoPanic
  <2> QED
    BY <1>12, <2>1 DEF PageRetain, kk, t, m, b
<1> QED
  BY <1>11, <1>12

(* check_shortage() and the end of vmp_page_release_locked() set events    *)
(* and was_shortage alone.                                                 *)
LEMMA ShortageQueues ==
  ASSUME NEW s \in VmStates
  PROVE  /\ SameQueues(s, CheckShortage(s)) /\ CheckShortage(s).panic = s.panic
         /\ SameQueues(s, AnnounceSufficience(s)) /\ AnnounceSufficience(s).panic = s.panic
  BY DEF CheckShortage, AnnounceSufficience, VmStates, SameQueues, SameLists, SamePage

(* The last reference to page p is gone: p, which is on no queue, goes to  *)
(* the one it belongs on.                                                  *)
LEMMA RequeueQueues ==
  ASSUME NEW s \in VmStates, NEW t \in VmStates, NEW p \in Pages, NEW h,
         Placed(s, h), s.page[p].refcnt = 1, t.panic = NoPanic,
         SameLists(s, t), \A q \in Pages \ {p} : SamePage(s, t, q),
         t.page[p].use = s.page[p].use, t.page[p].dirty = s.page[p].dirty,
         t.page[p].refcnt = 0
  PROVE  QOK(Requeue(t, p), h)
<1> DEFINE u == [t EXCEPT !.stat.nactive = @ - 1]
           f == [u EXCEPT !.free = << p >> \o @, !.stat.nfree = @ + 1, !.page[p].use = "Free"]
           m == [u EXCEPT !.modified = Append(@, p), !.stat.nmodified = @ + 1]
           b == [u EXCEPT !.standby = Append(@, p), !.stat.nstandby = @ + 1]
<1>1. /\ SameLists(s, t) /\ \A q \in Pages \ {p} : SamePage(s, t, q)
      /\ t.page[p].use = s.page[p].use /\ t.page[p].dirty = s.page[p].dirty
      /\ t.page[p].refcnt = 0 /\ t.page[p].dirty \in BOOLEAN
  BY PagePart
<1>2. s.free \in Seq(Pages) /\ s.standby \in Seq(Pages) /\ s.modified \in Seq(Pages)
  BY Parts DEF Queue
<1>3. /\ s.stat.nfree \in Int /\ s.stat.nstandby \in Int
      /\ s.stat.nmodified \in Int /\ s.stat.nactive \in Int
  BY StatsPart
<1>4. p \notin StandbySet(s) /\ p \notin ModifiedSet(s) /\ p \notin FreeSet(s) /\ p \in ActiveSet(s)
  BY DEF Placed, StandbySet, ModifiedSet, FreeSet, ActiveSet
<1>5. h # p
  BY <1>4 DEF Placed
<1>6. Cardinality(ActiveSet(s) \ {p}) = Cardinality(ActiveSet(s)) - 1
  BY <1>4, ActiveFinite
<1>7. /\ Len(s.free) \in Nat /\ Len(s.standby) \in Nat /\ Len(s.modified) \in Nat
      /\ Len(<< p >> \o s.free) = Len(s.free) + 1
      /\ Len(Append(s.modified, p)) = Len(s.modified) + 1
      /\ Len(Append(s.standby, p)) = Len(s.standby) + 1
  BY <1>2
<1>8. ASSUME t.page[p].use = "Deleted" PROVE Placed(f, h)
  <2>1. /\ f.page = [t.page EXCEPT ![p].use = "Free"]
        /\ f.free = << p >> \o t.free /\ f.standby = t.standby /\ f.modified = t.modified
        /\ f.stat = [t.stat EXCEPT !.nactive = @ - 1, !.nfree = @ + 1]
    BY Zenon DEF VmStates
  <2> HIDE DEF f
  <2>2. /\ f.page[p].use = "Free" /\ f.page[p].refcnt = 0
        /\ \A q \in Pages \ {p} : SamePage(t, f, q)
        /\ f.free = << p >> \o s.free /\ f.standby = s.standby /\ f.modified = s.modified
        /\ f.stat = [s.stat EXCEPT !.nactive = @ - 1, !.nfree = @ + 1]
    <3>1. t.page \in PageDb /\ t.page[p] \in PageRec
      BY Parts, PagePart
    <3>2. f.page[p].use = "Free" /\ f.page[p].refcnt = 0 /\ \A q \in Pages \ {p} : SamePage(t, f, q)
      BY <1>1, <2>1, <3>1 DEF PageDb, PageRec, SamePage
    <3> QED
      BY <1>1, <2>1, <3>2 DEF SameLists
  <2>3. /\ f.stat.nfree = s.stat.nfree + 1 /\ f.stat.nstandby = s.stat.nstandby
        /\ f.stat.nmodified = s.stat.nmodified /\ f.stat.nactive = s.stat.nactive - 1
    BY <1>3, <2>2, Parts DEF Stats
  <2>4. \A q \in Pages \ {p} : SamePage(s, f, q)
    BY <1>1, <2>2 DEF SamePage
  <2>5. /\ FreeSet(f) = FreeSet(s) \cup {p} /\ StandbySet(f) = StandbySet(s)
        /\ ModifiedSet(f) = ModifiedSet(s) /\ ActiveSet(f) = ActiveSet(s) \ {p}
    <3>1. /\ FreeSet(f) = FreeSet(s) \cup {p} /\ StandbySet(f) = StandbySet(s) \ {p}
          /\ ModifiedSet(f) = ModifiedSet(s) \ {p} /\ ActiveSet(f) = ActiveSet(s) \ {p}
      <4>1. f.page[p].use = "Free" /\ f.page[p].refcnt = 0 /\ ~(f.page[p].refcnt > 0)
        BY <2>2
      <4> QED
        BY ONLY p \in Pages, <2>4, <4>1, OnePageMoves
    <3> QED
      BY <1>4, <3>1
  <2>6. Lists(f.free, FreeSet(f))
    <3>1. Lists(s.free, FreeSet(s))
      BY DEF Placed
    <3>2. Lists(<< p >> \o s.free, FreeSet(s) \cup {p})
      BY <1>2, <1>4, <3>1, ListsPush
    <3> QED
      BY <2>2, <2>5, <3>2
  <2>7. \A q \in Pages : /\ f.page[q].refcnt = 0 => f.page[q].use \in {"AnonPrivate", "Free"}
                         /\ f.page[q].use = "Free" => f.page[q].refcnt = 0
    BY <2>2, <2>4 DEF Placed, SamePage
  <2> QED
    BY <1>6, <1>7, <2>2, <2>3, <2>5, <2>6, <2>7 DEF Placed
<1>9. ASSUME t.page[p].use = "AnonPrivate", t.page[p].dirty PROVE Placed(m, h)
  <2>1. /\ m.page = t.page /\ m.free = s.free /\ m.standby = s.standby
        /\ m.modified = Append(s.modified, p)
        /\ m.stat = [s.stat EXCEPT !.nactive = @ - 1, !.nmodified = @ + 1]
    BY <1>1 DEF VmStates, SameLists
  <2> HIDE DEF m
  <2>2. /\ m.stat.nfree = s.stat.nfree /\ m.stat.nstandby = s.stat.nstandby
        /\ m.stat.nmodified = s.stat.nmodified + 1 /\ m.stat.nactive = s.stat.nactive - 1
    BY <1>3, <2>1, Parts DEF Stats
  <2>3. \A q \in Pages \ {p} : SamePage(s, m, q)
    BY <1>1, <2>1 DEF SamePage
  <2>4. /\ FreeSet(m) = FreeSet(s) /\ StandbySet(m) = StandbySet(s)
        /\ ModifiedSet(m) = ModifiedSet(s) \cup {p} /\ ActiveSet(m) = ActiveSet(s) \ {p}
    <3>1. /\ FreeSet(m) = FreeSet(s) \ {p} /\ StandbySet(m) = StandbySet(s) \ {p}
          /\ ModifiedSet(m) = ModifiedSet(s) \cup {p} /\ ActiveSet(m) = ActiveSet(s) \ {p}
      <4>1. /\ m.page[p].use = "AnonPrivate" /\ m.page[p].refcnt = 0 /\ ~(m.page[p].refcnt > 0)
            /\ m.page[p].dirty
        BY <1>1, <1>9, <2>1
      <4> QED
        BY ONLY p \in Pages, <2>3, <4>1, OnePageMoves
    <3> QED
      BY <1>4, <3>1
  <2>5. Lists(m.modified, ModifiedSet(m))
    BY <1>2, <1>4, <2>1, <2>4, ListsAppend DEF Placed
  <2>6. \A q \in Pages : /\ m.page[q].refcnt = 0 => m.page[q].use \in {"AnonPrivate", "Free"}
                         /\ m.page[q].use = "Free" => m.page[q].refcnt = 0
    BY <1>1, <1>9, <2>1, <2>3 DEF Placed, SamePage
  <2> QED
    BY <1>6, <1>7, <2>1, <2>2, <2>4, <2>5, <2>6 DEF Placed
<1>10. ASSUME t.page[p].use = "AnonPrivate", ~t.page[p].dirty PROVE Placed(b, h)
  <2>1. /\ b.page = t.page /\ b.free = s.free /\ b.modified = s.modified
        /\ b.standby = Append(s.standby, p)
        /\ b.stat = [s.stat EXCEPT !.nactive = @ - 1, !.nstandby = @ + 1]
    BY <1>1 DEF VmStates, SameLists
  <2> HIDE DEF b
  <2>2. /\ b.stat.nfree = s.stat.nfree /\ b.stat.nstandby = s.stat.nstandby + 1
        /\ b.stat.nmodified = s.stat.nmodified /\ b.stat.nactive = s.stat.nactive - 1
    BY <1>3, <2>1, Parts DEF Stats
  <2>3. \A q \in Pages \ {p} : SamePage(s, b, q)
    BY <1>1, <2>1 DEF SamePage
  <2>4. /\ FreeSet(b) = FreeSet(s) /\ StandbySet(b) = StandbySet(s) \cup {p}
        /\ ModifiedSet(b) = ModifiedSet(s) /\ ActiveSet(b) = ActiveSet(s) \ {p}
    <3>1. /\ FreeSet(b) = FreeSet(s) \ {p} /\ StandbySet(b) = StandbySet(s) \cup {p}
          /\ ModifiedSet(b) = ModifiedSet(s) \ {p} /\ ActiveSet(b) = ActiveSet(s) \ {p}
      <4>1. /\ b.page[p].use = "AnonPrivate" /\ b.page[p].refcnt = 0 /\ ~(b.page[p].refcnt > 0)
            /\ ~b.page[p].dirty
        BY <1>1, <1>10, <2>1
      <4> QED
        BY ONLY p \in Pages, <2>3, <4>1, OnePageMoves
    <3> QED
      BY <1>4, <3>1
  <2>5. Lists(b.standby, StandbySet(b) \ {h})
    <3>1. Lists(Append(s.standby, p), (StandbySet(s) \ {h}) \cup {p})
      BY <1>2, <1>4, ListsAppend DEF Placed
    <3>2. (StandbySet(s) \ {h}) \cup {p} = (StandbySet(s) \cup {p}) \ {h}
      BY <1>5
    <3> QED
      BY <2>1, <2>4, <3>1, <3>2
  <2>6. \A q \in Pages : /\ b.page[q].refcnt = 0 => b.page[q].use \in {"AnonPrivate", "Free"}
                         /\ b.page[q].use = "Free" => b.page[q].refcnt = 0
    BY <1>1, <1>10, <2>1, <2>3 DEF Placed, SamePage
  <2>7. b.stat.nstandby = Len(b.standby) + Hole(h)
    <3>1. s.stat.nstandby = Len(s.standby) + Hole(h)
      BY DEF Placed
    <3>2. Len(b.standby) = Len(s.standby) + 1
      BY <1>7, <2>1
    <3> QED
      BY <1>3, <1>7, <2>2, <3>1, <3>2, HoleType
  <2> QED
    BY <1>6, <2>1, <2>2, <2>4, <2>5, <2>6, <2>7 DEF Placed
<1>11. m \in VmStates /\ b \in VmStates /\ m.panic = NoPanic /\ b.panic = NoPanic
  <2>1. u \in VmStates /\ u.panic = NoPanic
    <3>1. t.stat.nactive - 1 \in Int /\ t.stat \in Stats
      BY StatsPart, Parts, SMTT(60)
    <3>2. [t.stat EXCEPT !.nactive = @ - 1] \in Stats
      BY <3>1, StatsUpdate, Zenon
    <3> QED
      BY <3>2 DEF VmStates
  <2> HIDE DEF u
  <2>2. u.stat.nmodified + 1 \in Int /\ u.stat.nstandby + 1 \in Int /\ u.stat \in Stats
    BY <2>1, StatsPart, Parts, SMTT(60)
  <2>3. [u.stat EXCEPT !.nmodified = @ + 1] \in Stats /\ [u.stat EXCEPT !.nstandby = @ + 1] \in Stats
    BY <2>2, StatsUpdate, Zenon
  <2>4. Append(u.modified, p) \in Queue /\ Append(u.standby, p) \in Queue
    BY <2>1, Parts DEF Queue
  <2>5. m \in VmStates /\ b \in VmStates
    BY <2>1, <2>3, <2>4 DEF VmStates
  <2> QED
    BY <2>1, <2>5 DEF VmStates
<1> DEFINE x == IF t.page[p].dirty THEN m ELSE b
<1>12. t.page[p].use = "AnonPrivate" =>
         x \in VmStates /\ x.panic = NoPanic /\ Placed(x, h)
  BY <1>9, <1>10, <1>11
<1> HIDE DEF x, m, b, f
<1>13. t.page[p].use = "AnonPrivate" => QOK(AnnounceSufficience(CheckShortage(x)), h)
  <2> SUFFICES ASSUME t.page[p].use = "AnonPrivate"
               PROVE  QOK(AnnounceSufficience(CheckShortage(x)), h)
    OBVIOUS
  <2>1. CheckShortage(x) \in VmStates /\ Placed(CheckShortage(x), h)
    BY <1>12, ShortageQueues, SameQueuesPlaced, CheckShortageType
  <2>2. Placed(AnnounceSufficience(CheckShortage(x)), h)
    BY <2>1, ShortageQueues, SameQueuesPlaced
  <2> QED
    BY <2>2 DEF QOK
<1>14. QOK(Kfatal(t, "resident.c:183"), h)
  BY KfatalQueues, Zenon DEF NoPanic
<1>15. t.page[p].use = "Deleted" => QOK(f, h)
  BY <1>8 DEF QOK
<1> QED
  BY <1>13, <1>14, <1>15 DEF Requeue, u, f, m, b, x

(* vmp_page_release_locked().                                              *)
LEMMA PageReleaseQueues ==
  ASSUME NEW s \in VmStates, NEW p \in Pages, NEW h, QOK(s, h)
  PROVE  QOK(PageRelease(s, p), h)
<1> DEFINE ok == s.page[p].refcnt > 0 /\ s.page[p].use # "Free"
           n == s.page[p].refcnt - 1
           t == [s EXCEPT !.page[p].refcnt = @ - 1]
           r == IF t.page[p].refcnt = 0 THEN Requeue(t, p) ELSE t
<1>1. ASSUME s.panic = NoPanic, ok
      PROVE  QOK(r, h)
  <2>1. n \in Nat /\ t = [s EXCEPT !.page[p].refcnt = n] /\ s.page[p].refcnt \in Nat
    BY <1>1, PagePart
  <2>2. Placed(s, h)
    BY <1>1 DEF QOK
  <2>3. t \in VmStates
    BY <2>1, SetFieldType
  <2> HIDE DEF t
  <2>4. /\ SameLists(s, t) /\ t.panic = s.panic
        /\ \A q \in Pages \ {p} : SamePage(s, t, q)
        /\ t.page[p].use = s.page[p].use /\ t.page[p].dirty = s.page[p].dirty
        /\ t.page[p].refcnt = n
    BY <2>1, RefcntSet
  <2>5. CASE n = 0
    <3>1. s.page[p].refcnt = 1 /\ t.page[p].refcnt = 0
      BY <2>1, <2>4, <2>5
    <3>2. QOK(Requeue(t, p), h)
      BY <1>1, <2>2, <2>3, <2>4, <3>1, RequeueQueues
    <3> QED
      BY <2>4, <2>5, <3>2
  <2>6. CASE n # 0
    <3>1. n > 0
      BY <2>1, <2>6
    <3>2. /\ FreeSet(t) = FreeSet(s) /\ StandbySet(t) = StandbySet(s)
          /\ ModifiedSet(t) = ModifiedSet(s) /\ ActiveSet(t) = ActiveSet(s)
      <4> HIDE DEF n
      <4> QED
        BY <1>1, <2>1, <2>4, <3>1 DEF SamePage, FreeSet, StandbySet, ModifiedSet, ActiveSet
    <3>3. Placed(t, h)
      <4> HIDE DEF n
      <4>1. \A q \in Pages : /\ t.page[q].refcnt = 0 => t.page[q].use \in {"AnonPrivate", "Free"}
                             /\ t.page[q].use = "Free" => t.page[q].refcnt = 0
        BY <1>1, <2>2, <2>4, <2>6 DEF Placed, SamePage
      <4> QED
        BY <2>2, <2>4, <3>2, <4>1 DEF Placed, SameLists
    <3> QED
      BY <2>4, <2>6, <3>3 DEF QOK
  <2> QED
    BY <2>5, <2>6
<1> HIDE DEF r
<1>2. s.panic = NoPanic /\ ok => QOK(r, h)
  BY <1>1
<1>3. QOK(Kassert(s, ok, "resident.c:164", r), h)
  BY <1>2, KassertQueues, Zenon DEF NoPanic
<1> QED
  BY <1>3 DEF PageRelease, r, t

-----------------------------------------------------------------------------
(* The working set list is none of the queues.                             *)
LEMMA WslEntryQueues ==
  ASSUME NEW s \in VmStates, NEW k \in WsKey, NEW h, QOK(s, h)
  PROVE  /\ QOK(WslLockEntry(s, k), h) /\ QOK(WslUnlockEntry(s, k), h)
         /\ QOK(WslRemove(s, k), h)
<1> DEFINE l == [s EXCEPT !.wsl.queue = Unlink(@, k), !.wsl.nlocked = @ + 1]
           u == [s EXCEPT !.wsl.queue = Append(@, k), !.wsl.nlocked = @ - 1]
           r == [s EXCEPT !.wsl.tree = @ \ {k}, !.wsl.queue = Unlink(@, k)]
<1>1. SameQueues(s, l) /\ SameQueues(s, u) /\ SameQueues(s, r)
  BY DEF VmStates, SameQueues, SameLists, SamePage
<1> HIDE DEF l, u, r
<1>2. s.panic = NoPanic => QOK(l, h) /\ QOK(u, h) /\ QOK(r, h)
  BY <1>1, ElsewhereQueues
<1> DEFINE kl == Kassert(s, Contains(s.wsl.queue, k), "ws.c:146", l)
           ku == Kassert(s, ~Contains(s.wsl.queue, k), "ws.c:155", u)
           kr == Kassert(s, Contains(s.wsl.queue, k), "ws.c:137", r)
<1>3. QOK(kl, h) /\ QOK(ku, h) /\ QOK(kr, h)
  BY <1>2, KassertQueues, Zenon DEF NoPanic
<1> HIDE DEF kl, ku, kr
<1>4. /\ QOK(Kassert(s, k \in s.wsl.tree, "ws.c:145", kl), h)
      /\ QOK(Kassert(s, k \in s.wsl.tree, "ws.c:154", ku), h)
      /\ QOK(Kassert(s, k \in s.wsl.tree, "ws.c:135", kr), h)
  BY <1>3, KassertQueues, Zenon DEF NoPanic
<1> QED
  BY <1>4 DEF WslLockEntry, WslUnlockEntry, WslRemove, kl, ku, kr, l, u, r

(* A page without a reference cannot be released.                          *)
LEMMA ReleaseUnreferenced ==
  ASSUME NEW s \in VmStates, NEW p \in Pages, s.page[p].refcnt = 0 \/ s.panic # NoPanic
  PROVE  PageRelease(s, p).panic # NoPanic
<1>1. [s EXCEPT !.panic = "resident.c:164"].panic # NoPanic
  BY DEF VmStates, NoPanic
<1>2. ~(s.page[p].refcnt > 0) \/ s.panic # NoPanic
  BY SMTT(60)
<1> QED
  BY <1>1, <1>2 DEF PageRelease, Kassert, Then

(* wsl_evict(): the dirty bit is set before the page goes to a queue.      *)
LEMMA WslEvictQueues ==
  ASSUME NEW s \in VmStates, NEW t \in Pages, NEW i \in Idx, NEW h, QOK(s, h)
  PROVE  QOK(WslEvict(s, t, i), h)
<1> DEFINE pte == s.table[t][i]
           p   == pte.page
           d   == s.page[p].dirty \/ pte.writeable
           u   == [s EXCEPT !.page[p].dirty = @ \/ pte.writeable,
                            !.table[t][i] = TransPte(p)]
<1>1. pte \in Pte /\ p \in Pages /\ pte.writeable \in BOOLEAN /\ TransPte(p) \in Pte /\ d \in BOOLEAN
  BY TablePart, PteTypes
<1> HIDE DEF p, pte
<1>2. /\ u.page = [s.page EXCEPT ![p].dirty = d] /\ SameLists(s, u) /\ u.panic = s.panic
  BY DEF VmStates, SameLists
<1>3. u \in VmStates
  <2>1. [s.page EXCEPT ![p].dirty = d] \in PageDb
    <3>1. [s.page[p] EXCEPT !.dirty = d] \in PageRec
      BY <1>1, PagePart, PageRecUpdate
    <3> QED
      BY <1>1, <3>1, Parts DEF PageDb
  <2>2. [s.table EXCEPT ![t][i] = TransPte(p)] \in TableMem
    BY <1>1, Parts DEF TableMem
  <2> QED
    BY <2>1, <2>2 DEF VmStates
<1> HIDE DEF u, d
<1>4. /\ \A q \in Pages \ {p} : SamePage(s, u, q)
      /\ u.page[p].refcnt = s.page[p].refcnt /\ u.page[p].use = s.page[p].use
  <2>1. s.page \in PageDb
    BY Parts
  <2> QED
    BY <1>1, <1>2, <2>1 DEF PageDb, PageRec, SamePage
<1>5. QOK(PageRelease(u, p), h)
  <2>1. CASE s.page[p].refcnt = 0 \/ s.panic # NoPanic
    BY <1>1, <1>2, <1>3, <1>4, <2>1, ReleaseUnreferenced DEF QOK
  <2>2. CASE s.page[p].refcnt # 0 /\ s.panic = NoPanic
    <3>1. Placed(s, h)
      BY <2>2 DEF QOK
    <3>2. /\ FreeSet(u) = FreeSet(s) /\ StandbySet(u) = StandbySet(s)
          /\ ModifiedSet(u) = ModifiedSet(s) /\ ActiveSet(u) = ActiveSet(s)
      BY <1>4, <2>2 DEF SamePage, FreeSet, StandbySet, ModifiedSet, ActiveSet
    <3>3. Placed(u, h)
      BY <1>2, <1>4, <3>1, <3>2 DEF Placed, SameLists, SamePage
    <3> QED
      BY <1>1, <1>3, <3>3, PageReleaseQueues DEF QOK
  <2> QED
    BY <2>1, <2>2
<1> DEFINE v == Kassert(s, s.page[p].use = "AnonPrivate", "ws.c:52", PageRelease(u, p))
<1>6. QOK(v, h)
  BY <1>5, KassertQueues, Zenon DEF NoPanic
<1> HIDE DEF v
<1>7. QOK(Kassert(s, pte.kind = "Valid", "ws.c:78", v), h)
  BY <1>6, KassertQueues, ZenonT(60) DEF NoPanic
<1> QED
  BY <1>7, Zenon DEF WslEvict, pte, p, u, v

(* wsl_trim_1().                                                           *)
LEMMA WslTrim1Queues ==
  ASSUME NEW s \in VmStates, s.wsl.queue # << >>, NEW h, QOK(s, h)
  PROVE  QOK(WslTrim1(s), h)
<1> DEFINE k == Head(s.wsl.queue)
           w == [s.wsl EXCEPT !.queue = Tail(@), !.tree = @ \ {k}, !.nentries = @ - 1]
           t == [s EXCEPT !.wsl.queue = Tail(@), !.wsl.tree = @ \ {k},
                          !.wsl.nentries = @ - 1]
           pt == FetchPte(s, k[2])
<1>1. k \in WsKey
  BY WslPart
<1> HIDE DEF k
<1>2. t \in VmStates
  <2>1. Tail(s.wsl.queue) \in Seq(WsKey)
    BY WslPart
  <2>2. s.wsl.tree \ {k} \in SUBSET WsKey /\ s.wsl.nentries - 1 \in Int
    BY WslPart
  <2>3. w \in WsList
    BY <2>1, <2>2, Parts, WslPart, WslUpdate, Zenon
  <2> QED
    BY <2>3 DEF VmStates
<1>3. SameQueues(s, t)
  BY DEF VmStates, SameQueues, SameLists, SamePage
<1> HIDE DEF t, pt
<1>4. k[1] # "table" => k[2][1] \in Idx
  BY <1>1, VmAssumption DEF WsKey, VAddr
<1>5. k[1] # "table" =>
        QOK(Kassert(s, pt \in Pages, "ws.c:77", WslEvict(t, pt, k[2][1])), h)
  <2>1. s.panic = NoPanic => QOK(t, h)
    BY <1>3, ElsewhereQueues
  <2>2. s.panic = NoPanic /\ k[1] # "table" /\ pt \in Pages => QOK(WslEvict(t, pt, k[2][1]), h)
    BY <1>2, <1>4, <2>1, WslEvictQueues
  <2> QED
    BY <2>2, KassertQueues, Zenon DEF NoPanic
<1>6. QOK(Kassert(s, s.page[k[2]].referent[2] = 0, "resident.c:207",
              Kfatal(s, "tables.c:87")), h)
  BY KassertQueues, KfatalQueues, Zenon DEF NoPanic
<1> QED
  BY <1>5, <1>6, Zenon DEF WslTrim1, k, t, pt

(* vmp_wsl_insert().                                                       *)
LEMMA WslInsertQueues ==
  ASSUME NEW s \in VmStates, NEW k \in WsKey, NEW locked \in BOOLEAN, NEW h, QOK(s, h)
  PROVE  QOK(WslInsert(s, k, locked), h)
<1> DEFINE r == WslMakeRoom(s)
<1>1. r \in VmStates
  BY WslMakeRoomType
<1>2. QOK(r, h)
  <2> DEFINE t == [s EXCEPT !.wsl.max = @ + WsPageExpansionCount]
  <2>1. SameQueues(s, t) /\ t.panic = s.panic
    BY DEF VmStates, SameQueues, SameLists, SamePage
  <2> HIDE DEF t
  <2>2. QOK(t, h)
    BY <2>1, ElsewhereQueues DEF QOK
  <2>3. QOK(Kassert(s, s.wsl.queue # << >>, "ws.c:112", WslTrim1(s)), h)
    BY WslTrim1Queues, KassertQueues, Zenon DEF NoPanic
  <2> QED
    BY <2>2, <2>3 DEF WslMakeRoom, t
<1> HIDE DEF r
<1> DEFINE a == [r EXCEPT !.wsl.nentries = @ + 1,
                          !.wsl.nlocked = IF locked THEN @ + 1 ELSE @,
                          !.wsl.queue = IF locked THEN @ ELSE Append(@, k),
                          !.wsl.tree = @ \cup {k}]
<1>3. SameQueues(r, a)
  BY <1>1 DEF VmStates, SameQueues, SameLists, SamePage
<1> HIDE DEF a
<1>4. QOK(Then(r, a), h)
  BY <1>2, <1>3, ElsewhereQueues, ThenQueues
<1> DEFINE u == WslAdd(r, k, locked)
           v == Kassert(s, s.wsl.nentries <= s.wsl.max, "ws.c:108", u)
<1>5. QOK(u, h)
  BY <1>4 DEF WslAdd, a
<1> HIDE DEF u
<1>6. QOK(v, h)
  BY <1>5, KassertQueues, Zenon DEF NoPanic
<1> HIDE DEF v
<1>7. QOK(Kassert(s, k \notin s.wsl.tree, "ws.c:107", v), h)
  BY <1>6, KassertQueues, Zenon DEF NoPanic
<1> QED
  BY <1>7 DEF WslInsert, u, v, r

-----------------------------------------------------------------------------
(* Page table pages.  The counts of PTEs are none of the queues' business. *)
LEMMA CountsQueues ==
  ASSUME NEW s \in VmStates, NEW p \in Pages, NEW a, NEW b, NEW ref
  PROVE  /\ SameQueues(s, [s EXCEPT !.page[p].nonzero = a])
         /\ SameQueues(s, [s EXCEPT !.page[p].nonswap = b])
         /\ SameQueues(s, [s EXCEPT !.page[p].referent = ref])
         /\ SameQueues(s, [s EXCEPT !.page[p].nonzero = a, !.page[p].nonswap = b])
         /\ SameQueues(s, [s EXCEPT !.page[p].nonswap = b, !.page[p].referent = ref])
  BY DEF VmStates, PageDb, PageRec, SameQueues, SameLists, SamePage

(* Nor are the PTEs and the contents of the pages.                         *)
LEMMA MemoryQueues ==
  ASSUME NEW s \in VmStates, NEW p, NEW i, NEW x
  PROVE  /\ SameQueues(s, [s EXCEPT !.table[p][i] = x])
         /\ SameQueues(s, [s EXCEPT !.data[p] = x])
         /\ [s EXCEPT !.table[p][i] = x].panic = s.panic
         /\ [s EXCEPT !.data[p] = x].panic = s.panic
  BY DEF VmStates, SameQueues, SameLists, SamePage

(* vmp_pagetable_page_nonswap_pte_created().                               *)
LEMMA NonswapPteCreatedQueues ==
  ASSUME NEW s \in VmStates, NEW p \in Pages, NEW isNew \in BOOLEAN, NEW h, QOK(s, h)
  PROVE  QOK(NonswapPteCreated(s, p, isNew), h)
<1> DEFINE r == PageRetain(s, p)
<1>1. r \in VmStates /\ QOK(r, h)
  BY PageRetainType, PageRetainQueues
<1> HIDE DEF r
<1> DEFINE a == IF isNew THEN r.page[p].nonzero + 1 ELSE r.page[p].nonzero
           b == r.page[p].nonswap + 1
           t == [r EXCEPT !.page[p].nonzero = IF isNew THEN @ + 1 ELSE @,
                          !.page[p].nonswap = @ + 1]
<1>2. t = [r EXCEPT !.page[p].nonzero = a, !.page[p].nonswap = b]
  BY <1>1 DEF VmStates, PageDb, PageRec
<1>3. a \in Int /\ b \in Int
  BY <1>1, PagePart
<1> HIDE DEF a, b, t
<1>4. t \in VmStates
  <2>1. [r.page[p] EXCEPT !.nonzero = a, !.nonswap = b] \in PageRec
    BY <1>1, <1>3, PagePart, PageRecUpdate2, Zenon
  <2>2. [r.page EXCEPT ![p].nonzero = a, ![p].nonswap = b] \in PageDb
    BY <1>1, <2>1, Parts DEF PageDb
  <2> QED
    BY <1>1, <1>2, <2>2 DEF VmStates
<1>5. SameQueues(r, t)
  BY <1>1, <1>2, CountsQueues, Zenon
<1>6. r.panic = NoPanic => QOK(t, h)
  BY <1>1, <1>5, ElsewhereQueues
<1>7. r.panic = NoPanic => QOK(WslLockEntry(t, TableKey(p)), h)
  BY <1>4, <1>6, TableKeyType, WslEntryQueues
<1> DEFINE u == IF r.page[p].nonswap = 0 /\ ~IsRootTable(r, p)
                THEN WslLockEntry(t, TableKey(p)) ELSE t
<1>8. r.panic = NoPanic => QOK(u, h)
  BY <1>6, <1>7
<1> HIDE DEF u
<1>9. QOK(Then(r, u), h)
  BY <1>8, ThenQueues
<1> QED
  BY <1>9 DEF NonswapPteCreated, r, t, u

(* A table that loses a nonswap PTE.                                       *)
LEMMA NonswapPteGoneQueues ==
  ASSUME NEW s \in VmStates, NEW p \in Pages, NEW h, QOK(s, h)
  PROVE  QOK(NonswapPteGone(s, p), h)
<1> DEFINE b == s.page[p].nonswap - 1
           t == [s EXCEPT !.page[p].nonswap = @ - 1]
<1>1. b \in Int /\ t = [s EXCEPT !.page[p].nonswap = b]
  BY PagePart, SMTT(60)
<1> HIDE DEF b, t
<1>2. t \in VmStates /\ SameQueues(s, t)
  BY <1>1, SetFieldType, CountsQueues, Zenon
<1>3. s.panic = NoPanic => QOK(t, h)
  BY <1>2, ElsewhereQueues
<1>4. s.panic = NoPanic => QOK(WslUnlockEntry(t, TableKey(p)), h)
  BY <1>2, <1>3, TableKeyType, WslEntryQueues
<1> DEFINE u == IF s.page[p].nonswap = 1 /\ ~IsRootTable(s, p)
                THEN WslUnlockEntry(t, TableKey(p)) ELSE t
<1>5. s.panic = NoPanic => QOK(u, h)
  BY <1>3, <1>4
<1> HIDE DEF u
<1>6. QOK(Then(s, u), h)
  BY <1>5, ThenQueues
<1> QED
  BY <1>6 DEF NonswapPteGone, t, u

(* vmp_pagetable_page_pte_became_swap().                                   *)
LEMMA PteBecameSwapQueues ==
  ASSUME NEW s \in VmStates, NEW p \in Pages, NEW h, QOK(s, h)
  PROVE  QOK(PteBecameSwap(s, p), h)
  BY NonswapPteGoneType, NonswapPteGoneQueues, PageReleaseQueues DEF PteBecameSwap

(* vmp_pagetable_page_pte_deleted() of a PTE that is not the last one.     *)
LEMMA PteUncountedQueues ==
  ASSUME NEW s \in VmStates, NEW p \in Pages, NEW h, QOK(s, h)
  PROVE  QOK(PteUncounted(s, p), h)
<1> DEFINE t == [s EXCEPT !.page[p].nonzero = @ - 1]
<1>1. t \in VmStates
  BY NonzeroLowered
<1>2. SameQueues(s, t) /\ t.panic = s.panic
  BY DEF VmStates, PageDb, PageRec, SameQueues, SameLists, SamePage
<1> HIDE DEF t
<1>3. QOK(t, h)
  BY <1>2, ElsewhereQueues, Zenon DEF QOK
<1>4. QOK(PageRelease(NonswapPteGone(t, p), p), h)
  BY <1>1, <1>3, NonswapPteGoneType, NonswapPteGoneQueues, PageReleaseQueues
<1> QED
  BY <1>4 DEF PteUncounted, t

(* vmp_md_delete_table_pointers().                                         *)
LEMMA DeleteTablePointersQueues ==
  ASSUME NEW s \in VmStates, NEW p \in Pages, NEW h, QOK(s, h)
  PROVE  QOK(DeleteTablePointers(s, p), h)
<1> DEFINE dir == s.page[p].referent[1]
           i   == s.page[p].referent[2]
           t   == [s EXCEPT !.table[dir][i] = ZeroPte]
           a   == Kassert(s, ~LastPte(s, dir), "tables.c:97", PteUncounted(t, dir))
           b   == Kassert(s, s.table[dir][i].kind \in {"Valid", "Trans"}, "tables.c:94", a)
<1>1. dir \in Pages /\ i \in Idx
  BY PagePart
<1> HIDE DEF dir, i
<1>2. t \in VmStates /\ SameQueues(s, t) /\ t.panic = s.panic
  <2>1. ZeroPte \in Pte
    BY ConstantTypes DEF Pte, PteKind, ZeroPte
  <2>2. t \in VmStates
    BY <1>1, <2>1, SetTableType
  <2>3. SameQueues(s, t) /\ t.panic = s.panic
    BY DEF VmStates, SameQueues, SameLists, SamePage
  <2> QED
    BY <2>2, <2>3
<1> HIDE DEF t
<1>3. QOK(t, h)
  BY <1>2, ElsewhereQueues DEF QOK
<1>4. QOK(PteUncounted(t, dir), h)
  BY <1>1, <1>2, <1>3, PteUncountedQueues
<1>5. QOK(a, h)
  BY <1>4, KassertQueues, Zenon DEF NoPanic
<1> HIDE DEF a
<1>6. QOK(b, h)
  BY <1>5, KassertQueues, Zenon DEF NoPanic
<1> HIDE DEF b
<1>7. QOK(Kassert(s, i = 0, "resident.c:207", b), h)
  BY <1>6, KassertQueues, Zenon DEF NoPanic
<1> QED
  BY <1>7, Zenon DEF DeleteTablePointers, dir, i, t, a, b

(* Taking a dying table out of the working set.                            *)
LEMMA ForgetTableQueues ==
  ASSUME NEW s \in VmStates, NEW p \in Pages, NEW h, QOK(s, h)
  PROVE  QOK(ForgetTable(s, p), h)
<1>1. /\ QOK(WslRemove(WslUnlockEntry(s, TableKey(p)), TableKey(p)), h)
      /\ QOK(WslRemove(s, TableKey(p)), h)
  BY TableKeyType, WslUnlockEntryType, WslEntryQueues
<1>2. QOK(Kfatal(s, "tables.c:59"), h)
  BY KfatalQueues, Zenon DEF NoPanic
<1> QED
  BY <1>1, <1>2 DEF ForgetTable

-----------------------------------------------------------------------------
(* A table that had no reference cannot be freed: whatever else the steps  *)
(* of vmp_pagetable_page_pte_deleted() do, they give it none, and the      *)
(* release of a page without one fails.                                    *)
Unreferenced(s, p) == s.panic = NoPanic => s.page[p].refcnt = 0

(* kassert() gives nobody a reference.                                     *)
LEMMA KassertUnreferenced ==
  ASSUME NEW s \in VmStates, NEW ok, NEW site, site # NoPanic, NEW t, NEW p,
         s.panic = NoPanic /\ ok => Unreferenced(t, p)
  PROVE  Unreferenced(Kassert(s, ok, site, t), p)
<1>1. [s EXCEPT !.panic = site].panic = site
  BY DEF VmStates
<1> QED
  BY <1>1 DEF Unreferenced, Kassert, Then

(* Nor does the release of another page.                                   *)
LEMMA ReleaseElsewhere ==
  ASSUME NEW s \in VmStates, NEW q \in Pages, NEW p \in Pages, Unreferenced(s, p)
  PROVE  Unreferenced(PageRelease(s, q), p)
<1> DEFINE t == [s EXCEPT !.page[q].refcnt = @ - 1]
           r == IF t.page[q].refcnt = 0 THEN Requeue(t, q) ELSE t
           ok == s.page[q].refcnt > 0 /\ s.page[q].use # "Free"
<1>1. CASE q = p
  BY <1>1, ReleaseUnreferenced DEF Unreferenced
<1>2. CASE q # p
  <2>1. ASSUME s.panic = NoPanic, ok
        PROVE  Unreferenced(r, p)
    <3>1. s.page[q].refcnt - 1 \in Nat
      BY <2>1, PagePart
    <3>2. t \in VmStates
      BY <3>1, SetFieldType
    <3>3. t.page[p].refcnt = 0
      BY <1>2, <2>1 DEF VmStates, PageDb, Unreferenced
    <3> HIDE DEF t
    <3>4. Unreferenced(Requeue(t, q), p)
      <4> DEFINE n == [t EXCEPT !.stat.nactive = @ - 1]
                 f == [n EXCEPT !.free = << q >> \o @, !.stat.nfree = @ + 1,
                                !.page[q].use = "Free"]
                 m == [n EXCEPT !.modified = Append(@, q), !.stat.nmodified = @ + 1]
                 b == [n EXCEPT !.standby = Append(@, q), !.stat.nstandby = @ + 1]
      <4>1. f.page[p] = t.page[p]
        BY <1>2, <3>2 DEF VmStates, PageDb
      <4>2. /\ AnnounceSufficience(CheckShortage(m)).page = t.page
            /\ AnnounceSufficience(CheckShortage(b)).page = t.page
        BY <3>2 DEF AnnounceSufficience, CheckShortage, VmStates
      <4>3. Unreferenced(Kfatal(t, "resident.c:183"), p)
        BY <3>2, <3>3, KassertUnreferenced, ZenonT(60) DEF Kfatal, Unreferenced, NoPanic
      <4>4. /\ Unreferenced(f, p) /\ Unreferenced(AnnounceSufficience(CheckShortage(m)), p)
            /\ Unreferenced(AnnounceSufficience(CheckShortage(b)), p)
        BY <3>3, <4>1, <4>2 DEF Unreferenced
      <4> HIDE DEF f, m, b
      <4> QED
        BY <4>3, <4>4 DEF Requeue, f, m, b
    <3>5. Unreferenced(t, p)
      BY <3>3 DEF Unreferenced
    <3> QED
      BY <3>4, <3>5
  <2> HIDE DEF r
  <2>2. s.panic = NoPanic /\ ok => Unreferenced(r, p)
    BY <2>1
  <2>3. Unreferenced(Kassert(s, ok, "resident.c:164", r), p)
    BY <2>2, KassertUnreferenced, Zenon DEF NoPanic
  <2> QED
    BY <2>3 DEF PageRelease, r, t
<1> QED
  BY <1>1, <1>2

(* Nor does the working set list.                                          *)
LEMMA WslUnreferenced ==
  ASSUME NEW s \in VmStates, NEW k \in WsKey, NEW p \in Pages, Unreferenced(s, p)
  PROVE  /\ Unreferenced(WslUnlockEntry(s, k), p) /\ Unreferenced(WslRemove(s, k), p)
<1> DEFINE u == [s EXCEPT !.wsl.queue = Append(@, k), !.wsl.nlocked = @ - 1]
           r == [s EXCEPT !.wsl.tree = @ \ {k}, !.wsl.queue = Unlink(@, k)]
           ku == Kassert(s, ~Contains(s.wsl.queue, k), "ws.c:155", u)
           kr == Kassert(s, Contains(s.wsl.queue, k), "ws.c:137", r)
<1>1. s.panic = NoPanic => Unreferenced(u, p) /\ Unreferenced(r, p)
  BY DEF VmStates, Unreferenced
<1> HIDE DEF u, r
<1>2. Unreferenced(ku, p) /\ Unreferenced(kr, p)
  BY <1>1, KassertUnreferenced, Zenon DEF NoPanic
<1> HIDE DEF ku, kr
<1>3. /\ Unreferenced(Kassert(s, k \in s.wsl.tree, "ws.c:154", ku), p)
      /\ Unreferenced(Kassert(s, k \in s.wsl.tree, "ws.c:135", kr), p)
  BY <1>2, KassertUnreferenced, Zenon DEF NoPanic
<1> QED
  BY <1>3 DEF WslUnlockEntry, WslRemove, ku, kr, u, r

(* Nor does forgetting the table's entry, or the entry that points to it.  *)
LEMMA FreeingUnreferenced ==
  ASSUME NEW s \in VmStates, NEW p \in Pages, Unreferenced(s, p)
  PROVE  /\ Unreferenced(ForgetTable(s, p), p)
         /\ Unreferenced(DeleteTablePointers(s, p), p)
<1>1. Unreferenced(ForgetTable(s, p), p)
  <2>1. Unreferenced(Kfatal(s, "tables.c:59"), p)
    BY KassertUnreferenced, Zenon DEF Kfatal, NoPanic
  <2>2. /\ Unreferenced(WslRemove(WslUnlockEntry(s, TableKey(p)), TableKey(p)), p)
        /\ Unreferenced(WslRemove(s, TableKey(p)), p)
    BY TableKeyType, WslUnlockEntryType, WslUnreferenced
  <2> QED
    BY <2>1, <2>2 DEF ForgetTable
<1>2. Unreferenced(DeleteTablePointers(s, p), p)
  <2> DEFINE dir == s.page[p].referent[1]
             i   == s.page[p].referent[2]
             t   == [s EXCEPT !.table[dir][i] = ZeroPte]
             n   == [t EXCEPT !.page[dir].nonzero = @ - 1]
             g   == NonswapPteGone(n, dir)
             a   == Kassert(s, ~LastPte(s, dir), "tables.c:97", PteUncounted(t, dir))
             b   == Kassert(s, s.table[dir][i].kind \in {"Valid", "Trans"}, "tables.c:94", a)
  <2>1. dir \in Pages /\ i \in Idx
    BY PagePart
  <2> HIDE DEF dir, i
  <2>2. t \in VmStates
    <3>1. ZeroPte \in Pte
      BY ConstantTypes DEF Pte, PteKind, ZeroPte
    <3> QED
      BY <2>1, <3>1, SetTableType
  <2>3. Unreferenced(t, p)
    BY DEF VmStates, Unreferenced
  <2> HIDE DEF t
  <2>4. n \in VmStates /\ Unreferenced(n, p)
    <3>1. n \in VmStates
      BY <2>1, <2>2, NonzeroLowered
    <3>2. n.panic = t.panic /\ n.page[p].refcnt = t.page[p].refcnt
      BY <2>1, <2>2 DEF VmStates, PageDb, PageRec
    <3> QED
      BY <2>3, <3>1, <3>2 DEF Unreferenced
  <2> HIDE DEF n
  <2>5. g \in VmStates /\ Unreferenced(g, p)
    <3> DEFINE v == [n EXCEPT !.page[dir].nonswap = @ - 1]
               w == IF n.page[dir].nonswap = 1 /\ ~IsRootTable(n, dir)
                    THEN WslUnlockEntry(v, TableKey(dir)) ELSE v
    <3>1. g \in VmStates
      BY <2>1, <2>4, NonswapPteGoneType
    <3>2. v \in VmStates
      <4>1. n.page[dir].nonswap - 1 \in Int
        BY <2>1, <2>4, PagePart
      <4> QED
        BY <2>1, <2>4, <4>1, SetFieldType
    <3>3. v.panic = n.panic /\ v.page[p].refcnt = n.page[p].refcnt
      BY <2>1, <2>4 DEF VmStates, PageDb, PageRec
    <3> HIDE DEF v
    <3>4. Unreferenced(v, p)
      BY <2>4, <3>3 DEF Unreferenced
    <3>5. Unreferenced(w, p)
      BY <2>1, <3>2, <3>4, TableKeyType, WslUnreferenced
    <3> HIDE DEF w
    <3>6. Unreferenced(Then(n, w), p)
      BY <2>4, <3>5 DEF Then
    <3> QED
      BY <3>1, <3>6 DEF NonswapPteGone, v, w
  <2> HIDE DEF g
  <2>6. Unreferenced(PageRelease(g, dir), p)
    BY <2>1, <2>5, ReleaseElsewhere
  <2>7. Unreferenced(PteUncounted(t, dir), p)
    BY <2>6 DEF PteUncounted, g, n
  <2>8. Unreferenced(a, p)
    BY <2>7, KassertUnreferenced, Zenon DEF NoPanic
  <2> HIDE DEF a
  <2>9. Unreferenced(b, p)
    BY <2>8, KassertUnreferenced, Zenon DEF NoPanic
  <2> HIDE DEF b
  <2>10. Unreferenced(Kassert(s, i = 0, "resident.c:207", b), p)
    BY <2>9, KassertUnreferenced, Zenon DEF NoPanic
  <2> QED
    BY <2>10, Zenon DEF DeleteTablePointers, dir, i, t, a, b
<1> QED
  BY <1>1, <1>2

(* The last PTE of a table that has references: the table is deleted, and  *)
(* goes to the free queue with its last reference.                         *)
LEMMA FreeTableQueues ==
  ASSUME NEW s \in VmStates, NEW p \in Pages, NEW h, QOK(s, h), s.panic = NoPanic
  PROVE  QOK(FreeTable(s, p), h)
<1> DEFINE d == [s EXCEPT !.page[p].nonzero = @ - 1, !.page[p].use = "Deleted"]
<1>1. d \in VmStates
  <2>1. s.page[p].nonzero - 1 \in Int
    BY PagePart
  <2>2. [s.page[p] EXCEPT !.nonzero = @ - 1, !.use = "Deleted"] \in PageRec
    BY <2>1, PagePart, PageRecUpdate2, Zenon DEF PageUse
  <2>3. [s.page EXCEPT ![p].nonzero = @ - 1, ![p].use = "Deleted"] \in PageDb
    BY <2>2, Parts DEF PageDb
  <2> QED
    BY <2>3, Zenon DEF VmStates
<1>2. /\ SameLists(s, d) /\ d.panic = s.panic /\ \A q \in Pages \ {p} : SamePage(s, d, q)
      /\ d.page[p].use = "Deleted" /\ d.page[p].refcnt = s.page[p].refcnt
      /\ d.page[p].dirty = s.page[p].dirty
  BY DEF VmStates, PageDb, PageRec, SameLists, SamePage
<1> HIDE DEF d
<1> DEFINE g == ForgetTable(d, p)
           t == DeleteTablePointers(g, p)
           n == [t EXCEPT !.page[p].nonswap = 0, !.page[p].referent = NullRef]
           u == Then(t, n)
<1>3. g \in VmStates /\ t \in VmStates
  BY <1>1, ForgetTableType, DeleteTablePointersType
<1> HIDE DEF t
<1>4. n \in VmStates /\ n.panic = t.panic /\ SameQueues(t, n)
  <2>1. NullRef \in PteAddr
    BY ConstantTypes
  <2>2. [t.page[p] EXCEPT !.nonswap = 0, !.referent = NullRef] \in PageRec
    <3>1. t.page[p] \in PageRec /\ 0 \in Int
      BY <1>3, PagePart
    <3> HIDE DEF NullRef
    <3> QED
      BY <2>1, <3>1, PageRecUpdate2, Zenon
  <2>3. [t.page EXCEPT ![p].nonswap = 0, ![p].referent = NullRef] \in PageDb
    BY <1>3, <2>2, Parts DEF PageDb
  <2>4. n \in VmStates
    BY <1>3, <2>3 DEF VmStates
  <2>5. n.panic = t.panic
    BY <1>3, Zenon DEF VmStates
  <2>6. SameQueues(t, n)
    BY <1>3, CountsQueues, Zenon
  <2> QED
    BY <2>4, <2>5, <2>6
<1> HIDE DEF n
<1>5. u \in VmStates
  BY <1>3, <1>4, Zenon DEF Then
<1>6. CASE s.page[p].refcnt > 0
  <2>1. Placed(s, h)
    BY DEF QOK
  <2>2. /\ FreeSet(d) = FreeSet(s) /\ StandbySet(d) = StandbySet(s)
        /\ ModifiedSet(d) = ModifiedSet(s) /\ ActiveSet(d) = ActiveSet(s)
    BY <1>2, <1>6, <2>1 DEF SamePage, FreeSet, StandbySet, ModifiedSet, ActiveSet, Placed
  <2>3. \A q \in Pages : /\ d.page[q].refcnt = 0 => d.page[q].use \in {"AnonPrivate", "Free"}
                         /\ d.page[q].use = "Free" => d.page[q].refcnt = 0
    BY <1>2, <1>6, <2>1 DEF Placed, SamePage
  <2>4. QOK(d, h)
    BY <1>2, <2>1, <2>2, <2>3 DEF QOK, Placed, SameLists
  <2>5. QOK(g, h) /\ QOK(t, h)
    BY <1>1, <1>3, <2>4, ForgetTableQueues, DeleteTablePointersQueues DEF t
  <2>6. QOK(u, h)
    <3>1. t.panic = NoPanic => QOK(n, h)
      BY <1>4, <2>5, ElsewhereQueues
    <3> QED
      BY <3>1, ThenQueues
  <2> HIDE DEF u
  <2>7. QOK(PageRelease(PageRelease(u, p), p), h)
    BY <1>5, <2>6, PageReleaseType, PageReleaseQueues, Zenon
  <2> QED
    BY <2>7, Zenon DEF FreeTable, d, g, t, n, u
<1>7. CASE s.page[p].refcnt = 0
  <2>1. Unreferenced(d, p)
    BY <1>2, <1>7 DEF Unreferenced
  <2>2. Unreferenced(g, p)
    BY <1>1, <2>1, FreeingUnreferenced
  <2>3. Unreferenced(t, p)
    BY <1>3, <2>2, FreeingUnreferenced DEF t
  <2>4. Unreferenced(u, p)
    BY <1>4, <2>3 DEF Unreferenced, Then, SameQueues, SamePage
  <2> HIDE DEF u
  <2>5. PageRelease(u, p).panic # NoPanic
    BY <1>5, <2>4, ReleaseUnreferenced DEF Unreferenced
  <2>6. PageRelease(PageRelease(u, p), p).panic # NoPanic
    BY <1>5, <2>5, PageReleaseType, ReleaseUnreferenced
  <2> QED
    BY <2>6, Zenon DEF FreeTable, d, g, t, n, u, QOK
<1> QED
  BY <1>6, <1>7, PagePart

(* vmp_pagetable_page_pte_deleted().                                       *)
LEMMA PteDeletedQueues ==
  ASSUME NEW s \in VmStates, NEW p \in Pages, NEW h, QOK(s, h)
  PROVE  QOK(PteDeleted(s, p), h)
<1>1. s.panic = NoPanic =>
        QOK(IF LastPte(s, p) THEN FreeTable(s, p) ELSE PteUncounted(s, p), h)
  BY FreeTableQueues, PteUncountedQueues
<1> QED
  BY <1>1, ThenQueues DEF PteDeleted

-----------------------------------------------------------------------------
(* The allocator.  What both ways of finding a page do to it.              *)
LEMMA TakePageFacts ==
  ASSUME NEW s \in VmStates, NEW p \in Pages, NEW use \in PageUse,
         NEW t, t = TakePage(s, p, use)
  PROVE  /\ t.free = s.free /\ t.standby = s.standby /\ t.modified = s.modified
         /\ t.panic = s.panic /\ t \in VmStates
         /\ t.stat.nfree = s.stat.nfree /\ t.stat.nstandby = s.stat.nstandby
         /\ t.stat.nmodified = s.stat.nmodified /\ t.stat.nactive = s.stat.nactive + 1
         /\ \A q \in Pages \ {p} : SamePage(s, t, q)
         /\ t.page[p].use = use /\ t.page[p].refcnt = 1
<1>1. t \in VmStates
  BY TakePageType
<1>2. /\ t.free = s.free /\ t.standby = s.standby /\ t.modified = s.modified
      /\ t.panic = s.panic /\ t.stat = [s.stat EXCEPT !.nactive = @ + 1]
  BY DEF TakePage, VmStates
<1> DEFINE r == [s.page[p] EXCEPT !.refcnt = 1, !.use = use, !.dirty = FALSE,
                                  !.drumslot = NoSlot, !.referent = NullRef]
<1>3. t.page = [s.page EXCEPT ![p] = r]
  BY DEF TakePage, VmStates
<1>4. r.use = use /\ r.refcnt = 1
  BY PagePart DEF PageRec
<1> HIDE DEF r
<1>5. t.page[p] = r /\ \A q \in Pages \ {p} : SamePage(s, t, q)
  BY <1>3, Parts DEF PageDb, SamePage
<1>6. t.page[p].use = use /\ t.page[p].refcnt = 1
  BY <1>4, <1>5
<1>7. /\ t.stat.nfree = s.stat.nfree /\ t.stat.nstandby = s.stat.nstandby
      /\ t.stat.nmodified = s.stat.nmodified /\ t.stat.nactive = s.stat.nactive + 1
  BY <1>2, Parts DEF Stats
<1> QED
  BY ONLY <1>1, <1>2, <1>5, <1>6, <1>7, Zenon

(* A page that was on a queue is given a reference and another use.        *)
LEMMA TakenSets ==
  ASSUME NEW s, NEW t, NEW p \in Pages, \A q \in Pages \ {p} : SamePage(s, t, q),
         s.page[p].refcnt = 0, t.page[p].refcnt = 1, t.page[p].use # "Free"
  PROVE  /\ FreeSet(t) = FreeSet(s) \ {p} /\ StandbySet(t) = StandbySet(s) \ {p}
         /\ ModifiedSet(t) = ModifiedSet(s) \ {p}
         /\ ActiveSet(t) = ActiveSet(s) \cup {p}
         /\ Cardinality(ActiveSet(t)) = Cardinality(ActiveSet(s)) + 1
<1>1. /\ FreeSet(t) = FreeSet(s) \ {p} /\ StandbySet(t) = StandbySet(s) \ {p}
      /\ ModifiedSet(t) = ModifiedSet(s) \ {p}
      /\ ActiveSet(t) = ActiveSet(s) \cup {p}
  BY OnePageMoves
<1>2. p \notin ActiveSet(s)
  BY DEF ActiveSet
<1> QED
  BY <1>1, <1>2, ActiveFinite

(* The first page of the free queue.                                       *)
LEMMA TakeFreeQueues ==
  ASSUME NEW s \in VmStates, NEW use \in PageUse \ {"Free"}, s.free # << >>,
         NEW h, QOK(s, h)
  PROVE  QOK(TakeFree(s, use), h)
<1> DEFINE p == Head(s.free)
           t == TakePage(s, p, use)
           u == [t EXCEPT !.free = Tail(@), !.stat.nfree = @ - 1]
           a == Kassert(s, s.page[p].referent = NullRef, "resident.c:124", u)
           ok == s.page[p].refcnt = 0 /\ s.page[p].nonzero = 0
<1>1. p \in Pages /\ s.free \in Seq(Pages)
  BY Parts DEF Queue
<1> HIDE DEF p
<1>2. /\ t.free = s.free /\ t.standby = s.standby /\ t.modified = s.modified
      /\ t.panic = s.panic /\ t \in VmStates
      /\ t.stat.nfree = s.stat.nfree /\ t.stat.nstandby = s.stat.nstandby
      /\ t.stat.nmodified = s.stat.nmodified /\ t.stat.nactive = s.stat.nactive + 1
      /\ \A q \in Pages \ {p} : SamePage(s, t, q)
      /\ t.page[p].use = use /\ t.page[p].refcnt = 1
  <2>1. use \in PageUse
    OBVIOUS
  <2>2. t = TakePage(s, p, use)
    OBVIOUS
  <2> HIDE DEF t
  <2> QED
    BY ONLY s \in VmStates, <1>1, <2>1, <2>2, TakePageFacts
<1> HIDE DEF t
<1>3. /\ u.free = Tail(s.free) /\ u.standby = s.standby /\ u.modified = s.modified
      /\ u.panic = s.panic /\ u.page = t.page
      /\ u.stat = [t.stat EXCEPT !.nfree = @ - 1]
  BY <1>2 DEF VmStates
<1> HIDE DEF u
<1>4. /\ u.stat.nfree = s.stat.nfree - 1 /\ u.stat.nstandby = s.stat.nstandby
      /\ u.stat.nmodified = s.stat.nmodified /\ u.stat.nactive = s.stat.nactive + 1
  BY <1>2, <1>3, Parts DEF Stats
<1>5. ASSUME s.panic = NoPanic, ok
      PROVE  QOK(u, h)
  <2>1. Placed(s, h)
    BY <1>5 DEF QOK
  <2>2. /\ p \in FreeSet(s) /\ Lists(Tail(s.free), FreeSet(s) \ {p})
        /\ Len(Tail(s.free)) = Len(s.free) - 1
    BY <1>1, <2>1, ListsTail DEF Placed, p
  <2>3. p \notin StandbySet(s) /\ p \notin ModifiedSet(s)
    BY <2>2 DEF FreeSet, StandbySet, ModifiedSet
  <2>4. \A q \in Pages \ {p} : SamePage(s, u, q)
    BY <1>2, <1>3 DEF SamePage
  <2>5. /\ FreeSet(u) = FreeSet(s) \ {p} /\ StandbySet(u) = StandbySet(s) \ {p}
        /\ ModifiedSet(u) = ModifiedSet(s) \ {p}
        /\ Cardinality(ActiveSet(u)) = Cardinality(ActiveSet(s)) + 1
    <3>1. s.page[p].refcnt = 0 /\ u.page[p].refcnt = 1 /\ u.page[p].use # "Free"
      BY <1>2, <1>3, <1>5
    <3> QED
      BY ONLY <1>1, <2>4, <3>1, TakenSets
  <2>6. StandbySet(u) = StandbySet(s) /\ ModifiedSet(u) = ModifiedSet(s)
    BY <2>3, <2>5
  <2>7. \A q \in Pages : /\ u.page[q].refcnt = 0 => u.page[q].use \in {"AnonPrivate", "Free"}
                         /\ u.page[q].use = "Free" => u.page[q].refcnt = 0
    BY <1>2, <1>3, <2>1, <2>4 DEF Placed, SamePage
  <2> QED
    BY <1>3, <1>4, <2>1, <2>2, <2>5, <2>6, <2>7 DEF Placed, QOK
<1>6. s.panic = NoPanic /\ ok => QOK(u, h)
  BY <1>5
<1>7. s.panic = NoPanic /\ ok => QOK(a, h)
  BY <1>6, KassertQueues, Zenon DEF NoPanic
<1> HIDE DEF a
<1>8. QOK(Kassert(s, ok, "resident.c:122", a), h)
  BY <1>7, KassertQueues, ZenonT(60) DEF NoPanic
<1> QED
  BY <1>8 DEF TakeFree, p, t, u, a

(* steal_page(): while the PTE of the first standby page becomes a swap    *)
(* PTE and its table loses a reference, the page is on no queue and is     *)
(* still counted as a standby page.                                        *)
LEMMA StealPageQueues ==
  ASSUME NEW s \in VmStates, NEW use \in PageUse \ {"Free"}, s.standby # << >>,
         QOK(s, NoPage)
  PROVE  QOK(StealPage(s, use), NoPage)
<1> DEFINE p   == Head(s.standby)
           ref == s.page[p].referent
           b   == [s EXCEPT !.standby = Tail(@),
                            !.table[ref[1]][ref[2]] = SwapPte(s.page[p].drumslot)]
           t   == PteBecameSwap(b, ref[1])
           v   == TakePage(t, p, use)
           u   == [v EXCEPT !.stat.nstandby = @ - 1]
           ok  == t.page[p].refcnt = 0 /\ t.page[p].nonzero = 0
           a   == Kassert(t, ok, "resident.c:81", u)
<1>1. p \in Pages /\ s.standby \in Seq(Pages)
  BY Parts DEF Queue
<1> HIDE DEF p
<1>2. ref[1] \in Pages /\ ref[2] \in Idx
  BY <1>1, PagePart
<1> HIDE DEF ref
<1>3. b \in VmStates
  <2>1. Tail(s.standby) \in Queue
    BY Parts DEF Queue
  <2>2. SwapPte(s.page[p].drumslot) \in Pte
    <3>1. s.page[p].drumslot \in Nat \cup {NoSlot}
      BY <1>1, PagePart
    <3> QED
      BY <1>1, <3>1, PteTypes
  <2>3. [s.table EXCEPT ![ref[1]][ref[2]] = SwapPte(s.page[p].drumslot)] \in TableMem
    BY <1>2, <2>2, Parts DEF TableMem
  <2> QED
    BY <2>1, <2>3 DEF VmStates
<1>4. /\ b.free = s.free /\ b.standby = Tail(s.standby) /\ b.modified = s.modified
      /\ b.stat = s.stat /\ b.page = s.page /\ b.panic = s.panic
  BY DEF VmStates
<1> HIDE DEF b
<1>5. NoPage \notin Pages /\ Hole(NoPage) = 0 /\ Hole(p) = 1
  BY <1>1, VmAssumption DEF NoPage, Pages, Hole
<1>6. QOK(b, p)
  <2> SUFFICES ASSUME s.panic = NoPanic PROVE Placed(b, p)
    BY <1>4 DEF QOK
  <2>1. Placed(s, NoPage)
    BY DEF QOK
  <2>2. StandbySet(s) \ {NoPage} = StandbySet(s)
    BY <1>5 DEF StandbySet
  <2>3. /\ p \in StandbySet(s) /\ Lists(Tail(s.standby), StandbySet(s) \ {p})
        /\ Len(Tail(s.standby)) = Len(s.standby) - 1
    BY <1>1, <2>1, <2>2, ListsTail DEF Placed, p
  <2>4. /\ FreeSet(b) = FreeSet(s) /\ StandbySet(b) = StandbySet(s)
        /\ ModifiedSet(b) = ModifiedSet(s) /\ ActiveSet(b) = ActiveSet(s)
    BY <1>4 DEF FreeSet, StandbySet, ModifiedSet, ActiveSet
  <2>5. s.stat.nstandby = Len(s.standby) /\ Len(s.standby) \in Nat
    BY <1>1, <1>5, <2>1 DEF Placed
  <2>6. b.stat.nstandby = Len(b.standby) + Hole(p)
    BY <1>4, <1>5, <2>3, <2>5
  <2> QED
    BY <1>4, <2>1, <2>3, <2>4, <2>6 DEF Placed
<1>7. t \in VmStates /\ QOK(t, p)
  BY <1>2, <1>3, <1>6, PteBecameSwapType, PteBecameSwapQueues
<1> HIDE DEF t
<1>8. /\ v.free = t.free /\ v.standby = t.standby /\ v.modified = t.modified
      /\ v.panic = t.panic /\ v \in VmStates
      /\ v.stat.nfree = t.stat.nfree /\ v.stat.nstandby = t.stat.nstandby
      /\ v.stat.nmodified = t.stat.nmodified /\ v.stat.nactive = t.stat.nactive + 1
      /\ \A q \in Pages \ {p} : SamePage(t, v, q)
      /\ v.page[p].use = use /\ v.page[p].refcnt = 1
  <2>1. use \in PageUse
    OBVIOUS
  <2>2. v = TakePage(t, p, use)
    OBVIOUS
  <2> HIDE DEF v
  <2> QED
    BY ONLY <1>1, <1>7, <2>1, <2>2, TakePageFacts
<1> HIDE DEF v
<1>9. /\ u.free = t.free /\ u.standby = t.standby /\ u.modified = t.modified
      /\ u.panic = t.panic /\ u.page = v.page
      /\ u.stat = [v.stat EXCEPT !.nstandby = @ - 1]
  BY <1>8 DEF VmStates
<1> HIDE DEF u
<1>10. /\ u.stat.nfree = t.stat.nfree /\ u.stat.nstandby = t.stat.nstandby - 1
       /\ u.stat.nmodified = t.stat.nmodified /\ u.stat.nactive = t.stat.nactive + 1
  BY <1>7, <1>8, <1>9, Parts DEF Stats
<1>11. ASSUME t.panic = NoPanic, ok
       PROVE  QOK(u, NoPage)
  <2>1. Placed(t, p)
    BY <1>7, <1>11 DEF QOK
  <2>2. p \in StandbySet(t) /\ Lists(t.standby, StandbySet(t) \ {p})
    BY <1>1, <2>1 DEF Placed
  <2>3. p \notin FreeSet(t) /\ p \notin ModifiedSet(t)
    BY <2>2 DEF FreeSet, StandbySet, ModifiedSet
  <2>4. \A q \in Pages \ {p} : SamePage(t, u, q)
    BY <1>8, <1>9 DEF SamePage
  <2>5. /\ FreeSet(u) = FreeSet(t) \ {p} /\ StandbySet(u) = StandbySet(t) \ {p}
        /\ ModifiedSet(u) = ModifiedSet(t) \ {p}
        /\ Cardinality(ActiveSet(u)) = Cardinality(ActiveSet(t)) + 1
    <3>1. t.page[p].refcnt = 0 /\ u.page[p].refcnt = 1 /\ u.page[p].use # "Free"
      BY <1>8, <1>9, <1>11
    <3> QED
      BY ONLY <1>1, <2>4, <3>1, TakenSets
  <2>6. FreeSet(u) = FreeSet(t) /\ ModifiedSet(u) = ModifiedSet(t)
    BY <2>3, <2>5
  <2>7. StandbySet(u) \ {NoPage} = StandbySet(t) \ {p}
    BY <1>5, <2>5 DEF StandbySet
  <2>8. \A q \in Pages : /\ u.page[q].refcnt = 0 => u.page[q].use \in {"AnonPrivate", "Free"}
                         /\ u.page[q].use = "Free" => u.page[q].refcnt = 0
    BY <1>8, <1>9, <2>1, <2>4 DEF Placed, SamePage
  <2>9. t.standby \in Seq(Pages) /\ t.stat.nstandby = Len(t.standby) + 1
    BY <1>5, <1>7, <2>1, Parts DEF Placed, Queue
  <2>10. u.stat.nstandby = Len(u.standby) + Hole(NoPage)
    BY <1>5, <1>9, <1>10, <2>9
  <2> QED
    BY <1>5, <1>9, <1>10, <2>1, <2>2, <2>5, <2>6, <2>7, <2>8, <2>10 DEF Placed, QOK
<1>12. t.panic = NoPanic /\ ok => QOK(u, NoPage)
  BY <1>11
<1>13. QOK(a, NoPage)
  BY <1>7, <1>12, KassertQueues, Zenon DEF NoPanic
<1> HIDE DEF a
<1>14. QOK(Kassert(s, s.page[p].use = "AnonPrivate", "resident.c:78", a), NoPage)
  BY <1>13, KassertQueues, Zenon DEF NoPanic
<1> QED
  BY <1>14, Zenon DEF StealPage, p, ref, b, t, u, v, a

(* vmp_page_alloc_locked().                                                *)
LEMMA PageAllocQueues ==
  ASSUME NEW s \in VmStates, NEW use \in PageUse \ {"Free"}, QOK(s, NoPage)
  PROVE  QOK(PageAlloc(s, use), NoPage)
<1>1. QOK(CheckShortage(s), NoPage)
  <2>1. SameQueues(s, CheckShortage(s)) /\ CheckShortage(s).panic = s.panic
    BY DEF CheckShortage, VmStates, SameQueues, SameLists, SamePage
  <2> QED
    BY <2>1, ElsewhereQueues DEF QOK
<1>2. CanAlloc(s) =>
        QOK(IF s.free # << >> THEN TakeFree(s, use) ELSE StealPage(s, use), NoPage)
  BY TakeFreeQueues, StealPageQueues DEF CanAlloc
<1> QED
  BY <1>1, <1>2, ThenQueues DEF PageAlloc

-----------------------------------------------------------------------------
(* The wiring of page tables, and the critical sections built from it.     *)
LEMMA SetPteQueues ==
  ASSUME NEW s \in VmStates, NEW ref, NEW pte, NEW h, QOK(s, h)
  PROVE  QOK(SetPte(s, ref, pte), h)
<1> DEFINE t == [s EXCEPT !.table[ref[1]][ref[2]] = pte]
<1>1. SameQueues(s, t)
  BY DEF VmStates, SameQueues, SameLists, SamePage
<1> HIDE DEF t
<1>2. QOK(Then(s, t), h)
  BY <1>1, ElsewhereQueues, ThenQueues
<1> QED
  BY <1>2 DEF SetPte, t

(* The assignment to referent_pte.                                         *)
LEMMA SetReferentQueues ==
  ASSUME NEW s \in VmStates, NEW p \in Pages, NEW ref, NEW h, QOK(s, h)
  PROVE  QOK(SetReferent(s, p, ref), h)
<1> DEFINE t == [s EXCEPT !.page[p].referent = ref]
<1>1. SameQueues(s, t)
  BY CountsQueues, Zenon
<1> HIDE DEF t
<1>2. QOK(Then(s, t), h)
  BY <1>1, ElsewhereQueues, ThenQueues
<1> QED
  BY <1>2, Zenon DEF SetReferent, t

(* vmp_md_setup_table_pointers() and what goes before it.                  *)
LEMMA EnterTableQueues ==
  ASSUME NEW s \in VmStates, NEW dir \in Pages, NEW i \in Idx, NEW p \in Pages,
         NEW isNew \in BOOLEAN, NEW h, QOK(s, h)
  PROVE  QOK(EnterTable(s, dir, i, p, isNew), h)
<1> DEFINE c == [s EXCEPT !.page[p].nonzero = @ + 1, !.page[p].nonswap = @ + 1]
           t == Then(s, c)
           w == WslInsert(t, TableKey(p), TRUE)
           u == NonswapPteCreated(w, dir, isNew)
<1>1. c \in VmStates
  <2>1. s.page[p].nonzero + 1 \in Int /\ s.page[p].nonswap + 1 \in Int
    BY PagePart
  <2>2. [s.page[p] EXCEPT !.nonzero = @ + 1, !.nonswap = @ + 1] \in PageRec
    BY <2>1, PagePart, PageRecUpdate2, Zenon
  <2>3. [s.page EXCEPT ![p].nonzero = @ + 1, ![p].nonswap = @ + 1] \in PageDb
    BY <2>2, Parts, Zenon DEF PageDb
  <2> QED
    BY <2>3 DEF VmStates
<1>2. SameQueues(s, c)
  BY CountsQueues, Zenon
<1> HIDE DEF c
<1>3. t \in VmStates /\ QOK(t, h)
  <2>1. t \in VmStates
    BY <1>1, PanicType
  <2>2. QOK(t, h)
    BY <1>2, ElsewhereQueues, ThenQueues
  <2> QED
    BY <2>1, <2>2
<1> HIDE DEF t
<1>4. w \in VmStates /\ QOK(w, h)
  BY <1>3, TableKeyType, WslInsertType, WslInsertQueues
<1> HIDE DEF w
<1>5. u \in VmStates /\ QOK(u, h)
  BY <1>4, NonswapPteCreatedType, NonswapPteCreatedQueues
<1> HIDE DEF u
<1>6. QOK(SetPte(u, << dir, i >>, HwPte(p, TRUE)), h)
  BY <1>5, SetPteQueues
<1> QED
  BY <1>6 DEF EnterTable, c, t, w, u

(* The Zero case of vmp_wire_pte().                                        *)
LEMMA NewTableQueues ==
  ASSUME NEW s \in VmStates, NEW dir \in Pages, NEW i \in Idx, NEW use \in PageUse \ {"Free"},
         QOK(s, NoPage)
  PROVE  QOK(NewTable(s, dir, i, use), NoPage)
<1> DEFINE p == AllocatedPage(s)
           a == PageAlloc(s, use)
           t == PageRetain(a, p)
           r == SetReferent(t, p, << dir, i >>)
           u == EnterTable(r, dir, i, p, TRUE)
<1>1. use \in PageUse /\ << dir, i >> \in PteAddr
  BY DEF PteAddr
<1>2. CanAlloc(s) => p \in Pages /\ a \in VmStates /\ QOK(a, NoPage)
  BY <1>1, PageAllocType, PageAllocQueues
<1> HIDE DEF p, a
<1>3. CanAlloc(s) => t \in VmStates /\ QOK(t, NoPage)
  BY <1>2, PageRetainType, PageRetainQueues
<1> HIDE DEF t
<1>4. CanAlloc(s) => r \in VmStates /\ QOK(r, NoPage)
  BY <1>1, <1>2, <1>3, SetReferentType, SetReferentQueues
<1> HIDE DEF r
<1>5. CanAlloc(s) => QOK(u, NoPage)
  BY <1>2, <1>4, EnterTableQueues
<1> HIDE DEF u
<1>6. QOK(Kassert(s, CanAlloc(s), "tables.c:226", u), NoPage)
  BY <1>5, KassertQueues, Zenon DEF NoPanic
<1> QED
  BY <1>6 DEF NewTable, p, a, t, r, u

(* One round of vmp_wire_pte().                                            *)
LEMMA WireTableQueues ==
  ASSUME NEW s \in VmStates, NEW dir \in Pages, NEW i \in Idx, NEW use \in PageUse \ {"Free"},
         QOK(s, NoPage)
  PROVE  QOK(WireTable(s, dir, i, use), NoPage)
<1> DEFINE q == s.table[dir][i].page
<1>1. q \in Pages
  BY TablePart
<1> HIDE DEF q
<1>2. QOK(NonswapPteCreated(s, q, TRUE), NoPage)
  BY <1>1, NonswapPteCreatedQueues
<1>3. QOK(EnterTable(PageRetain(PageRetain(s, q), q), dir, i, q, FALSE), NoPage)
  BY <1>1, PageRetainType, PageRetainQueues, EnterTableQueues
<1>4. QOK(NewTable(s, dir, i, use), NoPage)
  BY NewTableQueues
<1>5. QOK(Kfatal(s, "tables.c:203"), NoPage) /\ QOK(Kfatal(s, "tables.c:216"), NoPage)
  BY KfatalQueues, Zenon DEF NoPanic
<1> QED
  BY <1>2, <1>3, <1>4, <1>5 DEF WireTable, q

(* cluster_anon(): the dirty bit is cleared when the page is on no queue.  *)
LEMMA CleanPageQueues ==
  ASSUME NEW s \in VmStates, NEW p \in Pages, NEW slot, NEW h, QOK(s, h)
  PROVE  QOK(CleanPage(s, p, slot), h)
<1> DEFINE r == PageRetain(s, p)
           t == [r EXCEPT !.page[p].drumslot = slot, !.page[p].dirty = FALSE]
<1>1. r \in VmStates /\ QOK(r, h)
  BY PageRetainType, PageRetainQueues
<1>2. r.panic = NoPanic => r.page[p].refcnt > 0
  <2> DEFINE n == [s EXCEPT !.page[p].refcnt = @ + 1]
             m == [n EXCEPT !.modified = Unlink(@, p), !.stat.nmodified = @ - 1,
                            !.stat.nactive = @ + 1]
             b == [n EXCEPT !.standby = Unlink(@, p), !.stat.nstandby = @ - 1,
                            !.stat.nactive = @ + 1]
  <2>1. s.page[p].refcnt \in Nat
    BY PagePart
  <2>2. n.page[p].refcnt = s.page[p].refcnt + 1
    BY DEF VmStates, PageDb, PageRec
  <2>3. m.page = n.page /\ b.page = n.page
    BY DEF VmStates
  <2>4. \A x \in PanicSite : [s EXCEPT !.panic = x].panic # NoPanic
    BY DEF VmStates, PanicSite, NoPanic
  <2> HIDE DEF n, m, b
  <2>5. /\ [s EXCEPT !.panic = "resident.c:145"].panic # NoPanic
        /\ [s EXCEPT !.panic = "resident.c:147"].panic # NoPanic
        /\ [s EXCEPT !.panic = "resident.c:151"].panic # NoPanic
    BY <2>4 DEF PanicSite
  <2>6. r.panic = NoPanic => r \in {n, m, b}
    BY <2>5 DEF PageRetain, Kassert, Then, n, m, b
  <2> QED
    BY <2>1, <2>2, <2>3, <2>6
<1> HIDE DEF r
<1>3. /\ SameLists(r, t) /\ t.panic = r.panic /\ \A q \in Pages \ {p} : SamePage(r, t, q)
      /\ t.page[p].use = r.page[p].use /\ t.page[p].refcnt = r.page[p].refcnt
  BY <1>1 DEF VmStates, PageDb, PageRec, SameLists, SamePage
<1> HIDE DEF t
<1>4. QOK(t, h)
  <2> SUFFICES ASSUME r.panic = NoPanic PROVE Placed(t, h)
    BY <1>3 DEF QOK
  <2>1. Placed(r, h) /\ r.page[p].refcnt > 0
    BY <1>1, <1>2 DEF QOK
  <2>2. /\ FreeSet(t) = FreeSet(r) /\ StandbySet(t) = StandbySet(r)
        /\ ModifiedSet(t) = ModifiedSet(r) /\ ActiveSet(t) = ActiveSet(r)
    BY <1>3, <2>1 DEF SamePage, FreeSet, StandbySet, ModifiedSet, ActiveSet
  <2>3. \A q \in Pages : /\ t.page[q].refcnt = 0 => t.page[q].use \in {"AnonPrivate", "Free"}
                         /\ t.page[q].use = "Free" => t.page[q].refcnt = 0
    BY <1>3, <2>1 DEF Placed, SamePage
  <2> QED
    BY <1>3, <2>1, <2>2, <2>3 DEF Placed, SameLists
<1> DEFINE ok == r.page[p].use \in {"AnonPrivate", "PML1", "PML2", "PML3", "PML4"}
<1> HIDE DEF ok
<1>5. QOK(Kassert(r, ok, "pgwriter.c:164", t), h)
  BY <1>1, <1>4, KassertQueues, Zenon DEF NoPanic
<1> QED
  BY <1>5 DEF CleanPage, r, t, ok

(* Every critical section keeps the queues.                                *)
LEMMA SectionQueues ==
  ASSUME NEW s \in VmStates, QOK(s, NoPage), NEW t, Section(s, t)
  PROVE  QOK(t, NoPage)
<1>1. "AnonPrivate" \in PageUse \ {"Free"} /\ TableUses \subseteq PageUse \ {"Free"}
  BY DEF PageUse, TableUses
<1>2. QOK(PageAlloc(s, "AnonPrivate"), NoPage) /\ PageAlloc(s, "AnonPrivate") \in VmStates
  BY <1>1, PageAllocQueues, PageAllocType
<1>3. CanAlloc(s) => AllocatedPage(s) \in Pages
  BY <1>1, PageAllocType
<1>4. /\ \A p \in Pages, w \in BOOLEAN : HwPte(p, w) \in Pte
      /\ BusyPte \in Pte /\ \A ref \in PteAddr : ref[1] \in Pages
  <2>1. NoSlot \in Nat \cup {NoSlot} /\ 0 \in Pages
    BY ConstantTypes
  <2> QED
    BY <2>1, PteTypes DEF PteAddr
<1>5. ASSUME NEW ref \in PteAddr, NEW k \in WsKey, NEW w \in BOOLEAN, CanAlloc(s),
             t = ZeroFill(s, ref, k, w)
      PROVE  QOK(t, NoPage)
  <2> DEFINE p == AllocatedPage(s)
             a == SetPte(PageAlloc(s, "AnonPrivate"), ref, HwPte(p, w))
             n == NonswapPteCreated(a, ref[1], TRUE)
             u == WslInsert(n, k, FALSE)
  <2>1. p \in Pages
    BY <1>3, <1>5
  <2> HIDE DEF p
  <2>2. a \in VmStates /\ QOK(a, NoPage)
    BY <1>2, <1>4, <2>1, SetPteType, SetPteQueues
  <2> HIDE DEF a
  <2>3. n \in VmStates /\ QOK(n, NoPage)
    BY <1>4, <2>2, NonswapPteCreatedType, NonswapPteCreatedQueues
  <2> HIDE DEF n
  <2>4. u \in VmStates /\ QOK(u, NoPage)
    BY <2>3, WslInsertType, WslInsertQueues
  <2> HIDE DEF u
  <2>5. QOK(SetReferent(u, p, ref), NoPage)
    BY <2>1, <2>4, SetReferentQueues
  <2> QED
    BY <1>5, <2>5 DEF ZeroFill, p, a, n, u
<1>6. ASSUME NEW ref \in PteAddr, NEW k \in WsKey, CanAlloc(s), t = StartRead(s, ref, k)
      PROVE  QOK(t, NoPage)
  <2> DEFINE p == AllocatedPage(s)
             r == SetReferent(PageAlloc(s, "AnonPrivate"), p, ref)
             a == SetPte(r, ref, BusyPte)
             n == NonswapPteCreated(a, ref[1], FALSE)
  <2>1. p \in Pages
    BY <1>3, <1>6
  <2> HIDE DEF p
  <2>2. r \in VmStates /\ QOK(r, NoPage)
    BY <1>2, <2>1, SetReferentType, SetReferentQueues
  <2> HIDE DEF r
  <2>3. a \in VmStates /\ QOK(a, NoPage)
    BY <1>4, <2>2, SetPteType, SetPteQueues
  <2> HIDE DEF a
  <2>4. n \in VmStates /\ QOK(n, NoPage)
    BY <1>4, <2>3, NonswapPteCreatedType, NonswapPteCreatedQueues
  <2> HIDE DEF n
  <2>5. QOK(WslInsert(n, k, TRUE), NoPage)
    BY <2>4, WslInsertQueues
  <2> QED
    BY <1>6, <2>5 DEF StartRead, p, r, a, n
<1>7. ASSUME NEW ref \in PteAddr, NEW k \in WsKey, NEW p \in Pages
      PROVE  /\ QOK(Reclaim(s, ref, k, p), NoPage)
             /\ QOK(WslUnlockEntry(SetPte(s, ref, HwPte(p, FALSE)), k), NoPage)
  <2> DEFINE a == SetPte(PageRetain(s, p), ref, HwPte(p, FALSE))
             b == SetPte(s, ref, HwPte(p, FALSE))
  <2>1. a \in VmStates /\ QOK(a, NoPage) /\ b \in VmStates /\ QOK(b, NoPage)
    BY <1>4, PageRetainType, PageRetainQueues, SetPteType, SetPteQueues
  <2> HIDE DEF a, b
  <2>2. QOK(WslInsert(a, k, FALSE), NoPage) /\ QOK(WslUnlockEntry(b, k), NoPage)
    BY <2>1, WslInsertQueues, WslEntryQueues
  <2> QED
    BY <2>2 DEF Reclaim, a, b
<1>8. QOK(Kfatal(s, "fault.c:170"), NoPage)
  BY KfatalQueues, Zenon DEF NoPanic
<1>9. ASSUME NEW p \in Pages
      PROVE  /\ QOK(NonswapPteCreated(s, p, TRUE), NoPage)
             /\ QOK(PteDeleted(s, p), NoPage) /\ QOK(PageRelease(s, p), NoPage)
  BY NonswapPteCreatedQueues, PteDeletedQueues, PageReleaseQueues
<1>10. ASSUME NEW dir \in Pages, NEW i \in Idx, NEW use \in TableUses
       PROVE  QOK(WireTable(s, dir, i, use), NoPage)
  BY <1>1, WireTableQueues
<1>11. ASSUME NEW ref \in PteAddr, NEW p \in Pages, NEW w \in BOOLEAN
       PROVE  QOK(SetPte(s, ref, HwPte(p, w)), NoPage)
  BY SetPteQueues
<1>12. s.wsl.queue # << >> => QOK(WslTrim1(s), NoPage)
  BY WslTrim1Queues
<1> QED
  BY <1>2, <1>5, <1>6, <1>7, <1>8, <1>9, <1>10, <1>11, <1>12 DEF Section

-----------------------------------------------------------------------------
(* The root table is in use and every other page on the free queue.        *)
LEMMA InitQueues == Init => Placed(vm, NoPage)
<1> SUFFICES ASSUME Init PROVE Placed(vm, NoPage)
  OBVIOUS
<1>1. /\ vm.free = [i \in 1 .. NPages - 1 |-> i] /\ vm.standby = << >> /\ vm.modified = << >>
      /\ vm.stat.nfree = NPages - 1 /\ vm.stat.nstandby = 0 /\ vm.stat.nmodified = 0
      /\ vm.stat.nactive = 1
  BY DEF Init, VmInit
<1>2. \A p \in Pages : /\ vm.page[p].use = IF p = Root THEN TableUse[Levels] ELSE "Free"
                       /\ vm.page[p].refcnt = IF p = Root THEN 1 ELSE 0
  BY DEF Init, VmInit
<1>3. TableUse[Levels] \notin {"Free", "AnonPrivate"}
  <2>1. Levels \in {2, 3, 4}
    BY VmAssumption
  <2> QED
    BY <2>1 DEF TableUse
<1>4. /\ FreeSet(vm) = Pages \ {Root} /\ StandbySet(vm) = {} /\ ModifiedSet(vm) = {}
      /\ ActiveSet(vm) = {Root}
  <2>1. Root \in Pages
    BY ConstantTypes DEF Root
  <2> QED
    BY <1>2, <1>3, <2>1 DEF FreeSet, StandbySet, ModifiedSet, ActiveSet
<1>5. Len(vm.free) = NPages - 1 /\ Lists(vm.free, Pages \ {Root})
  <2>1. NPages - 1 \in Nat
    BY VmAssumption
  <2>2. vm.free \in Seq(Nat) /\ Len(vm.free) = NPages - 1
    BY <1>1, <2>1
  <2>3. Pages \ {Root} = 1 .. NPages - 1
    BY VmAssumption DEF Pages, Root
  <2> QED
    BY <1>1, <2>2, <2>3 DEF Lists
<1>6. Lists(<< >>, {}) /\ Len(<< >>) = 0
  BY DEF Lists
<1>7. NoPage \notin Pages /\ Hole(NoPage) = 0
  BY VmAssumption DEF NoPage, Pages, Hole
<1>8. Cardinality({Root}) = 1
  BY FS_Singleton
<1>9. \A p \in Pages : /\ vm.page[p].refcnt = 0 => vm.page[p].use \in {"AnonPrivate", "Free"}
                       /\ vm.page[p].use = "Free" => vm.page[p].refcnt = 0
  BY <1>2, <1>3
<1>10. {} \ {NoPage} = {}
  OBVIOUS
<1>11. /\ Lists(vm.free, FreeSet(vm)) /\ Lists(vm.standby, StandbySet(vm) \ {NoPage})
       /\ Lists(vm.modified, ModifiedSet(vm))
  BY <1>1, <1>4, <1>5, <1>6, <1>10
<1>12. vm.stat.nstandby = Len(vm.standby) + Hole(NoPage) /\ vm.stat.nmodified = Len(vm.modified)
  BY <1>1, <1>6, <1>7
<1>13. vm.stat.nfree = Len(vm.free) /\ vm.stat.nactive = Cardinality(ActiveSet(vm))
  BY <1>1, <1>4, <1>5, <1>8
<1> QED
  BY <1>7, <1>9, <1>11, <1>12, <1>13 DEF Placed

(* Every step of the simulator keeps the queues.                           *)
LEMMA NextQueues ==
  TypeInv /\ Placed(vm, NoPage) /\ [Next]_vars => Placed(vm, NoPage)'
<1> SUFFICES ASSUME TypeInv, Placed(vm, NoPage), [Next]_vars PROVE Placed(vm', NoPage)
  BY DEF Placed, FreeSet, StandbySet, ModifiedSet, ActiveSet
<1>1. vm \in VmStates /\ QOK(vm, NoPage)
  BY DEF TypeInv, TypeOK, QOK
<1>2. CASE Quiet
  <2>1. SameQueues(vm, vm')
    BY <1>2 DEF Quiet, SameQueues, SameLists, SamePage
  <2> QED
    BY <2>1, SameQueuesPlaced
<1>3. CASE vm'.panic = NoPanic /\ Section(vm, vm')
  BY <1>1, <1>3, SectionQueues DEF QOK
<1>4. CASE WriterCollect
  <2> DEFINE p == Head(vm.modified)
  <2>1. p \in Pages
    BY <1>1, <1>4, Parts DEF WriterCollect, Queue
  <2>2. PICK slot, w, pf1 : Commit(CleanPage(vm, p, slot), flt, w, pf1)
    BY <1>4 DEF WriterCollect
  <2>3. Quiet \/ (vm' = CleanPage(vm, p, slot) /\ vm'.panic = NoPanic)
    BY <1>1, <2>2, CommitShape
  <2>4. QOK(CleanPage(vm, p, slot), NoPage)
    BY <1>1, <2>1, CleanPageQueues
  <2> QED
    BY <1>2, <2>3, <2>4 DEF QOK
<1> QED
  BY <1>2, <1>3, <1>4, StepShape

(* In every reachable state, for any number of pages, threads and slots,   *)
(* a page is on exactly the queue that its use, reference count and dirty  *)
(* bit name, once: TAILQ_REMOVE in vmp_page_retain_locked() and the head   *)
(* that steal_page() and vmp_pgwriter() take are always what they should   *)
(* be.                                                                     *)
THEOREM QueuesPlaced == Spec => []QueuePlacement
<1>1. TypeInv /\ Placed(vm, NoPage) => QueuePlacement
  <2> SUFFICES ASSUME TypeInv, Placed(vm, NoPage) PROVE QueuePlacement
    OBVIOUS
  <2>1. vm.free \in Seq(Pages) /\ vm.standby \in Seq(Pages) /\ vm.modified \in Seq(Pages)
    BY Parts DEF TypeInv, TypeOK, Queue
  <2>2. StandbySet(vm) \ {NoPage} = StandbySet(vm)
    <3>1. NoPage \notin Pages
      BY VmAssumption DEF NoPage, Pages
    <3> QED
      BY <3>1 DEF StandbySet
  <2>3. /\ Lists(vm.free, FreeSet(vm)) /\ Lists(vm.standby, StandbySet(vm))
        /\ Lists(vm.modified, ModifiedSet(vm))
        /\ \A p \in Pages : vm.page[p].refcnt = 0 => vm.page[p].use \in {"AnonPrivate", "Free"}
    BY <2>2 DEF Placed
  <2>4. /\ Elements(vm.free) = FreeSet(vm) /\ Distinct(vm.free)
        /\ Elements(vm.standby) = StandbySet(vm) /\ Distinct(vm.standby)
        /\ Elements(vm.modified) = ModifiedSet(vm) /\ Distinct(vm.modified)
    BY <2>1, <2>3, ListsDistinct
  <2> QED
    BY <2>3, <2>4 DEF QueuePlacement, Anon, FreeSet, StandbySet, ModifiedSet
<1> QED
  BY <1>1, InitType, NextType, InitQueues, NextQueues, PTL DEF Spec

(* vmstat, which decides whether there is a shortage and when sleeping     *)
(* threads are woken, is exact in every reachable state.                   *)
THEOREM StatisticsExact == Spec => []VmstatExact
<1>1. TypeInv /\ Placed(vm, NoPage) => VmstatExact
  <2> SUFFICES ASSUME TypeInv, Placed(vm, NoPage) PROVE VmstatExact
    OBVIOUS
  <2>1. vm.stat \in Stats /\ vm.standby \in Seq(Pages)
    BY Parts DEF TypeInv, TypeOK, Queue
  <2>2. Hole(NoPage) = 0
    BY VmAssumption DEF NoPage, Pages, Hole
  <2>3. /\ vm.stat.nfree = Len(vm.free) /\ vm.stat.nstandby = Len(vm.standby)
        /\ vm.stat.nmodified = Len(vm.modified)
        /\ vm.stat.nactive = Cardinality(ActiveSet(vm))
    BY <2>1, <2>2 DEF Placed
  <2> QED
    BY <2>1, <2>3 DEF VmstatExact, Stats, ActiveSet
<1> QED
  BY <1>1, InitType, NextType, InitQueues, NextQueues, PTL DEF Spec
=============================================================================
