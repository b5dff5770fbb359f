----------------------------- MODULE SlotProofs -----------------------------
(***************************************************************************)
(* The slots of the paging file and what they hold.  A slot belongs to one *)
(* page or to one swap PTE: every function but two can only drop a slot    *)
(* that a page or a PTE had; steal_page() moves one from a page to its PTE *)
(* and cluster_anon() gives a page one that the bitmap says is free.       *)
(* And a page that counts as clean holds what its slot does: only a store  *)
(* through a writeable PTE changes its contents, only the page writer and  *)
(* the end of a read make a page clean, and an allocated page is zeroed.   *)
(***************************************************************************)
EXTENDS MapProofs

(* The slot of a page and that of a PTE, NoSlot if it has none.            *)
PageSlot(s, p)   == s.page[p].drumslot
PteSlot(s, d, i) == IF s.table[d][i].kind = "Swap" THEN s.table[d][i].slot ELSE NoSlot

(* In t nobody has a slot but those who had it in s.                       *)
SlotsKept(s, t) ==
  /\ t.panic = NoPanic => s.panic = NoPanic
  /\ \A p \in Pages : PageSlot(t, p) \in {PageSlot(s, p), NoSlot}
  /\ \A d \in Pages, i \in Idx : PteSlot(t, d, i) \in {PteSlot(s, d, i), NoSlot}

(* A page counts as clean while no store can reach it unnoticed: its dirty *)
(* bit is clear and its PTE is busy, in transition or not writeable.       *)
Clean(s, p) ==
  /\ IsAnon(s, p) /\ ~s.page[p].dirty
  /\ LET pte == Entry(s, s.page[p].referent)
     IN  \/ pte.kind = "Busy"
         \/ pte.page = p /\ (pte.kind = "Trans" \/ (pte.kind = "Valid" /\ ~pte.writeable))

(* From s to t the pages keep their contents and slots, and none becomes   *)
(* an anonymous page, clean or the page of another PTE, except x.          *)
Tidied(s, t, x) ==
  /\ \A p \in Pages : t.page[p].drumslot = s.page[p].drumslot /\ t.data[p] = s.data[p]
  /\ \A p \in Pages \ {x} :
       IsAnon(t, p) => IsAnon(s, p) /\ t.page[p].referent = s.page[p].referent
  /\ \A p \in Pages \ {x} : Clean(t, p) => Clean(s, p)

(* Both, of a function that makes no page but the given ones anonymous.    *)
Still(s, t) == SlotsKept(s, t) /\ Tidied(s, t, NoPage)

(* Every slot in use is in the bitmap B and has one owner.  Pages of any   *)
(* use are meant: a page that is free or a table must not have kept one.   *)
Owned(s, B) ==
  /\ \A p \in Pages : PageSlot(s, p) \in B \cup {NoSlot}
  /\ \A d \in Pages, i \in Idx : PteSlot(s, d, i) \in B \cup {NoSlot}
  /\ \A p, q \in Pages : PageSlot(s, p) = PageSlot(s, q) => p = q \/ PageSlot(s, p) = NoSlot
  /\ \A d, e \in Pages, i, j \in Idx :
       PteSlot(s, d, i) = PteSlot(s, e, j) => (d = e /\ i = j) \/ PteSlot(s, d, i) = NoSlot
  /\ \A p, d \in Pages, i \in Idx :
       PageSlot(s, p) = PteSlot(s, d, i) => PageSlot(s, p) = NoSlot

(* Nothing is said of the state that a panic leaves inside a section.      *)
SlotOK(s, B) == s.panic = NoPanic => Owned(s, B)

(* Functions that only drop slots keep the owners.                         *)
LEMMA KeptOwned ==
  ASSUME NEW s, NEW t, NEW B, SlotsKept(s, t), SlotOK(s, B)
  PROVE  SlotOK(t, B)
<1> SUFFICES ASSUME t.panic = NoPanic PROVE Owned(t, B)
  BY DEF SlotOK
<1>1. /\ Owned(s, B)
      /\ \A p \in Pages : PageSlot(t, p) \in {PageSlot(s, p), NoSlot}
      /\ \A d \in Pages, i \in Idx : PteSlot(t, d, i) \in {PteSlot(s, d, i), NoSlot}
  BY DEF SlotsKept, SlotOK
<1> QED
  BY ONLY <1>1 DEF Owned

(* One such function after another.                                        *)
LEMMA KeptThen ==
  ASSUME NEW s, NEW t, NEW u, SlotsKept(s, t), SlotsKept(t, u)
  PROVE  SlotsKept(s, u)
  BY DEF SlotsKept

(* ... which keeps pages tidy as well, ...                                 *)
LEMMA TidiedThen ==
  ASSUME NEW s, NEW t, NEW u, NEW x, Tidied(s, t, x), Tidied(t, u, x)
  PROVE  Tidied(s, u, x)
  BY DEF Tidied

(* A page may be left out.                                                 *)
LEMMA TidiedBut ==
  ASSUME NEW s, NEW t, NEW x, Tidied(s, t, NoPage)
  PROVE  Tidied(s, t, x)
<1>1. NoPage \notin Pages
  BY DEF NoPage, Pages
<1> QED
  BY <1>1 DEF Tidied

(* ... and both.                                                           *)
LEMMA StillThen ==
  ASSUME NEW s, NEW t, NEW u, Still(s, t), Still(t, u)
  PROVE  Still(s, u)
  BY KeptThen, TidiedThen DEF Still

(* Nothing that the two relations are about is changed, but for a page     *)
(* that becomes free or deleted or a dirty one.                            *)
LEMMA StillSame ==
  ASSUME NEW s, NEW t, t.panic = s.panic, t.table = s.table, t.data = s.data,
         \A p \in Pages :
           /\ t.page[p].drumslot = s.page[p].drumslot
           /\ t.page[p].referent = s.page[p].referent
           /\ t.page[p].use \in {s.page[p].use, "Free", "Deleted"}
           /\ t.page[p].dirty = s.page[p].dirty
  PROVE  Still(s, t)
<1>1. SlotsKept(s, t)
  BY DEF SlotsKept, PageSlot, PteSlot
<1>2. \A p \in Pages : IsAnon(t, p) => IsAnon(s, p)
  BY DEF IsAnon
<1>3. \A p \in Pages : Clean(t, p) => Clean(s, p)
  <2> SUFFICES ASSUME NEW p \in Pages, Clean(t, p) PROVE Clean(s, p)
    OBVIOUS
  <2>1. Entry(t, t.page[p].referent) = Entry(s, s.page[p].referent)
    BY DEF Entry
  <2>2. IsAnon(s, p) /\ t.page[p].dirty = s.page[p].dirty
    BY <1>2 DEF Clean
  <2> QED
    BY ONLY Clean(t, p), <2>1, <2>2 DEF Clean
<1> QED
  BY <1>1, <1>2, <1>3 DEF Still, Tidied

(* The queues and the working set list are no part of either.              *)
LEMMA StillRest ==
  ASSUME NEW s, NEW t, t.panic = s.panic, t.table = s.table, t.data = s.data, t.page = s.page
  PROVE  Still(s, t)
  BY StillSame

(* Code that changes nothing drops no slot.                                *)
LEMMA StillSelf == \A s : Still(s, s)
  BY DEF Still, Tidied, SlotsKept

(* kassert() and what follows it.                                          *)
LEMMA KassertKept ==
  ASSUME NEW s \in VmStates, NEW ok, NEW site, site # NoPanic, NEW t,
         s.panic = NoPanic /\ ok => Still(s, t)
  PROVE  Still(s, Kassert(s, ok, site, t))
<1> DEFINE x == [s EXCEPT !.panic = site]
<1>1. x.panic = site /\ x.page = s.page /\ x.table = s.table /\ x.data = s.data
  BY DEF VmStates
<1> HIDE DEF x
<1>2. Still(s, x)
  <2>1. SlotsKept(s, x)
    BY <1>1 DEF SlotsKept, PageSlot, PteSlot
  <2>2. \A p \in Pages : Clean(x, p) => Clean(s, p)
    BY ONLY <1>1, Zenon DEF Clean, IsAnon, Entry
  <2> QED
    BY <1>1, <2>1, <2>2 DEF Still, Tidied, IsAnon
<1>3. Still(s, s)
  BY StillSelf
<1> QED
  BY <1>2, <1>3 DEF Kassert, Then, x

(* What follows a call that may have failed.                               *)
LEMMA ThenKept ==
  ASSUME NEW s, NEW t, s.panic = NoPanic => Still(s, t)
  PROVE  Still(s, Then(s, t))
  BY StillSelf DEF Then

(* The same of the slots alone.                                            *)
LEMMA KassertSlots ==
  ASSUME NEW s \in VmStates, NEW ok, NEW site, site # NoPanic, NEW t,
         s.panic = NoPanic /\ ok => SlotsKept(s, t)
  PROVE  SlotsKept(s, Kassert(s, ok, site, t))
<1> DEFINE x == [s EXCEPT !.panic = site]
<1>1. x.panic = site /\ x.page = s.page /\ x.table = s.table
  BY DEF VmStates
<1> HIDE DEF x
<1>2. SlotsKept(s, x) /\ SlotsKept(s, s)
  BY <1>1 DEF SlotsKept, PageSlot, PteSlot
<1> QED
  BY <1>2 DEF Kassert, Then, x

(* ... after a call that may have failed, ...                              *)
LEMMA ThenSlots ==
  ASSUME NEW s, NEW t, s.panic = NoPanic => SlotsKept(s, t)
  PROVE  SlotsKept(s, Then(s, t))
<1>1. SlotsKept(s, s)
  BY DEF SlotsKept
<1> QED
  BY <1>1 DEF Then

(* ... and what such a call does to the contents of the pages.             *)
LEMMA ThenTidied ==
  ASSUME NEW s, NEW t, NEW x, s.panic = NoPanic => Tidied(s, t, x)
  PROVE  Tidied(s, Then(s, t), x)
<1>1. Tidied(s, s, x)
  BY DEF Tidied
<1> QED
  BY <1>1 DEF Then

(* kfatal().                                                               *)
LEMMA KfatalKept ==
  ASSUME NEW s \in VmStates, NEW site, site # NoPanic
  PROVE  Still(s, Kfatal(s, site))
  BY KassertKept DEF Kfatal

(* The counts of struct vm_page, a use that is no anonymous page's, and    *)
(* the referent of a page that is not anonymous.                           *)
LEMMA FieldsKept ==
  ASSUME NEW s \in VmStates, NEW p \in Pages, NEW a, NEW b
  PROVE  /\ Still(s, [s EXCEPT !.page[p].refcnt = a])
         /\ Still(s, [s EXCEPT !.page[p].nonswap = a])
         /\ Still(s, [s EXCEPT !.page[p].nonzero = a])
         /\ Still(s, [s EXCEPT !.page[p].nonzero = a, !.page[p].nonswap = b])
         /\ Still(s, [s EXCEPT !.page[p].nonzero = a, !.page[p].use = "Deleted"])
         /\ ~IsAnon(s, p) =>
              Still(s, [s EXCEPT !.page[p].nonswap = a, !.page[p].referent = b])
<1>1. s.page \in [Pages -> PageRec]
  BY Parts DEF PageDb
<1> USE <1>1 DEF VmStates, PageRec
<1>2. Still(s, [s EXCEPT !.page[p].refcnt = a])
  BY StillSame
<1>3. Still(s, [s EXCEPT !.page[p].nonswap = a])
  BY StillSame
<1>4. Still(s, [s EXCEPT !.page[p].nonzero = a])
  BY StillSame
<1>5. Still(s, [s EXCEPT !.page[p].nonzero = a, !.page[p].nonswap = b])
  <2> DEFINE t == [s EXCEPT !.page[p].nonzero = a, !.page[p].nonswap = b]
  <2>1. /\ t.panic = s.panic /\ t.table = s.table /\ t.data = s.data
        /\ \A q \in Pages : /\ t.page[q].drumslot = s.page[q].drumslot
                            /\ t.page[q].referent = s.page[q].referent
                            /\ t.page[q].use = s.page[q].use
                            /\ t.page[q].dirty = s.page[q].dirty
    OBVIOUS
  <2> HIDE DEF t
  <2>2. Still(s, t)
    BY ONLY <2>1, StillSame
  <2> QED
    BY <2>2 DEF t
<1>6. Still(s, [s EXCEPT !.page[p].nonzero = a, !.page[p].use = "Deleted"])
  <2> DEFINE t == [s EXCEPT !.page[p].nonzero = a, !.page[p].use = "Deleted"]
  <2>1. /\ t.panic = s.panic /\ t.table = s.table /\ t.data = s.data
        /\ \A q \in Pages : /\ t.page[q].drumslot = s.page[q].drumslot
                            /\ t.page[q].referent = s.page[q].referent
                            /\ t.page[q].use \in {s.page[q].use, "Deleted"}
                            /\ t.page[q].dirty = s.page[q].dirty
    OBVIOUS
  <2> HIDE DEF t
  <2>2. Still(s, t)
    BY ONLY <2>1, StillSame
  <2> QED
    BY <2>2 DEF t
<1>7. ASSUME ~IsAnon(s, p)
      PROVE  Still(s, [s EXCEPT !.page[p].nonswap = a, !.page[p].referent = b])
  <2> DEFINE t == [s EXCEPT !.page[p].nonswap = a, !.page[p].referent = b]
  <2>1. /\ t.panic = s.panic /\ t.table = s.table /\ t.data = s.data
        /\ \A q \in Pages : /\ t.page[q].drumslot = s.page[q].drumslot
                            /\ t.page[q].use = s.page[q].use
                            /\ t.page[q].dirty = s.page[q].dirty
                            /\ q # p => t.page[q].referent = s.page[q].referent
    OBVIOUS
  <2> HIDE DEF t
  <2>2. SlotsKept(s, t)
    BY <2>1 DEF SlotsKept, PageSlot, PteSlot
  <2>3. ASSUME NEW q \in Pages, IsAnon(t, q)
        PROVE  IsAnon(s, q) /\ t.page[q].referent = s.page[q].referent
    BY ONLY ~IsAnon(s, p), <2>1, <2>3 DEF IsAnon
  <2>4. ASSUME NEW q \in Pages, Clean(t, q) PROVE Clean(s, q)
    <3>1. IsAnon(s, q) /\ t.page[q].referent = s.page[q].referent
      BY <2>3, <2>4 DEF Clean
    <3>2. t.table = s.table /\ t.page[q].dirty = s.page[q].dirty
      BY <2>1
    <3>3. Entry(t, t.page[q].referent) = Entry(s, s.page[q].referent)
      BY <3>1, <3>2 DEF Entry
    <3> QED
      BY ONLY Clean(t, q), <3>1, <3>2, <3>3 DEF Clean
  <2>5. \A q \in Pages : t.page[q].drumslot = s.page[q].drumslot /\ t.data[q] = s.data[q]
    BY ONLY <2>1
  <2>6. Still(s, t)
    BY ONLY <2>2, <2>3, <2>4, <2>5 DEF Still, Tidied
  <2> QED
    BY <2>6 DEF t
<1> QED
  BY <1>2, <1>3, <1>4, <1>5, <1>6, <1>7

(* A PTE that is no swap PTE takes the place of another PTE.               *)
LEMMA PteKept ==
  ASSUME NEW s \in VmStates, NEW d \in Pages, NEW i \in Idx, NEW pte, pte.kind # "Swap"
  PROVE  SlotsKept(s, [s EXCEPT !.table[d][i] = pte])
<1> DEFINE t == [s EXCEPT !.table[d][i] = pte]
<1>1. t.panic = s.panic /\ t.page = s.page /\ t.table = [s.table EXCEPT ![d][i] = pte]
  BY DEF VmStates
<1>2. s.table \in TableMem
  BY Parts
<1> HIDE DEF t
<1>3. \A e \in Pages, j \in Idx : t.table[e][j] = IF e = d /\ j = i THEN pte ELSE s.table[e][j]
  BY <1>1, <1>2 DEF TableMem
<1>4. SlotsKept(s, t)
  BY <1>1, <1>3 DEF SlotsKept, PageSlot, PteSlot
<1> QED
  BY <1>4 DEF t

(* A PTE that makes no page but x clean takes the place of another one.    *)
PteTidies(s, a, pte, x) ==
  \A q \in Pages \ {x} :
    IsAnon(s, q) /\ s.page[q].referent = a =>
      \/ pte.kind \in {"Zero", "Swap"}
      \/ pte.kind \in {"Valid", "Trans"} /\ pte.page # q
      \/ pte.kind = "Valid" /\ pte.writeable
      \/ Clean(s, q) \/ s.page[q].dirty

(* A PTE that is changed so makes no page clean but x.                     *)
LEMMA PteTidied ==
  ASSUME NEW s \in VmStates, NEW d \in Pages, NEW i \in Idx, NEW pte, NEW x,
         PteTidies(s, << d, i >>, pte, x)
  PROVE  Tidied(s, [s EXCEPT !.table[d][i] = pte], x)
<1> DEFINE t == [s EXCEPT !.table[d][i] = pte]
<1>1. t.page = s.page /\ t.data = s.data /\ t.table = [s.table EXCEPT ![d][i] = pte]
  BY DEF VmStates
<1>2. s.table \in TableMem
  BY Parts
<1> HIDE DEF t
<1>3. \A e \in Pages, j \in Idx : t.table[e][j] = IF e = d /\ j = i THEN pte ELSE s.table[e][j]
  BY <1>1, <1>2 DEF TableMem
<1>4. ASSUME NEW q \in Pages \ {x}, Clean(t, q) PROVE Clean(s, q)
  <2>1. s.page[q].referent \in PteAddr
    BY PagePart
  <2>2. s.page[q].referent[1] \in Pages /\ s.page[q].referent[2] \in Idx
        /\ s.page[q].referent = << s.page[q].referent[1], s.page[q].referent[2] >>
    BY <2>1, AddrParts
  <2>3. IsAnon(s, q) /\ ~s.page[q].dirty
    BY <1>1, <1>4 DEF Clean, IsAnon
  <2>4. CASE s.page[q].referent = << d, i >>
    <3>1. Entry(t, t.page[q].referent) = pte
      BY <1>1, <1>3, <2>4 DEF Entry
    <3> QED
      BY <1>4, <2>3, <2>4, <3>1 DEF Clean, PteTidies
  <2>5. CASE s.page[q].referent # << d, i >>
    <3>1. Entry(t, t.page[q].referent) = Entry(s, s.page[q].referent)
      BY <1>1, <1>3, <2>2, <2>5 DEF Entry
    <3> QED
      BY <1>4, <2>3, <3>1 DEF Clean
  <2> QED
    BY <2>4, <2>5
<1>5. Tidied(s, t, x)
  BY <1>1, <1>4 DEF Tidied, IsAnon
<1> QED
  BY <1>5 DEF t

(* So does one that is zero or names a page that stores can reach.         *)
LEMMA PteStill ==
  ASSUME NEW s \in VmStates, NEW d \in Pages, NEW i \in Idx, NEW pte,
         pte.kind = "Zero" \/ (pte.kind = "Valid" /\ pte.writeable)
  PROVE  Still(s, [s EXCEPT !.table[d][i] = pte])
<1>1. PteTidies(s, << d, i >>, pte, NoPage)
  BY DEF PteTidies
<1> QED
  BY <1>1, PteKept, PteTidied DEF Still

-----------------------------------------------------------------------------
(* vmp_page_retain_locked().                                               *)
LEMMA PageRetainKept ==
  ASSUME NEW s \in VmStates, NEW p \in Pages
  PROVE  Still(s, PageRetain(s, p))
<1> DEFINE t == [s EXCEPT !.page[p].refcnt = @ + 1]
           m == [t EXCEPT !.modified = Unlink(@, p), !.stat.nmodified = @ - 1,
                          !.stat.nactive = @ + 1]
           b == [t EXCEPT !.standby = Unlink(@, p), !.stat.nstandby = @ - 1,
                          !.stat.nactive = @ + 1]
           km == Kassert(s, Contains(s.modified, p), "resident.c:147", m)
           kb == Kassert(s, Contains(s.standby, p), "resident.c:151", b)
           kk == IF s.page[p].dirty THEN km ELSE kb
<1>1. Still(s, t)
  BY FieldsKept, Zenon
<1>2. m.page = t.page /\ b.page = t.page /\ m.table = t.table /\ b.table = t.table
      /\ m.panic = t.panic /\ b.panic = t.panic /\ m.data = t.data /\ b.data = t.data
  BY DEF VmStates
<1> HIDE DEF t, m, b
<1>3. Still(s, m) /\ Still(s, b)
  BY <1>1, <1>2, StillRest, StillThen
<1>4. Still(s, km) /\ Still(s, kb)
  BY <1>3, KassertKept, Zenon DEF NoPanic
<1> HIDE DEF km, kb
<1>5. Still(s, kk)
  BY <1>4
<1> HIDE DEF kk
<1>6. /\ Still(s, Kassert(s, s.page[p].use # "Deleted", "resident.c:145", kk))
      /\ Still(s, Then(s, t))
  BY <1>1, <1>5, KassertKept, ThenKept, Zenon DEF NoPanic
<1> QED
  BY <1>6, Zenon DEF PageRetain, t, m, b, km, kb, kk

(* vmp_page_release_locked().                                              *)
LEMMA PageReleaseKept ==
  ASSUME NEW s \in VmStates, NEW p \in Pages
  PROVE  Still(s, PageRelease(s, p))
<1> DEFINE ok == s.page[p].refcnt > 0 /\ s.page[p].use # "Free"
           t == [s EXCEPT !.page[p].refcnt = @ - 1]
           r == IF t.page[p].refcnt = 0 THEN Requeue(t, p) ELSE t
<1>1. ASSUME ok PROVE Still(s, r)
  <2>1. Still(s, t)
    BY FieldsKept, Zenon
  <2>2. t \in VmStates
    <3>1. s.page[p].refcnt - 1 \in Nat
      BY <1>1, PagePart
    <3> QED
      BY <3>1, SetFieldType
  <2> HIDE DEF t
  <2>3. Still(t, Requeue(t, p))
    <3> DEFINE n == [t EXCEPT !.stat.nactive = @ - 1]
               f == [n EXCEPT !.free = << p >> \o @, !.stat.nfree = @ + 1, !.page[p].use = "Free"]
               m == [n EXCEPT !.modified = Append(@, p), !.stat.nmodified = @ + 1]
               b == [n EXCEPT !.standby = Append(@, p), !.stat.nstandby = @ + 1]
               am == AnnounceSufficience(CheckShortage(m))
               ab == AnnounceSufficience(CheckShortage(b))
    <3>1. /\ f.table = t.table /\ f.panic = t.panic /\ f.data = t.data
          /\ f.page = [t.page EXCEPT ![p].use = "Free"]
      BY <2>2 DEF VmStates
    <3>2. \A q \in Pages : /\ f.page[q].drumslot = t.page[q].drumslot
                          /\ f.page[q].referent = t.page[q].referent
                          /\ f.page[q].use \in {t.page[q].use, "Free", "Deleted"}
                          /\ f.page[q].dirty = t.page[q].dirty
      <4>1. t.page \in PageDb
        BY <2>2, Parts, ZenonT(60)
      <4> HIDE DEF f
      <4> QED
        BY <3>1, <4>1 DEF PageDb, PageRec
    <3>3. /\ am.page = t.page /\ am.table = t.table /\ am.panic = t.panic
          /\ ab.page = t.page /\ ab.table = t.table /\ ab.panic = t.panic
          /\ am.data = t.data /\ ab.data = t.data
      BY <2>2 DEF AnnounceSufficience, CheckShortage, VmStates
    <3> HIDE DEF f, m, b, n
    <3>7. f.table = t.table /\ f.panic = t.panic /\ f.data = t.data
      BY <3>1
    <3>4. Still(t, f)
      BY ONLY <3>2, <3>7, StillSame
    <3>6. Still(t, am) /\ Still(t, ab)
      BY ONLY <3>3, StillRest, ZenonT(60)
    <3>5. Still(t, Kfatal(t, "resident.c:183"))
      BY <2>2, KfatalKept, Zenon DEF NoPanic
    <3> QED
      BY <3>4, <3>5, <3>6 DEF Requeue, n, f, m, b
  <2> QED
    BY <2>1, <2>3, StillThen, Zenon
<1> HIDE DEF r
<1>2. Still(s, Kassert(s, ok, "resident.c:164", r))
  BY <1>1, KassertKept, Zenon DEF NoPanic
<1> QED
  BY <1>2 DEF PageRelease, r, t

-----------------------------------------------------------------------------
(* The working set list.                                                   *)
LEMMA WslEntryKept ==
  ASSUME NEW s \in VmStates, NEW k \in WsKey
  PROVE  /\ Still(s, WslLockEntry(s, k)) /\ Still(s, WslUnlockEntry(s, k))
         /\ Still(s, WslRemove(s, k))
<1> DEFINE l == [s EXCEPT !.wsl.queue = Unlink(@, k), !.wsl.nlocked = @ + 1]
           u == [s EXCEPT !.wsl.queue = Append(@, k), !.wsl.nlocked = @ - 1]
           r == [s EXCEPT !.wsl.tree = @ \ {k}, !.wsl.queue = Unlink(@, k)]
           kl == Kassert(s, Contains(s.wsl.queue, k), "ws.c:146", l)
           ku == Kassert(s, ~Contains(s.wsl.queue, k), "ws.c:155", u)
           kr == Kassert(s, Contains(s.wsl.queue, k), "ws.c:137", r)
<1>1. /\ l.page = s.page /\ l.table = s.table /\ l.panic = s.panic
      /\ u.page = s.page /\ u.table = s.table /\ u.panic = s.panic
      /\ r.page = s.page /\ r.table = s.table /\ r.panic = s.panic
      /\ l.data = s.data /\ u.data = s.data /\ r.data = s.data
  BY DEF VmStates
<1> HIDE DEF l, u, r
<1>2. Still(s, l) /\ Still(s, u) /\ Still(s, r)
  BY <1>1, StillRest
<1>3. Still(s, kl) /\ Still(s, ku) /\ Still(s, kr)
  BY <1>2, KassertKept, Zenon DEF NoPanic
<1> HIDE DEF kl, ku, kr
<1>4. /\ Still(s, Kassert(s, k \in s.wsl.tree, "ws.c:145", kl))
      /\ Still(s, Kassert(s, k \in s.wsl.tree, "ws.c:154", ku))
      /\ Still(s, Kassert(s, k \in s.wsl.tree, "ws.c:135", kr))
  BY <1>3, KassertKept, Zenon DEF NoPanic
<1> QED
  BY <1>4 DEF WslLockEntry, WslUnlockEntry, WslRemove, kl, ku, kr, l, u, r

(* wsl_evict(): the page keeps its slot.                                   *)
LEMMA WslEvictKept ==
  ASSUME NEW s \in VmStates, NEW t \in Pages, NEW i \in Idx
  PROVE  Still(s, WslEvict(s, t, i))
<1> DEFINE pte == s.table[t][i]
           p   == pte.page
           d   == s.page[p].dirty \/ pte.writeable
           u   == [s EXCEPT !.page[p].dirty = @ \/ pte.writeable, !.table[t][i] = TransPte(p)]
<1>1. /\ p \in Pages /\ TransPte(p) \in Pte /\ d \in BOOLEAN
      /\ TransPte(p).kind # "Swap"
  BY TablePart, PteTypes, Zenon DEF TransPte, ZeroPte
<1> HIDE DEF p, pte
<1>2. /\ u.page = [s.page EXCEPT ![p].dirty = d] /\ u.panic = s.panic /\ u.data = s.data
      /\ u.table = [s.table EXCEPT ![t][i] = TransPte(p)]
  BY DEF VmStates
<1>3. u \in VmStates
  <2>1. [s.page EXCEPT ![p].dirty = d] \in PageDb
    <3>1. [s.page[p] EXCEPT !.dirty = d] \in PageRec
      BY <1>1, PagePart, PageRecUpdate
    <3> QED
      BY <1>1, <3>1, Parts DEF PageDb
  <2>2. [s.table EXCEPT ![t][i] = TransPte(p)] \in TableMem
    BY <1>1, Parts DEF TableMem
  <2> QED
    BY <2>1, <2>2 DEF VmStates
<1> HIDE DEF u, d
<1>4. ASSUME pte.kind = "Valid" PROVE Still(s, u)
  <2> DEFINE x == TransPte(p)
  <2>1. s.page \in PageDb /\ s.table \in TableMem
    BY Parts
  <2>2. \A q \in Pages : /\ u.page[q].drumslot = s.page[q].drumslot
                        /\ u.page[q].referent = s.page[q].referent
                        /\ u.page[q].use = s.page[q].use
                        /\ u.page[q].dirty = IF q = p THEN d ELSE s.page[q].dirty
    BY <1>1, <1>2, <2>1 DEF PageDb, PageRec
  <2>3. x.kind = "Trans" /\ x.page = p
    BY <1>1 DEF TransPte, ZeroPte
  <2> HIDE DEF x
  <2>4. \A e \in Pages, j \in Idx : u.table[e][j] = IF e = t /\ j = i THEN x ELSE s.table[e][j]
    BY <1>2, <2>1 DEF TableMem, x
  <2>5. SlotsKept(s, u)
    BY <1>2, <2>2, <2>3, <2>4 DEF SlotsKept, PageSlot, PteSlot
  <2>6. \A q \in Pages : IsAnon(u, q) => IsAnon(s, q)
    BY <2>2 DEF IsAnon
  <2>7. ASSUME NEW q \in Pages, Clean(u, q) PROVE Clean(s, q)
    <3>1. IsAnon(s, q) /\ ~u.page[q].dirty
      BY <2>6, <2>7 DEF Clean
    <3>2. s.page[q].referent \in PteAddr
      BY PagePart
    <3>3. s.page[q].referent[1] \in Pages /\ s.page[q].referent[2] \in Idx
      BY <3>2, AddrParts
    <3>4. CASE s.page[q].referent[1] = t /\ s.page[q].referent[2] = i
      <4>1. Entry(u, u.page[q].referent) = x /\ Entry(s, s.page[q].referent) = pte
        BY <2>2, <2>4, <3>3, <3>4 DEF Entry, pte
      <4>2. q = p
        BY <2>3, <2>7, <4>1 DEF Clean
      <4>3. ~s.page[q].dirty /\ ~pte.writeable
        BY <2>2, <3>1, <4>2 DEF d
      <4> QED
        BY <1>4, <3>1, <4>1, <4>2, <4>3 DEF Clean, p
    <3>5. CASE ~(s.page[q].referent[1] = t /\ s.page[q].referent[2] = i)
      <4>3. u.table[s.page[q].referent[1]][s.page[q].referent[2]]
              = s.table[s.page[q].referent[1]][s.page[q].referent[2]]
        BY ONLY <2>4, <3>3, <3>5, ZenonT(60)
      <4>1. Entry(u, u.page[q].referent) = Entry(s, s.page[q].referent)
        BY <2>2, <4>3 DEF Entry
      <4>2. ~s.page[q].dirty
        BY <2>2, <3>1 DEF d
      <4> QED
        BY ONLY Clean(u, q), <3>1, <4>1, <4>2 DEF Clean
    <3> QED
      BY <3>4, <3>5
  <2>8. \A q \in Pages : u.page[q].drumslot = s.page[q].drumslot /\ u.data[q] = s.data[q]
    BY <1>2, <2>2
  <2> QED
    BY ONLY <2>2, <2>5, <2>6, <2>7, <2>8 DEF Still, Tidied
<1>5. pte.kind = "Valid" => Still(s, PageRelease(u, p))
  BY <1>1, <1>3, <1>4, PageReleaseKept, StillThen
<1> DEFINE v == Kassert(s, s.page[p].use = "AnonPrivate", "ws.c:52", PageRelease(u, p))
<1>6. pte.kind = "Valid" => Still(s, v)
  BY <1>5, KassertKept, Zenon DEF NoPanic
<1> HIDE DEF v
<1>7. Still(s, Kassert(s, pte.kind = "Valid", "ws.c:78", v))
  BY <1>6, KassertKept, ZenonT(60) DEF NoPanic
<1> QED
  BY <1>7, Zenon DEF WslEvict, pte, p, u, v

(* wsl_trim_1().                                                           *)
LEMMA WslTrim1Kept ==
  ASSUME NEW s \in VmStates, s.wsl.queue # << >>
  PROVE  Still(s, WslTrim1(s))
<1> DEFINE k == Head(s.wsl.queue)
           w == [s.wsl EXCEPT !.queue = Tail(@), !.tree = @ \ {k}, !.nentries = @ - 1]
           t == [s EXCEPT !.wsl.queue = Tail(@), !.wsl.tree = @ \ {k},
                          !.wsl.nentries = @ - 1]
           pt == FetchPte(s, k[2])
           e == WslEvict(t, pt, k[2][1])
<1>1. k \in WsKey
  BY WslPart
<1> HIDE DEF k
<1>2. t \in VmStates
  <2>1. Tail(s.wsl.queue) \in Seq(WsKey)
    BY WslPart
  <2>2. s.wsl.tree \ {k} \in SUBSET WsKey /\ s.wsl.nentries - 1 \in Int
    BY WslPart
  <2>3. w \in WsList
    BY <2>1, <2>2, Parts, WslPart, WslUpdate, ZenonT(60)
  <2> QED
    BY <2>3 DEF VmStates
<1>3. t.page = s.page /\ t.table = s.table /\ t.panic = s.panic /\ t.data = s.data
  BY DEF VmStates
<1> HIDE DEF t, pt
<1>4. k[1] # "table" => k[2][1] \in Idx
  BY <1>1, VmAssumption DEF WsKey, VAddr
<1>5. k[1] # "table" /\ pt \in Pages => Still(s, e)
  <2>1. Still(s, t)
    BY <1>3, StillRest
  <2> QED
    BY <1>2, <1>4, <2>1, WslEvictKept, StillThen
<1> HIDE DEF e
<1>6. k[1] # "table" => Still(s, Kassert(s, pt \in Pages, "ws.c:77", e))
  BY <1>5, KassertKept, Zenon DEF NoPanic
<1>7. Still(s, Kassert(s, s.page[k[2]].referent[2] = 0, "resident.c:207",
                           Kfatal(s, "tables.c:87")))
  BY KassertKept, KfatalKept, Zenon DEF NoPanic
<1> QED
  BY <1>6, <1>7, Zenon DEF WslTrim1, k, t, pt, e

(* vmp_wsl_insert().                                                       *)
LEMMA WslInsertKept ==
  ASSUME NEW s \in VmStates, NEW k \in WsKey, NEW locked \in BOOLEAN
  PROVE  Still(s, WslInsert(s, k, locked))
<1> DEFINE r == WslMakeRoom(s)
<1>1. r \in VmStates
  BY WslMakeRoomType
<1>2. Still(s, r)
  <2> DEFINE t == [s EXCEPT !.wsl.max = @ + WsPageExpansionCount]
  <2>1. t.page = s.page /\ t.table = s.table /\ t.panic = s.panic /\ t.data = s.data
    BY DEF VmStates
  <2> HIDE DEF t
  <2>2. Still(s, t) /\ Still(s, s)
    BY <2>1, StillRest, StillSelf
  <2>3. Still(s, Kassert(s, s.wsl.queue # << >>, "ws.c:112", WslTrim1(s)))
    BY WslTrim1Kept, KassertKept, Zenon DEF NoPanic
  <2> QED
    BY <2>2, <2>3 DEF WslMakeRoom, t
<1> HIDE DEF r
<1> DEFINE a == [r EXCEPT !.wsl.nentries = @ + 1,
                          !.wsl.nlocked = IF locked THEN @ + 1 ELSE @,
                          !.wsl.queue = IF locked THEN @ ELSE Append(@, k),
                          !.wsl.tree = @ \cup {k}]
<1>3. a.page = r.page /\ a.table = r.table /\ a.panic = r.panic /\ a.data = r.data
  BY <1>1 DEF VmStates
<1> HIDE DEF a
<1>4. Still(s, Then(r, a))
  <2>1. Still(r, a)
    BY <1>3, StillRest
  <2>2. Still(r, Then(r, a))
    BY <2>1, ThenKept
  <2> QED
    BY <1>2, <2>2, StillThen
<1> DEFINE u == WslAdd(r, k, locked)
           v == Kassert(s, s.wsl.nentries <= s.wsl.max, "ws.c:108", u)
<1>5. Still(s, u)
  BY <1>4 DEF WslAdd, a
<1> HIDE DEF u
<1>6. Still(s, v)
  BY <1>5, KassertKept, Zenon DEF NoPanic
<1> HIDE DEF v
<1>7. Still(s, Kassert(s, k \notin s.wsl.tree, "ws.c:107", v))
  BY <1>6, KassertKept, Zenon DEF NoPanic
<1> QED
  BY <1>7 DEF WslInsert, u, v, r

-----------------------------------------------------------------------------
(* Page table pages.                                                       *)
LEMMA NonswapPteCreatedKept ==
  ASSUME NEW s \in VmStates, NEW p \in Pages, NEW isNew \in BOOLEAN
  PROVE  Still(s, NonswapPteCreated(s, p, isNew))
<1> DEFINE r == PageRetain(s, p)
<1>1. r \in VmStates /\ Still(s, r)
  BY PageRetainType, PageRetainKept
<1> HIDE DEF r
<1> DEFINE a == IF isNew THEN r.page[p].nonzero + 1 ELSE r.page[p].nonzero
           b == r.page[p].nonswap + 1
           t == [r EXCEPT !.page[p].nonzero = IF isNew THEN @ + 1 ELSE @,
                          !.page[p].nonswap = @ + 1]
           u == IF r.page[p].nonswap = 0 /\ ~IsRootTable(r, p)
                THEN WslLockEntry(t, TableKey(p)) ELSE t
<1>2. t = [r EXCEPT !.page[p].nonzero = a, !.page[p].nonswap = b]
  BY <1>1 DEF VmStates, PageDb, PageRec
<1>3. a \in Int /\ b \in Int
  BY <1>1, PagePart, SMTT(60)
<1> HIDE DEF a, b, t
<1>4. t \in VmStates /\ Still(r, t)
  <2>1. "Free" \in PageUse /\ NullRef \in PteAddr
    BY ConstantTypes DEF PageUse
  <2> QED
    BY <1>1, <1>2, <1>3, <2>1, TwoFieldsType, FieldsKept, Zenon
<1>5. Still(r, WslLockEntry(t, TableKey(p)))
  BY <1>4, TableKeyType, WslEntryKept, StillThen
<1>6. Still(r, u)
  BY <1>4, <1>5
<1> HIDE DEF u
<1>7. Still(s, Then(r, u))
  BY <1>1, <1>6, ThenKept, StillThen
<1> QED
  BY <1>7 DEF NonswapPteCreated, r, t, u

(* A table that loses a nonswap PTE.                                       *)
LEMMA NonswapPteGoneKept ==
  ASSUME NEW s \in VmStates, NEW p \in Pages
  PROVE  Still(s, NonswapPteGone(s, p))
<1> DEFINE t == [s EXCEPT !.page[p].nonswap = @ - 1]
           u == IF s.page[p].nonswap = 1 /\ ~IsRootTable(s, p)
                THEN WslUnlockEntry(t, TableKey(p)) ELSE t
<1>1. s.page[p].nonswap - 1 \in Int
  BY PagePart, SMTT(60)
<1>2. t \in VmStates /\ Still(s, t)
  BY <1>1, SetFieldType, FieldsKept, Zenon
<1> HIDE DEF t
<1>3. Still(s, WslUnlockEntry(t, TableKey(p)))
  BY <1>2, TableKeyType, WslEntryKept, StillThen
<1>4. Still(s, u)
  BY <1>2, <1>3
<1> HIDE DEF u
<1>5. Still(s, Then(s, u))
  BY <1>4, ThenKept
<1> QED
  BY <1>5 DEF NonswapPteGone, t, u

(* vmp_pagetable_page_pte_became_swap(), and the deletion of a PTE that is *)
(* not the last one.                                                       *)
LEMMA PteGoneKept ==
  ASSUME NEW s \in VmStates, NEW p \in Pages
  PROVE  Still(s, PteBecameSwap(s, p)) /\ Still(s, PteUncounted(s, p))
<1> DEFINE t == [s EXCEPT !.page[p].nonzero = @ - 1]
<1>1. t \in VmStates /\ Still(s, t)
  BY NonzeroLowered, FieldsKept, Zenon
<1> HIDE DEF t
<1>2. ASSUME NEW x \in VmStates
      PROVE  Still(x, PageRelease(NonswapPteGone(x, p), p))
  BY NonswapPteGoneType, NonswapPteGoneKept, PageReleaseKept, StillThen
<1>3. Still(s, PageRelease(NonswapPteGone(t, p), p))
  BY <1>1, <1>2, StillThen, Zenon
<1> QED
  BY <1>2, <1>3, Zenon DEF PteBecameSwap, PteUncounted, t

(* vmp_md_delete_table_pointers().                                         *)
LEMMA DeleteTablePointersKept ==
  ASSUME NEW s \in VmStates, NEW p \in Pages
  PROVE  Still(s, DeleteTablePointers(s, p))
<1> DEFINE dir == s.page[p].referent[1]
           i   == s.page[p].referent[2]
           t   == [s EXCEPT !.table[dir][i] = ZeroPte]
           n   == PteUncounted(t, dir)
           a   == Kassert(s, ~LastPte(s, dir), "tables.c:97", n)
           b   == Kassert(s, s.table[dir][i].kind \in {"Valid", "Trans"}, "tables.c:94", a)
<1>1. dir \in Pages /\ i \in Idx
  BY PagePart
<1> HIDE DEF dir, i
<1>2. ZeroPte \in Pte /\ ZeroPte.kind = "Zero"
  BY ConstantTypes DEF Pte, PteKind, ZeroPte
<1>3. t \in VmStates /\ Still(s, t)
  <2>1. t \in VmStates
    BY <1>1, <1>2, SetTableType
  <2>2. Still(s, t)
    BY <1>1, <1>2, PteStill, Zenon
  <2> QED
    BY <2>1, <2>2
<1> HIDE DEF t
<1>4. Still(s, n)
  BY <1>1, <1>3, PteGoneKept, StillThen
<1> HIDE DEF n
<1>5. Still(s, a)
  BY <1>4, KassertKept, Zenon DEF NoPanic
<1> HIDE DEF a
<1>6. Still(s, b)
  BY <1>5, KassertKept, Zenon DEF NoPanic
<1> HIDE DEF b
<1>7. Still(s, Kassert(s, i = 0, "resident.c:207", b))
  BY <1>6, KassertKept, Zenon DEF NoPanic
<1> QED
  BY <1>7, Zenon DEF DeleteTablePointers, dir, i, t, n, a, b

(* vmp_pagetable_page_pte_deleted().                                       *)
LEMMA PteDeletedKept ==
  ASSUME NEW s \in VmStates, NEW p \in Pages
  PROVE  Still(s, PteDeleted(s, p))
<1> DEFINE d == [s EXCEPT !.page[p].nonzero = @ - 1, !.page[p].use = "Deleted"]
           g == ForgetTable(d, p)
           t == DeleteTablePointers(g, p)
           n == [t EXCEPT !.page[p].nonswap = 0, !.page[p].referent = NullRef]
           u == Then(t, n)
<1>1. /\ s.page[p].nonzero - 1 \in Int /\ 0 \in Int /\ "Deleted" \in PageUse
      /\ NullRef \in PteAddr
  BY PagePart, ConstantTypes DEF PageUse
<1>2. d \in VmStates /\ Still(s, d) /\ ~IsAnon(d, p)
  <2>1. d \in VmStates
    BY <1>1, TwoFieldsType, ZenonT(60)
  <2>2. Still(s, d)
    BY FieldsKept, Zenon
  <2>3. d.page[p].use = "Deleted"
    <3>1. s.page \in [Pages -> PageRec]
      BY Parts DEF PageDb
    <3> QED
      BY <3>1 DEF VmStates, PageRec
  <2> HIDE DEF d
  <2>4. ~IsAnon(d, p)
    BY <2>3 DEF IsAnon
  <2> QED
    BY <2>1, <2>2, <2>4
<1> HIDE DEF d
<1>3. g \in VmStates /\ Still(s, g) /\ ~IsAnon(g, p)
  <2>1. Still(d, Kfatal(d, "tables.c:59"))
    BY <1>2, KfatalKept, Zenon DEF NoPanic
  <2>2. Still(d, WslRemove(d, TableKey(p)))
    BY <1>2, TableKeyType, WslEntryKept
  <2>3. Still(d, WslRemove(WslUnlockEntry(d, TableKey(p)), TableKey(p)))
    BY <1>2, TableKeyType, WslUnlockEntryType, WslEntryKept, StillThen
  <2>4. Still(d, g)
    BY <2>1, <2>2, <2>3 DEF ForgetTable
  <2>5. NoPage \notin Pages
    BY DEF NoPage, Pages
  <2>6. ~IsAnon(g, p)
    BY <1>2, <2>4, <2>5 DEF Still, Tidied
  <2> QED
    BY <1>2, <2>4, <2>6, ForgetTableType, StillThen
<1> HIDE DEF g
<1>4. t \in VmStates /\ Still(s, t) /\ ~IsAnon(t, p)
  <2>1. Still(g, t)
    BY <1>3, DeleteTablePointersKept
  <2>2. NoPage \notin Pages
    BY DEF NoPage, Pages
  <2>3. ~IsAnon(t, p)
    BY <1>3, <2>1, <2>2 DEF Still, Tidied
  <2> QED
    BY <1>3, <2>1, <2>3, DeleteTablePointersType, StillThen
<1> HIDE DEF t
<1>5. n \in VmStates /\ Still(t, n)
  <2>1. n \in VmStates
    <3> HIDE DEF NullRef
    <3> QED
      BY <1>1, <1>4, TwoFieldsType, ZenonT(60)
  <2>2. Still(t, n)
    BY <1>4, FieldsKept, Zenon
  <2> QED
    BY <2>1, <2>2, Zenon
<1> HIDE DEF n
<1>6. u \in VmStates /\ Still(s, u)
  BY <1>4, <1>5, StillThen DEF Then
<1> HIDE DEF u
<1>7. Still(s, PageRelease(PageRelease(u, p), p))
  BY <1>6, PageReleaseType, PageReleaseKept, StillThen, Zenon
<1>8. Still(s, FreeTable(s, p))
  BY <1>7, Zenon DEF FreeTable, d, g, t, n, u
<1> QED
  BY <1>8, PteGoneKept, ThenKept DEF PteDeleted

-----------------------------------------------------------------------------
(* The allocator.  The page it gives has no slot, and no entry of it is a  *)
(* swap PTE any more.                                                      *)
LEMMA TakePageSlots ==
  ASSUME NEW s \in VmStates, NEW p \in Pages, NEW use \in PageUse,
         NEW t, t = TakePage(s, p, use)
  PROVE  /\ t \in VmStates /\ t.panic = s.panic
         /\ \A q \in Pages : PageSlot(t, q) = IF q = p THEN NoSlot ELSE PageSlot(s, q)
         /\ \A d \in Pages, i \in Idx : PteSlot(t, d, i) \in {PteSlot(s, d, i), NoSlot}
<1>1. t \in VmStates
  BY TakePageType
<1> DEFINE r == [s.page[p] EXCEPT !.refcnt = 1, !.use = use, !.dirty = FALSE,
                                  !.drumslot = NoSlot, !.referent = NullRef]
           z == [i \in Idx |-> ZeroPte]
<1>2. /\ t.page = [s.page EXCEPT ![p] = r] /\ t.table = [s.table EXCEPT ![p] = z]
      /\ t.panic = s.panic
  BY DEF TakePage, VmStates
<1>3. r.drumslot = NoSlot
  BY PagePart DEF PageRec
<1>4. \A i \in Idx : z[i].kind # "Swap"
  BY DEF ZeroPte
<1> HIDE DEF r, z
<1>5. \A q \in Pages : t.page[q] = IF q = p THEN r ELSE s.page[q]
  BY <1>2, Parts DEF PageDb
<1>6. \A d \in Pages : t.table[d] = IF d = p THEN z ELSE s.table[d]
  BY <1>2, Parts DEF TableMem
<1>7. \A q \in Pages : PageSlot(t, q) = IF q = p THEN NoSlot ELSE PageSlot(s, q)
  BY <1>3, <1>5 DEF PageSlot
<1>8. \A d \in Pages, i \in Idx : PteSlot(t, d, i) \in {PteSlot(s, d, i), NoSlot}
  BY <1>4, <1>6 DEF PteSlot
<1> QED
  BY ONLY <1>1, <1>2, <1>7, <1>8

(* The first page of the free queue.                                       *)
LEMMA TakeFreeKept ==
  ASSUME NEW s \in VmStates, NEW use \in PageUse, s.free # << >>
  PROVE  SlotsKept(s, TakeFree(s, use))
<1> DEFINE p == Head(s.free)
           t == TakePage(s, p, use)
           u == [t EXCEPT !.free = Tail(@), !.stat.nfree = @ - 1]
           a == Kassert(s, s.page[p].referent = NullRef, "resident.c:124", u)
           ok == s.page[p].refcnt = 0 /\ s.page[p].nonzero = 0
<1>1. p \in Pages
  BY Parts DEF Queue
<1> HIDE DEF p
<1>2. /\ t \in VmStates /\ t.panic = s.panic
      /\ \A q \in Pages : PageSlot(t, q) = IF q = p THEN NoSlot ELSE PageSlot(s, q)
      /\ \A d \in Pages, i \in Idx : PteSlot(t, d, i) \in {PteSlot(s, d, i), NoSlot}
  <2>1. t = TakePage(s, p, use)
    OBVIOUS
  <2> HIDE DEF t
  <2> QED
    BY ONLY s \in VmStates, use \in PageUse, <1>1, <2>1, TakePageSlots
<1> HIDE DEF t
<1>3. u.panic = t.panic /\ u.page = t.page /\ u.table = t.table
  BY <1>2, Zenon DEF VmStates
<1> HIDE DEF u
<1>4. SlotsKept(s, u)
  BY <1>2, <1>3 DEF SlotsKept, PageSlot, PteSlot
<1>5. SlotsKept(s, a)
  BY <1>4, KassertSlots, Zenon DEF NoPanic
<1> HIDE DEF a
<1>6. SlotsKept(s, Kassert(s, ok, "resident.c:122", a))
  BY <1>5, KassertSlots, ZenonT(60) DEF NoPanic
<1> QED
  BY <1>6 DEF TakeFree, p, t, u, a

(* steal_page(): the slot of the page moves to its PTE; that of slot 0 is  *)
(* nobody's, for its swap PTE reads as a zero PTE.                         *)
LEMMA StealPageOwned ==
  ASSUME NEW s \in VmStates, NEW use \in PageUse, s.standby # << >>, NEW B, SlotOK(s, B)
  PROVE  SlotOK(StealPage(s, use), B)
<1> DEFINE p   == Head(s.standby)
           ref == s.page[p].referent
           d   == ref[1]
           i   == ref[2]
           x   == SwapPte(s.page[p].drumslot)
           b   == [s EXCEPT !.standby = Tail(@), !.table[ref[1]][ref[2]] = x]
           t   == PteBecameSwap(b, ref[1])
           v   == TakePage(t, p, use)
           u   == [v EXCEPT !.stat.nstandby = @ - 1]
           ok  == t.page[p].refcnt = 0 /\ t.page[p].nonzero = 0
           a   == Kassert(t, ok, "resident.c:81", u)
<1>1. p \in Pages
  BY Parts DEF Queue
<1> HIDE DEF p
<1>2. /\ d \in Pages /\ i \in Idx /\ s.page[p].drumslot \in Nat \cup {NoSlot}
      /\ x \in Pte
  <2>1. s.page[p].drumslot \in Nat \cup {NoSlot} /\ TRUE \in BOOLEAN
    BY <1>1, PagePart
  <2> QED
    BY <1>1, <2>1, PagePart, PteTypes
<1>3. /\ b.table = [s.table EXCEPT ![d][i] = x] /\ b.page = s.page /\ b.panic = s.panic
  BY DEF VmStates
<1>4. b \in VmStates
  <2>1. Tail(s.standby) \in Queue
    BY Parts DEF Queue
  <2> HIDE DEF x, ref
  <2>2. [s.table EXCEPT ![d][i] = x] \in TableMem
    BY <1>2, Parts DEF TableMem
  <2> QED
    BY <2>1, <2>2 DEF VmStates, d, i
<1>5. (IF x.kind = "Swap" THEN x.slot ELSE NoSlot) \in {PageSlot(s, p), NoSlot}
  BY DEF SwapPte, ZeroPte, PageSlot, NoSlot
<1> HIDE DEF b, x
<1>6. /\ t \in VmStates /\ SlotsKept(b, t)
  BY <1>2, <1>4, PteBecameSwapType, PteGoneKept DEF Still
<1> HIDE DEF t, ref, d, i
<1>7. \A e \in Pages, j \in Idx :
        PteSlot(t, e, j) \in {IF e = d /\ j = i THEN PageSlot(s, p) ELSE PteSlot(s, e, j), NoSlot}
  <2>1. s.table \in TableMem
    BY Parts
  <2>2. \A e \in Pages, j \in Idx : b.table[e][j] = IF e = d /\ j = i THEN x ELSE s.table[e][j]
    BY <1>3, <2>1 DEF TableMem
  <2>3. \A e \in Pages, j \in Idx :
          PteSlot(b, e, j) \in {IF e = d /\ j = i THEN PageSlot(s, p) ELSE PteSlot(s, e, j), NoSlot}
    BY <1>5, <2>2 DEF PteSlot
  <2> QED
    BY <1>6, <2>3 DEF SlotsKept
<1>8. /\ \A q \in Pages : PageSlot(t, q) \in {PageSlot(s, q), NoSlot}
      /\ t.panic = NoPanic => s.panic = NoPanic
  BY <1>3, <1>6 DEF SlotsKept, PageSlot
<1>9. /\ v \in VmStates /\ v.panic = t.panic
      /\ \A q \in Pages : PageSlot(v, q) = IF q = p THEN NoSlot ELSE PageSlot(t, q)
      /\ \A e \in Pages, j \in Idx : PteSlot(v, e, j) \in {PteSlot(t, e, j), NoSlot}
  <2>1. v = TakePage(t, p, use)
    OBVIOUS
  <2> HIDE DEF v
  <2> QED
    BY ONLY use \in PageUse, <1>1, <1>6, <2>1, TakePageSlots
<1> HIDE DEF v
<1>10. u.panic = v.panic /\ u.page = v.page /\ u.table = v.table
  BY <1>9, Zenon DEF VmStates
<1> HIDE DEF u
<1>11. /\ \A q \in Pages : PageSlot(u, q) = IF q = p THEN NoSlot ELSE PageSlot(t, q)
       /\ \A e \in Pages, j \in Idx : PteSlot(u, e, j) \in {PteSlot(t, e, j), NoSlot}
  BY <1>9, <1>10 DEF PageSlot, PteSlot
<1>12. /\ \A q \in Pages : PageSlot(u, q) \in {PageSlot(s, q), NoSlot}
       /\ PageSlot(u, p) = NoSlot
       /\ \A e \in Pages, j \in Idx : \/ PteSlot(u, e, j) \in {PteSlot(s, e, j), NoSlot}
                                      \/ e = d /\ j = i /\ PteSlot(u, e, j) = PageSlot(s, p)
  BY <1>1, <1>7, <1>8, <1>11
<1>13. SlotOK(u, B)
  <2> SUFFICES ASSUME u.panic = NoPanic PROVE Owned(u, B)
    BY DEF SlotOK
  <2>1. Owned(s, B)
    BY <1>8, <1>9, <1>10 DEF SlotOK
  <2>2. /\ \A q \in Pages : PageSlot(u, q) \in B \cup {NoSlot}
        /\ \A e \in Pages, j \in Idx : PteSlot(u, e, j) \in B \cup {NoSlot}
    BY <1>1, <1>12, <2>1 DEF Owned
  <2>3. \A q, r \in Pages : PageSlot(u, q) = PageSlot(u, r) => q = r \/ PageSlot(u, q) = NoSlot
    BY <1>12, <2>1 DEF Owned
  <2>4. ASSUME NEW e \in Pages, NEW f \in Pages, NEW j \in Idx, NEW k \in Idx,
               PteSlot(u, e, j) = PteSlot(u, f, k), PteSlot(u, e, j) # NoSlot
        PROVE  e = f /\ j = k
    BY <1>1, <1>12, <2>1, <2>4 DEF Owned
  <2>5. ASSUME NEW q \in Pages, NEW e \in Pages, NEW j \in Idx,
               PageSlot(u, q) = PteSlot(u, e, j), PageSlot(u, q) # NoSlot
        PROVE  FALSE
    BY <1>1, <1>12, <2>1, <2>5 DEF Owned
  <2> QED
    BY <2>2, <2>3, <2>4, <2>5 DEF Owned
<1>14. a.panic = NoPanic => a = u
  <2>1. [t EXCEPT !.panic = "resident.c:81"].panic # NoPanic
    BY <1>6 DEF VmStates, NoPanic
  <2> QED
    BY <2>1 DEF Kassert, Then
<1>15. SlotOK(a, B)
  BY <1>13, <1>14 DEF SlotOK
<1> HIDE DEF a
<1> DEFINE w == Kassert(s, s.page[p].use = "AnonPrivate", "resident.c:78", a)
<1>16. SlotOK(w, B)
  <2>1. [s EXCEPT !.panic = "resident.c:78"].panic # NoPanic
    BY DEF VmStates, NoPanic
  <2> QED
    BY <1>15, <2>1 DEF SlotOK, Kassert, Then
<1> QED
  BY <1>16, Zenon DEF StealPage, w, a, ok, u, v, t, b, x, ref, p

(* vmp_page_alloc_locked().                                                *)
LEMMA PageAllocOwned ==
  ASSUME NEW s \in VmStates, NEW use \in PageUse, NEW B, SlotOK(s, B)
  PROVE  SlotOK(PageAlloc(s, use), B)
<1>1. SlotOK(CheckShortage(s), B)
  <2>1. /\ CheckShortage(s).page = s.page /\ CheckShortage(s).table = s.table
        /\ CheckShortage(s).panic = s.panic
    BY DEF CheckShortage, VmStates
  <2> QED
    BY <2>1, KeptOwned DEF SlotsKept, PageSlot, PteSlot
<1>2. CanAlloc(s) =>
        SlotOK(IF s.free # << >> THEN TakeFree(s, use) ELSE StealPage(s, use), B)
  <2>1. s.free # << >> => SlotOK(TakeFree(s, use), B)
    BY TakeFreeKept, KeptOwned
  <2> QED
    BY <2>1, StealPageOwned DEF CanAlloc
<1> QED
  BY <1>1, <1>2 DEF PageAlloc, Then

-----------------------------------------------------------------------------
(* The wiring of page tables, and the critical sections built from it.     *)
LEMMA SetPteKept ==
  ASSUME NEW s \in VmStates, NEW ref \in PteAddr, NEW pte, pte.kind # "Swap"
  PROVE  SlotsKept(s, SetPte(s, ref, pte))
<1>1. ref[1] \in Pages /\ ref[2] \in Idx
  BY DEF PteAddr
<1>2. SlotsKept(s, [s EXCEPT !.table[ref[1]][ref[2]] = pte])
  BY <1>1, PteKept, Zenon
<1> QED
  BY <1>2, ThenSlots DEF SetPte

(* ... and makes no page clean, if the PTE does not.                       *)
LEMMA SetPteTidied ==
  ASSUME NEW s \in VmStates, NEW ref \in PteAddr, NEW pte, NEW x,
         s.panic = NoPanic => PteTidies(s, ref, pte, x)
  PROVE  Tidied(s, SetPte(s, ref, pte), x)
<1>1. ref[1] \in Pages /\ ref[2] \in Idx /\ ref = << ref[1], ref[2] >>
  BY AddrParts
<1>2. s.panic = NoPanic => PteTidies(s, << ref[1], ref[2] >>, pte, x)
  BY <1>1
<1>3. s.panic = NoPanic => Tidied(s, [s EXCEPT !.table[ref[1]][ref[2]] = pte], x)
  BY <1>1, <1>2, PteTidied, Zenon
<1> QED
  BY <1>3, ThenTidied DEF SetPte

(* A zero PTE or a writeable one makes no page clean.                      *)
LEMMA SetPteStill ==
  ASSUME NEW s \in VmStates, NEW ref \in PteAddr, NEW pte,
         pte.kind = "Zero" \/ (pte.kind = "Valid" /\ pte.writeable)
  PROVE  Still(s, SetPte(s, ref, pte))
<1>1. ref[1] \in Pages /\ ref[2] \in Idx
  BY DEF PteAddr
<1>2. Still(s, [s EXCEPT !.table[ref[1]][ref[2]] = pte])
  BY <1>1, PteStill, Zenon
<1> QED
  BY <1>2, ThenKept DEF SetPte

(* The assignment to referent_pte.                                         *)
LEMMA SetReferentKept ==
  ASSUME NEW s \in VmStates, NEW p \in Pages, NEW ref
  PROVE  SlotsKept(s, SetReferent(s, p, ref)) /\ Tidied(s, SetReferent(s, p, ref), p)
<1> DEFINE t == [s EXCEPT !.page[p].referent = ref]
<1>1. /\ t.panic = s.panic /\ t.table = s.table /\ t.data = s.data
      /\ \A q \in Pages : t.page[q].drumslot = s.page[q].drumslot
      /\ \A q \in Pages \ {p} : t.page[q] = s.page[q]
  <2>1. s.page \in [Pages -> PageRec]
    BY Parts DEF PageDb
  <2> QED
    BY <2>1 DEF VmStates, PageRec
<1> HIDE DEF t
<1>2. SlotsKept(s, t)
  BY <1>1 DEF SlotsKept, PageSlot, PteSlot
<1>3. Tidied(s, t, p)
  <2>1. \A q \in Pages \ {p} : /\ IsAnon(t, q) => IsAnon(s, q)
                               /\ t.page[q].referent = s.page[q].referent
    BY <1>1 DEF IsAnon
  <2>2. \A q \in Pages \ {p} : Clean(t, q) => Clean(s, q)
    BY ONLY <1>1, Zenon DEF Clean, Entry, IsAnon
  <2> QED
    BY <1>1, <2>1, <2>2 DEF Tidied
<1> QED
  BY <1>2, <1>3, ThenSlots, ThenTidied DEF SetReferent, t

(* vmp_md_setup_table_pointers() and what goes before it.                  *)
LEMMA EnterTableKept ==
  ASSUME NEW s \in VmStates, NEW dir \in Pages, NEW i \in Idx, NEW p \in Pages,
         NEW isNew \in BOOLEAN
  PROVE  Still(s, EnterTable(s, dir, i, p, isNew))
<1> DEFINE c == [s EXCEPT !.page[p].nonzero = @ + 1, !.page[p].nonswap = @ + 1]
           t == Then(s, c)
           w == WslInsert(t, TableKey(p), TRUE)
           u == NonswapPteCreated(w, dir, isNew)
<1>1. c \in VmStates /\ Still(s, c)
  <2>1. /\ s.page[p].nonzero + 1 \in Int /\ s.page[p].nonswap + 1 \in Int
        /\ "Free" \in PageUse /\ NullRef \in PteAddr
    BY PagePart, ConstantTypes DEF PageUse
  <2> HIDE DEF NullRef
  <2>2. c \in VmStates
    BY <2>1, TwoFieldsType, ZenonT(60)
  <2>3. Still(s, c)
    BY FieldsKept, Zenon
  <2> QED
    BY <2>2, <2>3
<1> HIDE DEF c
<1>2. t \in VmStates /\ Still(s, t)
  BY <1>1, PanicType, ThenKept
<1> HIDE DEF t
<1>3. w \in VmStates /\ Still(s, w)
  BY <1>2, TableKeyType, WslInsertType, WslInsertKept, StillThen
<1> HIDE DEF w
<1>4. u \in VmStates /\ Still(s, u)
  BY <1>3, NonswapPteCreatedType, NonswapPteCreatedKept, StillThen
<1> HIDE DEF u
<1>5. << dir, i >> \in PteAddr /\ HwPte(p, TRUE).kind = "Valid" /\ HwPte(p, TRUE).writeable
  BY DEF PteAddr, HwPte, ZeroPte
<1>6. Still(s, SetPte(u, << dir, i >>, HwPte(p, TRUE)))
  BY <1>4, <1>5, SetPteStill, StillThen
<1> QED
  BY <1>6 DEF EnterTable, c, t, w, u

(* One round of vmp_wire_pte().                                            *)
LEMMA WireTableOwned ==
  ASSUME NEW s \in VmStates, NEW dir \in Pages, NEW i \in Idx, NEW use \in PageUse,
         NEW B, SlotOK(s, B)
  PROVE  SlotOK(WireTable(s, dir, i, use), B)
<1> DEFINE q == s.table[dir][i].page
<1>1. q \in Pages
  BY TablePart
<1> HIDE DEF q
<1>2. SlotOK(NonswapPteCreated(s, q, TRUE), B)
  BY <1>1, NonswapPteCreatedKept, KeptOwned DEF Still
<1>3. SlotOK(EnterTable(PageRetain(PageRetain(s, q), q), dir, i, q, FALSE), B)
  <2> DEFINE a == PageRetain(s, q)
             b == PageRetain(a, q)
             c == EnterTable(b, dir, i, q, FALSE)
  <2>1. a \in VmStates /\ SlotsKept(s, a)
    BY <1>1, PageRetainType, PageRetainKept DEF Still
  <2> HIDE DEF a
  <2>2. b \in VmStates /\ SlotsKept(a, b)
    BY <1>1, <2>1, PageRetainType, PageRetainKept DEF Still
  <2> HIDE DEF b
  <2>3. SlotsKept(b, c)
    BY <1>1, <2>2, EnterTableKept DEF Still
  <2> HIDE DEF c
  <2>4. SlotsKept(s, c)
    BY <2>1, <2>2, <2>3, KeptThen
  <2>5. SlotOK(c, B)
    BY <2>4, KeptOwned
  <2> QED
    BY <2>5 DEF a, b, c
<1>4. SlotOK(NewTable(s, dir, i, use), B)
  <2> DEFINE p == AllocatedPage(s)
             a == PageAlloc(s, use)
             t == PageRetain(a, p)
             r == SetReferent(t, p, << dir, i >>)
             u == EnterTable(r, dir, i, p, TRUE)
  <2>1. << dir, i >> \in PteAddr
    BY DEF PteAddr
  <2>2. CanAlloc(s) => p \in Pages /\ a \in VmStates /\ SlotOK(a, B)
    BY PageAllocType, PageAllocOwned
  <2> HIDE DEF p, a
  <2>3. CanAlloc(s) => t \in VmStates /\ SlotsKept(a, t)
    BY <2>2, PageRetainType, PageRetainKept DEF Still
  <2> HIDE DEF t
  <2>4. CanAlloc(s) => r \in VmStates /\ SlotsKept(a, r)
    BY <2>1, <2>2, <2>3, SetReferentType, SetReferentKept, KeptThen
  <2> HIDE DEF r
  <2>5. CanAlloc(s) => SlotsKept(a, u)
    BY <2>2, <2>4, EnterTableKept, KeptThen DEF Still
  <2> HIDE DEF u
  <2>6. CanAlloc(s) => SlotOK(u, B)
    BY <2>2, <2>5, KeptOwned
  <2>7. [s EXCEPT !.panic = "tables.c:226"].panic # NoPanic
    BY DEF VmStates, NoPanic
  <2>8. SlotOK(Kassert(s, CanAlloc(s), "tables.c:226", u), B)
    BY <2>6, <2>7 DEF Kassert, Then, SlotOK
  <2> QED
    BY <2>8 DEF NewTable, p, a, t, r, u
<1>5. SlotOK(Kfatal(s, "tables.c:203"), B) /\ SlotOK(Kfatal(s, "tables.c:216"), B)
  <2>1. SlotsKept(s, Kfatal(s, "tables.c:203")) /\ SlotsKept(s, Kfatal(s, "tables.c:216"))
    BY KfatalKept, Zenon DEF Still, NoPanic
  <2> QED
    BY <2>1, KeptOwned
<1> QED
  BY <1>2, <1>3, <1>4, <1>5 DEF WireTable, q

(* cluster_anon(): the page gets a slot that is in no page and no PTE, or  *)
(* keeps its own.                                                          *)
LEMMA CleanPageOwned ==
  ASSUME NEW s \in VmStates, NEW p \in Pages, NEW slot \in Nat \cup {NoSlot}, NEW B, NEW C,
         Owned(s, B), B \subseteq C, slot \in C \cup {NoSlot},
         slot \in B => slot = PageSlot(s, p)
  PROVE  SlotOK(CleanPage(s, p, slot), C)
<1> DEFINE r == PageRetain(s, p)
           t == [r EXCEPT !.page[p].drumslot = slot, !.page[p].dirty = FALSE]
           ok == r.page[p].use \in {"AnonPrivate", "PML1", "PML2", "PML3", "PML4"}
<1>1. r \in VmStates /\ SlotsKept(s, r)
  BY PageRetainType, PageRetainKept DEF Still
<1> HIDE DEF r, ok
<1>2. /\ \A q \in Pages : t.page[q].drumslot = IF q = p THEN slot ELSE r.page[q].drumslot
      /\ t.table = r.table
  BY <1>1, SMTT(60) DEF VmStates, PageDb, PageRec
<1> HIDE DEF t
<1>3. /\ \A q \in Pages : \/ q = p /\ PageSlot(t, q) = slot
                          \/ q # p /\ PageSlot(t, q) \in {PageSlot(s, q), NoSlot}
      /\ \A d \in Pages, i \in Idx : PteSlot(t, d, i) \in {PteSlot(s, d, i), NoSlot}
  BY <1>1, <1>2 DEF SlotsKept, PageSlot, PteSlot
<1>4. /\ \A q \in Pages : PageSlot(t, q) \in C \cup {NoSlot}
      /\ \A d \in Pages, i \in Idx : PteSlot(t, d, i) \in C \cup {NoSlot}
  BY <1>3 DEF Owned
<1>5. ASSUME NEW q \in Pages, NEW o \in Pages, PageSlot(t, q) = PageSlot(t, o),
             PageSlot(t, q) # NoSlot
      PROVE  q = o
  <2>1. CASE q # p /\ o # p
    BY <1>3, <1>5, <2>1 DEF Owned
  <2>2. ASSUME NEW x \in Pages, x # p, PageSlot(t, x) # NoSlot
        PROVE  PageSlot(t, x) # slot
    BY <1>3, <2>2 DEF Owned
  <2> QED
    BY <1>3, <1>5, <2>1, <2>2
<1>6. ASSUME NEW d \in Pages, NEW e \in Pages, NEW i \in Idx, NEW j \in Idx,
             PteSlot(t, d, i) = PteSlot(t, e, j), PteSlot(t, d, i) # NoSlot
      PROVE  d = e /\ i = j
  BY <1>3, <1>6 DEF Owned
<1>7. ASSUME NEW q \in Pages, NEW d \in Pages, NEW i \in Idx,
             PageSlot(t, q) = PteSlot(t, d, i), PageSlot(t, q) # NoSlot
      PROVE  FALSE
  <2>1. CASE q # p
    BY <1>3, <1>7, <2>1 DEF Owned
  <2>2. CASE q = p
    <3>1. slot = PteSlot(s, d, i) /\ slot # NoSlot
      BY <1>3, <1>7, <2>2
    <3> QED
      BY <3>1 DEF Owned
  <2> QED
    BY <2>1, <2>2
<1>8. Owned(t, C)
  BY <1>4, <1>5, <1>6, <1>7 DEF Owned
<1>9. [r EXCEPT !.panic = "pgwriter.c:164"].panic # NoPanic
  BY <1>1 DEF VmStates, NoPanic
<1>10. SlotOK(Kassert(r, ok, "pgwriter.c:164", t), C)
  BY <1>8, <1>9 DEF SlotOK, Kassert, Then
<1> QED
  BY <1>10 DEF CleanPage, r, t, ok

(* Every other critical section keeps the owners.                          *)
LEMMA SectionOwned ==
  ASSUME NEW s \in VmStates, NEW B, SlotOK(s, B), NEW t, Section(s, t)
  PROVE  SlotOK(t, B)
<1>1. "AnonPrivate" \in PageUse /\ TableUses \subseteq PageUse
  BY DEF PageUse, TableUses
<1> DEFINE a == PageAlloc(s, "AnonPrivate")
<1>2. SlotOK(a, B) /\ a \in VmStates
  BY <1>1, PageAllocOwned, PageAllocType
<1>3. CanAlloc(s) => AllocatedPage(s) \in Pages
  BY <1>1, PageAllocType
<1>4. /\ \A p \in Pages, w \in BOOLEAN : HwPte(p, w) \in Pte /\ HwPte(p, w).kind # "Swap"
      /\ BusyPte \in Pte /\ BusyPte.kind # "Swap" /\ \A ref \in PteAddr : ref[1] \in Pages
  <2>1. NoSlot \in Nat \cup {NoSlot} /\ 0 \in Pages
    BY ConstantTypes
  <2> QED
    BY <2>1, PteTypes, Zenon DEF PteAddr, HwPte, BusyPte, ZeroPte
<1>5. ASSUME NEW ref \in PteAddr, NEW k \in WsKey, NEW w \in BOOLEAN, CanAlloc(s)
      PROVE  SlotOK(ZeroFill(s, ref, k, w), B)
  <2> DEFINE p == AllocatedPage(s)
             b == SetPte(a, ref, HwPte(p, w))
             n == NonswapPteCreated(b, ref[1], TRUE)
             u == WslInsert(n, k, FALSE)
  <2>1. p \in Pages
    BY <1>3, <1>5
  <2> HIDE DEF p, a
  <2>2. b \in VmStates /\ SlotsKept(a, b)
    BY <1>2, <1>4, <2>1, SetPteType, SetPteKept
  <2> HIDE DEF b
  <2>3. n \in VmStates /\ SlotsKept(a, n)
    BY <1>4, <2>2, NonswapPteCreatedType, NonswapPteCreatedKept, KeptThen DEF Still
  <2> HIDE DEF n
  <2>4. u \in VmStates /\ SlotsKept(a, u)
    BY <2>3, WslInsertType, WslInsertKept, KeptThen DEF Still
  <2> HIDE DEF u
  <2>5. SlotOK(SetReferent(u, p, ref), B)
    BY <1>2, <2>1, <2>4, SetReferentKept, KeptThen, KeptOwned
  <2> QED
    BY <2>5 DEF ZeroFill, p, a, b, n, u
<1>6. ASSUME NEW ref \in PteAddr, NEW k \in WsKey, CanAlloc(s)
      PROVE  SlotOK(StartRead(s, ref, k), B)
  <2> DEFINE p == AllocatedPage(s)
             r == SetReferent(a, p, ref)
             b == SetPte(r, ref, BusyPte)
             n == NonswapPteCreated(b, ref[1], FALSE)
  <2>1. p \in Pages
    BY <1>3, <1>6
  <2> HIDE DEF p, a
  <2>2. r \in VmStates /\ SlotsKept(a, r)
    BY <1>2, <2>1, SetReferentType, SetReferentKept
  <2> HIDE DEF r
  <2>3. b \in VmStates /\ SlotsKept(a, b)
    BY <1>4, <2>2, SetPteType, SetPteKept, KeptThen
  <2> HIDE DEF b
  <2>4. n \in VmStates /\ SlotsKept(a, n)
    BY <1>4, <2>3, NonswapPteCreatedType, NonswapPteCreatedKept, KeptThen DEF Still
  <2> HIDE DEF n
  <2>5. SlotOK(WslInsert(n, k, TRUE), B)
    BY <1>2, <2>4, WslInsertKept, KeptThen, KeptOwned DEF Still
  <2> QED
    BY <2>5 DEF StartRead, p, a, r, b, n
<1>7. ASSUME NEW ref \in PteAddr, NEW k \in WsKey, NEW p \in Pages
      PROVE  /\ SlotOK(Reclaim(s, ref, k, p), B)
             /\ SlotOK(WslUnlockEntry(SetPte(s, ref, HwPte(p, FALSE)), k), B)
  <2> DEFINE r == PageRetain(s, p)
             b == SetPte(r, ref, HwPte(p, FALSE))
             c == SetPte(s, ref, HwPte(p, FALSE))
  <2>1. r \in VmStates /\ SlotsKept(s, r)
    BY PageRetainType, PageRetainKept DEF Still
  <2> HIDE DEF r
  <2>2. b \in VmStates /\ SlotsKept(s, b) /\ c \in VmStates /\ SlotsKept(s, c)
    BY <1>4, <2>1, SetPteType, SetPteKept, KeptThen
  <2> HIDE DEF b, c
  <2>3. SlotOK(WslInsert(b, k, FALSE), B) /\ SlotOK(WslUnlockEntry(c, k), B)
    BY <2>2, WslInsertKept, WslEntryKept, KeptThen, KeptOwned DEF Still
  <2> QED
    BY <2>3 DEF Reclaim, r, b, c
<1>8. SlotOK(Kfatal(s, "fault.c:170"), B)
  <2>1. SlotsKept(s, Kfatal(s, "fault.c:170"))
    BY KfatalKept, Zenon DEF Still, NoPanic
  <2> QED
    BY <2>1, KeptOwned
<1>9. ASSUME NEW p \in Pages
      PROVE  /\ SlotOK(NonswapPteCreated(s, p, TRUE), B)
             /\ SlotOK(PteDeleted(s, p), B) /\ SlotOK(PageRelease(s, p), B)
  BY NonswapPteCreatedKept, PteDeletedKept, PageReleaseKept, KeptOwned DEF Still
<1>10. ASSUME NEW dir \in Pages, NEW i \in Idx, NEW use \in TableUses
       PROVE  SlotOK(WireTable(s, dir, i, use), B)
  BY <1>1, WireTableOwned
<1>11. ASSUME NEW ref \in PteAddr, NEW p \in Pages, NEW w \in BOOLEAN
       PROVE  SlotOK(SetPte(s, ref, HwPte(p, w)), B)
  BY <1>4, SetPteKept, KeptOwned
<1>12. s.wsl.queue # << >> => SlotOK(WslTrim1(s), B)
  BY WslTrim1Kept, KeptOwned DEF Still
<1> QED
  BY <1>2, <1>5, <1>6, <1>7, <1>8, <1>9, <1>10, <1>11, <1>12 DEF Section

-----------------------------------------------------------------------------
(* No slot is in use at first.                                             *)
LEMMA InitOwned == Init => Owned(vm, pf.bitmap)
<1> SUFFICES ASSUME Init PROVE Owned(vm, pf.bitmap)
  OBVIOUS
<1>1. \A p \in Pages : PageSlot(vm, p) = NoSlot
  BY DEF Init, VmInit, PageSlot
<1>2. \A d \in Pages, i \in Idx : PteSlot(vm, d, i) = NoSlot
  BY DEF Init, VmInit, PteSlot, ZeroPte
<1> QED
  BY <1>1, <1>2 DEF Owned

(* Every step of the simulator keeps the owners of the slots.              *)
LEMMA NextOwned ==
  TypeInv /\ Owned(vm, pf.bitmap) /\ [Next]_vars => Owned(vm, pf.bitmap)'
<1> SUFFICES ASSUME TypeInv, Owned(vm, pf.bitmap), [Next]_vars
             PROVE  Owned(vm', pf'.bitmap)
  BY DEF Owned, PageSlot, PteSlot
<1>1. vm \in VmStates /\ pf \in PagefileStates /\ SlotOK(vm, pf.bitmap)
  BY DEF TypeInv, TypeOK, SlotOK
<1>2. CASE Quiet /\ pf' = pf
  BY <1>2 DEF Quiet, Owned, PageSlot, PteSlot
<1>3. CASE vm'.panic = NoPanic /\ Section(vm, vm') /\ pf' = pf
  BY <1>1, <1>3, SectionOwned DEF SlotOK
<1>4. CASE WriterCollect
  <2> DEFINE p     == Head(vm.modified)
             isNew == vm.page[p].drumslot = NoSlot
             slot  == IF isNew THEN PagefileSlot(pf) ELSE vm.page[p].drumslot
             pf1   == IF isNew THEN PagefileAlloc(pf) ELSE pf
  <2>1. p \in Pages
    BY <1>1, <1>4, Parts, SMTT(60) DEF WriterCollect, Queue
  <2>2. PICK w : Commit(CleanPage(vm, p, slot), flt, w, pf1)
    BY <1>4 DEF WriterCollect
  <2> HIDE DEF p
  <2>3. vm.page[p].drumslot \in Nat \cup {NoSlot}
    BY <1>1, <2>1, PagePart
  <2>4. /\ slot \in Nat \cup {NoSlot} /\ pf.bitmap \subseteq pf1.bitmap
        /\ slot \in pf1.bitmap \cup {NoSlot} /\ (slot \in pf.bitmap => slot = PageSlot(vm, p))
    <3>1. CASE ~isNew
      BY <2>1, <2>3, <3>1 DEF Owned, PageSlot
    <3>2. CASE isNew /\ ~HasSlot(pf)
      <4>1. -1 \notin pf.bitmap
        BY <1>1, PagefileAssumption DEF PagefileStates, Slots
      <4> QED
        BY <3>2, <4>1 DEF PagefileSlot, PagefileAlloc, NoSlot
    <3>3. CASE isNew /\ HasSlot(pf)
      <4>1. PagefileSlot(pf) \in Slots \ pf.bitmap
        BY <1>1, <3>3, PagefileSlotFree
      <4>2. PagefileAlloc(pf).bitmap = pf.bitmap \cup {PagefileSlot(pf)}
        BY <3>3 DEF PagefileAlloc
      <4>3. PagefileSlot(pf) \in Nat
        BY <4>1, PagefileAssumption DEF Slots
      <4> QED
        BY <3>3, <4>1, <4>2, <4>3
    <3> QED
      BY <3>1, <3>2, <3>3
  <2> HIDE DEF slot, pf1
  <2>5. \/ Quiet /\ pf' = pf
        \/ vm' = CleanPage(vm, p, slot) /\ vm'.panic = NoPanic /\ pf' = pf1
    BY <1>1, <2>2, CommitShape
  <2>6. SlotOK(CleanPage(vm, p, slot), pf1.bitmap)
    BY <1>1, <2>1, <2>4, CleanPageOwned
  <2> QED
    BY <1>2, <2>5, <2>6 DEF SlotOK
<1> QED
  BY <1>2, <1>3, <1>4, StepShape

(* The image of a finite set under a one-to-one function.                  *)
LEMMA ImageCardinality ==
  ASSUME NEW S, IsFiniteSet(S), NEW f, DOMAIN f = S,
         \A x, y \in S : f[x] = f[y] => x = y
  PROVE  LET T == {f[x] : x \in S}
         IN  IsFiniteSet(T) /\ Cardinality(T) = Cardinality(S)
<1> DEFINE T == {f[x] : x \in S}
           g == [x \in S |-> f[x]]
<1>1. g \in Bijection(S, T)
  BY DEF Bijection, Injection, Surjection, IsInjective
<1>2. ExistsBijection(S, T)
  BY <1>1 DEF ExistsBijection
<1> QED
  BY <1>2, FS_Bijection

(* In every reachable state, for any number of pages, slots and threads, a *)
(* slot of the paging file that is in use belongs to one page or to one    *)
(* swap PTE, and its bit is set: no two addresses are ever swapped out to  *)
(* one slot, however evictions, cleaning and swap-ins are interleaved.     *)
THEOREM SlotsHaveOneOwner == Spec => []SlotsOwned
<1>1. TypeInv /\ SlotCountExact /\ Owned(vm, pf.bitmap) => SlotsOwned
  <2> SUFFICES ASSUME TypeInv, SlotCountExact, Owned(vm, pf.bitmap) PROVE SlotsOwned
    OBVIOUS
  <2> DEFINE OfPages == {p \in Pages : Anon(p) /\ vm.page[p].drumslot # NoSlot}
             OfPtes  == {ref \in PteAddr : PteAt(ref).kind = "Swap" /\ PteAt(ref).slot # NoSlot}
             f == [p \in OfPages |-> vm.page[p].drumslot]
             g == [ref \in OfPtes |-> PteAt(ref).slot]
             A == {vm.page[p].drumslot : p \in OfPages}
             C == {PteAt(ref).slot : ref \in OfPtes}
  <2>1. IsFiniteSet(Pages) /\ IsFiniteSet(PteAddr)
    <3>1. IsFiniteSet(Pages) /\ IsFiniteSet(Idx)
      BY FS_Interval, VmAssumption DEF Pages, Idx
    <3> QED
      BY <3>1, FS_Product DEF PteAddr
  <2>2. IsFiniteSet(OfPages) /\ IsFiniteSet(OfPtes)
    <3>1. OfPages \subseteq Pages /\ OfPtes \subseteq PteAddr
      OBVIOUS
    <3> HIDE DEF OfPages, OfPtes
    <3> QED
      BY <2>1, <3>1, FS_Subset
  <2>3. \A p, q \in OfPages : vm.page[p].drumslot = vm.page[q].drumslot => p = q
    BY DEF Owned, PageSlot
  <2>4. \A ref \in OfPtes : /\ ref[1] \in Pages /\ ref[2] \in Idx /\ ref = << ref[1], ref[2] >>
                            /\ PteSlot(vm, ref[1], ref[2]) = PteAt(ref).slot
                            /\ PteAt(ref).slot # NoSlot
    BY DEF PteSlot, PteAt, PteAddr
  <2>5. \A x, y \in OfPtes : PteAt(x).slot = PteAt(y).slot => x = y
    <3> HIDE DEF OfPtes
    <3> QED
      BY <2>4 DEF Owned
  <2>6. A \cap C = {} /\ A \cup C \subseteq pf.bitmap
    <3>1. \A p \in OfPages : p \in Pages /\ PageSlot(vm, p) = vm.page[p].drumslot
                             /\ vm.page[p].drumslot # NoSlot
      BY DEF PageSlot
    <3> HIDE DEF OfPages, OfPtes
    <3> QED
      BY <2>4, <3>1 DEF Owned
  <2> HIDE DEF OfPages, OfPtes
  <2>7. IsFiniteSet(A) /\ Cardinality(A) = Cardinality(OfPages)
    <3>1. DOMAIN f = OfPages /\ \A x, y \in OfPages : f[x] = f[y] => x = y
      BY <2>3
    <3>2. {f[x] : x \in OfPages} = A
      OBVIOUS
    <3> HIDE DEF f
    <3> QED
      BY <2>2, <3>1, <3>2, ImageCardinality
  <2>8. IsFiniteSet(C) /\ Cardinality(C) = Cardinality(OfPtes)
    <3>1. DOMAIN g = OfPtes /\ \A x, y \in OfPtes : g[x] = g[y] => x = y
      BY <2>5
    <3>2. {g[x] : x \in OfPtes} = C
      OBVIOUS
    <3> HIDE DEF g
    <3> QED
      BY <2>2, <3>1, <3>2, ImageCardinality
  <2> HIDE DEF A, C
  <2>9. Cardinality(A \cup C) = Cardinality(OfPages) + Cardinality(OfPtes)
    <3>1. /\ Cardinality(A \cup C) = Cardinality(A) + Cardinality(C) - Cardinality(A \cap C)
          /\ Cardinality(A \cap C) = 0 /\ Cardinality(A) \in Nat /\ Cardinality(C) \in Nat
      BY <2>6, <2>7, <2>8, FS_Union, FS_EmptySet, FS_CardinalityType
    <3> QED
      BY <2>7, <2>8, <3>1
  <2> QED
    BY <2>6, <2>9 DEF SlotsOwned, OfPages, OfPtes, A, C
<1> QED
  BY <1>1, InitType, NextType, InitOwned, NextOwned, SlotsCounted, PTL DEF Spec

-----------------------------------------------------------------------------
(* What a clean page holds is in its slot, or it was never written.  From  *)
(* s to t page x is given to a new owner: it has no slot and holds zeroes. *)
Renewed(s, t, x) ==
  /\ \A p \in Pages \ {x} : t.page[p].drumslot = s.page[p].drumslot /\ t.data[p] = s.data[p]
  /\ t.page[x].drumslot = NoSlot /\ t.data[x] = 0
  /\ \A p \in Pages \ {x} :
       IsAnon(t, p) => IsAnon(s, p) /\ t.page[p].referent = s.page[p].referent
  /\ \A p \in Pages \ {x} : Clean(t, p) => Clean(s, p)

(* A page is given to a new owner and nothing else is made clean, ...      *)
LEMMA RenewedThen ==
  ASSUME NEW s, NEW t, NEW u, NEW x \in Pages, Renewed(s, t, x), Tidied(t, u, x)
  PROVE  Renewed(s, u, x)
  BY DEF Renewed, Tidied

(* ... in either order.                                                    *)
LEMMA ThenRenewed ==
  ASSUME NEW s, NEW t, NEW u, NEW x \in Pages, Tidied(s, t, x), Renewed(t, u, x)
  PROVE  Renewed(s, u, x)
  BY DEF Renewed, Tidied

(* The memset() and the fields that vmp_page_alloc_locked() sets.          *)
LEMMA TakePageRenewed ==
  ASSUME NEW s \in VmStates, NEW p \in Pages, NEW use, NEW t,
         t.page = TakePage(s, p, use).page, t.table = TakePage(s, p, use).table,
         t.data = TakePage(s, p, use).data
  PROVE  Renewed(s, t, p)
<1> DEFINE r == [s.page[p] EXCEPT !.refcnt = 1, !.use = use, !.dirty = FALSE,
                                  !.drumslot = NoSlot, !.referent = NullRef]
           z == [i \in Idx |-> ZeroPte]
<1>1. /\ t.page = [s.page EXCEPT ![p] = r] /\ t.table = [s.table EXCEPT ![p] = z]
      /\ t.data = [s.data EXCEPT ![p] = 0]
  BY DEF TakePage, VmStates
<1>2. r.drumslot = NoSlot
  BY PagePart DEF PageRec
<1>3. \A i \in Idx : z[i].kind = "Zero"
  BY DEF ZeroPte
<1> HIDE DEF r, z
<1>4. \A q \in Pages : t.page[q] = IF q = p THEN r ELSE s.page[q]
  BY <1>1, Parts DEF PageDb
<1>5. \A q \in Pages : t.table[q] = IF q = p THEN z ELSE s.table[q]
  BY <1>1, Parts DEF TableMem
<1>6. \A q \in Pages : t.data[q] = IF q = p THEN 0 ELSE s.data[q]
  BY <1>1, Parts DEF Contents
<1>7. ASSUME NEW q \in Pages \ {p}, Clean(t, q) PROVE Clean(s, q)
  <2> DEFINE d == s.page[q].referent[1]
             i == s.page[q].referent[2]
  <2>1. d \in Pages /\ i \in Idx
    BY PagePart
  <2>2. t.page[q] = s.page[q]
    BY <1>4
  <2> HIDE DEF d, i
  <2>3. t.table[d] = IF d = p THEN z ELSE s.table[d]
    BY <1>5, <2>1
  <2>4. Entry(t, t.page[q].referent) = t.table[d][i] /\ Entry(s, s.page[q].referent) = s.table[d][i]
    BY <2>2 DEF Entry, d, i
  <2>5. d # p
    BY <1>3, <1>7, <2>1, <2>3, <2>4 DEF Clean
  <2>6. Entry(t, t.page[q].referent) = Entry(s, s.page[q].referent)
    BY <2>3, <2>4, <2>5
  <2> QED
    BY ONLY Clean(t, q), <2>2, <2>6 DEF Clean, IsAnon
<1>8. \A q \in Pages \ {p} : IsAnon(t, q) => IsAnon(s, q) /\ t.page[q].referent = s.page[q].referent
  BY <1>4 DEF IsAnon
<1>9. \A q \in Pages \ {p} : t.page[q].drumslot = s.page[q].drumslot /\ t.data[q] = s.data[q]
  BY <1>4, <1>6
<1>10. t.page[p].drumslot = NoSlot /\ t.data[p] = 0
  BY <1>2, <1>4, <1>6
<1> QED
  BY ONLY <1>7, <1>8, <1>9, <1>10 DEF Renewed

(* A free page.                                                            *)
LEMMA TakeFreeRenewed ==
  ASSUME NEW s \in VmStates, NEW use, s.free # << >>, TakeFree(s, use).panic = NoPanic
  PROVE  Renewed(s, TakeFree(s, use), Head(s.free))
<1> DEFINE p == Head(s.free)
           t == TakePage(s, p, use)
           u == [t EXCEPT !.free = Tail(@), !.stat.nfree = @ - 1]
<1>1. p \in Pages
  BY Parts DEF Queue
<1>2. u.page = t.page /\ u.table = t.table /\ u.data = t.data
  BY DEF TakePage, VmStates
<1> HIDE DEF u, p
<1>3. Renewed(s, u, p)
  BY <1>1, <1>2, TakePageRenewed
<1>4. \A site : site # NoPanic => [s EXCEPT !.panic = site].panic # NoPanic
  BY PanicSeen
<1>5. TakeFree(s, use) = u
  BY <1>4 DEF TakeFree, Kassert, Then, u, t, p, NoPanic
<1> QED
  BY <1>3, <1>5 DEF p

(* The oldest standby page.  Its PTE is a swap or a zero PTE before it     *)
(* gets its new owner.                                                     *)
LEMMA StealPageRenewed ==
  ASSUME NEW s \in VmStates, NEW use, s.standby # << >>, StealPage(s, use).panic = NoPanic
  PROVE  Renewed(s, StealPage(s, use), Head(s.standby))
<1> DEFINE p   == Head(s.standby)
           ref == s.page[p].referent
           x   == SwapPte(s.page[p].drumslot)
           c   == [s EXCEPT !.table[ref[1]][ref[2]] = x]
           b   == [s EXCEPT !.standby = Tail(@), !.table[ref[1]][ref[2]] = x]
           t   == PteBecameSwap(b, ref[1])
           v   == TakePage(t, p, use)
           u   == [v EXCEPT !.stat.nstandby = @ - 1]
<1>1. p \in Pages
  BY Parts DEF Queue
<1> HIDE DEF p
<1>2. /\ ref[1] \in Pages /\ ref[2] \in Idx /\ s.page[p].drumslot \in Nat \cup {NoSlot}
      /\ x \in Pte /\ x.kind \in {"Zero", "Swap"}
  <2>1. s.page[p].drumslot \in Nat \cup {NoSlot} /\ TRUE \in BOOLEAN
    BY <1>1, PagePart
  <2>2. x.kind \in {"Zero", "Swap"}
    BY DEF SwapPte, ZeroPte
  <2> QED
    BY <1>1, <2>1, <2>2, PagePart, PteTypes
<1> HIDE DEF x
<1>3. b \in VmStates
  <2>1. Tail(s.standby) \in Queue
    BY Parts DEF Queue
  <2> HIDE DEF ref
  <2>2. [s.table EXCEPT ![ref[1]][ref[2]] = x] \in TableMem
    BY <1>2, Parts DEF TableMem
  <2> QED
    BY <2>1, <2>2 DEF VmStates
<1>4. Tidied(s, c, NoPage)
  <2>1. PteTidies(s, << ref[1], ref[2] >>, x, NoPage)
    BY <1>2 DEF PteTidies
  <2> QED
    BY <1>2, <2>1, PteTidied, Zenon
<1>5. Tidied(s, b, NoPage)
  <2>1. b.page = c.page /\ b.table = c.table /\ b.data = c.data
    BY DEF VmStates
  <2> HIDE DEF b, c
  <2>2. \A q \in Pages : Clean(b, q) => Clean(c, q)
    BY ONLY <2>1, Zenon DEF Clean, IsAnon, Entry
  <2> QED
    BY <1>4, <2>1, <2>2 DEF Tidied, IsAnon
<1> HIDE DEF b, c
<1>6. t \in VmStates /\ Still(b, t)
  BY <1>2, <1>3, PteBecameSwapType, PteGoneKept
<1>7. Tidied(s, t, p)
  <2>1. Tidied(s, t, NoPage)
    BY <1>5, <1>6, TidiedThen DEF Still
  <2> QED
    BY <2>1, TidiedBut
<1> HIDE DEF t
<1>8. u.page = v.page /\ u.table = v.table /\ u.data = v.data
  BY <1>6 DEF TakePage, VmStates
<1> HIDE DEF u
<1>9. Renewed(t, u, p)
  BY <1>1, <1>6, <1>8, TakePageRenewed
<1>10. Renewed(s, u, p)
  BY <1>1, <1>7, <1>9, ThenRenewed
<1>11. /\ \A site : site # NoPanic => [s EXCEPT !.panic = site].panic # NoPanic
       /\ \A site : site # NoPanic => [t EXCEPT !.panic = site].panic # NoPanic
  BY <1>6, PanicSeen
<1>12. StealPage(s, use) = Kassert(s, s.page[p].use = "AnonPrivate", "resident.c:78",
                             Kassert(t, t.page[p].refcnt = 0 /\ t.page[p].nonzero = 0,
                                     "resident.c:81", u))
  BY Zenon DEF StealPage, u, v, t, b, x, ref, p
<1>13. StealPage(s, use) = u
  BY ONLY StealPage(s, use).panic = NoPanic, <1>11, <1>12 DEF Kassert, Then, NoPanic
<1> QED
  BY <1>10, <1>13 DEF p

(* vmp_page_alloc_locked().                                                *)
LEMMA PageAllocRenewed ==
  ASSUME NEW s \in VmStates, NEW use, CanAlloc(s), PageAlloc(s, use).panic = NoPanic
  PROVE  Renewed(s, PageAlloc(s, use), AllocatedPage(s))
<1>1. s.panic = NoPanic
  BY ThenPassed DEF PageAlloc
<1>2. PageAlloc(s, use) = IF s.free # << >> THEN TakeFree(s, use) ELSE StealPage(s, use)
  BY <1>1 DEF PageAlloc, Then
<1> QED
  BY <1>2, TakeFreeRenewed, StealPageRenewed DEF AllocatedPage, CanAlloc

-----------------------------------------------------------------------------
(* The disk d has what page p holds, if it has a slot.  One without a slot *)
(* was never written, unless no slot is left, n being those that are.      *)
Backed(s, d, n, p) ==
  LET slot == s.page[p].drumslot
  IN  IF slot \in Slots THEN d[slot] = s.data[p] ELSE n > 0 => s.data[p] = 0

(* The pages that count as clean are backed, except the one whose write    *)
(* has been decided and not sent; its slot is the one it will be sent to.  *)
AllBacked(s, d, n, w) ==
  /\ \A p \in Pages \ {w.page} : Clean(s, p) => Backed(s, d, n, p)
  /\ w.page \in Pages => /\ s.page[w.page].drumslot = w.slot
                         /\ w.slot \notin Slots => ~(n > 0)

CleanBacked == AllBacked(vm, disk, pf.free_slots, wr)

(* What a critical section does while the page of w is being written.      *)
Moves(s, t, w) == Tidied(s, t, NoPage) \/ \E x \in Pages \ {w.page} : Renewed(s, t, x)

(* It keeps the clean pages backed: a new page has no slot and holds zeroes. *)
LEMMA MovesBacked ==
  ASSUME NEW s, NEW t, NEW d, NEW n, NEW w, NEW v, AllBacked(s, d, n, w), Moves(s, t, w),
         v.page = w.page, v.slot = w.slot
  PROVE  AllBacked(t, d, n, v)
<1>1. NoPage \notin Pages
  BY DEF NoPage, Pages
<1>2. CASE Tidied(s, t, NoPage)
  <2>1. \A p \in Pages : t.page[p].drumslot = s.page[p].drumslot /\ t.data[p] = s.data[p]
    BY <1>2 DEF Tidied
  <2>2. \A p \in Pages : Clean(t, p) => Clean(s, p)
    BY <1>1, <1>2 DEF Tidied
  <2> QED
    BY ONLY AllBacked(s, d, n, w), v.page = w.page, v.slot = w.slot, <2>1, <2>2
    DEF AllBacked, Backed
<1>3. ASSUME NEW x \in Pages \ {w.page}, Renewed(s, t, x) PROVE AllBacked(t, d, n, v)
  <2>1. \A p \in Pages \ {x} : t.page[p].drumslot = s.page[p].drumslot /\ t.data[p] = s.data[p]
    BY <1>3 DEF Renewed
  <2>2. \A p \in Pages \ {x} : Clean(t, p) => Clean(s, p)
    BY <1>3 DEF Renewed
  <2>3. t.page[x].drumslot \notin Slots /\ t.data[x] = 0
    BY <1>3, PagefileAssumption DEF Renewed, NoSlot, Slots
  <2> QED
    BY ONLY AllBacked(s, d, n, w), v.page = w.page, v.slot = w.slot, <1>3, <2>1, <2>2, <2>3
    DEF AllBacked, Backed
<1> QED
  BY <1>2, <1>3 DEF Moves

(* A critical section and what its end makes of it.                        *)
LEMMA CommitBacked ==
  ASSUME vm \in VmStates, CleanBacked, NEW s, NEW x, NEW v, Commit(s, x, v, pf), disk' = disk,
         v.page = wr.page, v.slot = wr.slot, s.panic = NoPanic => Moves(vm, s, wr)
  PROVE  AllBacked(vm', disk', pf'.free_slots, wr')
<1>1. CASE s.panic = NoPanic
  BY <1>1, MovesBacked DEF Commit, CleanBacked
<1>2. CASE s.panic # NoPanic
  <2>1. /\ vm'.page = vm.page /\ vm'.table = vm.table /\ vm'.data = vm.data
        /\ wr' = wr /\ pf' = pf
    BY <1>2 DEF Commit, VmStates
  <2>2. \A p \in Pages : Clean(vm', p) => Clean(vm, p)
    BY ONLY <2>1, Zenon DEF Clean, IsAnon, Entry
  <2> QED
    BY <2>1, <2>2 DEF CleanBacked, AllBacked, Backed
<1> QED
  BY <1>1, <1>2

(* Steps that leave the pages and the page tables alone.                   *)
LEMMA RestBacked ==
  ASSUME CleanBacked, vm'.page = vm.page, vm'.table = vm.table, vm'.data = vm.data,
         pf' = pf, disk' = disk, wr' = wr
  PROVE  AllBacked(vm', disk', pf'.free_slots, wr')
<1>1. \A p \in Pages : Clean(vm', p) => Clean(vm, p)
  BY Zenon DEF Clean, IsAnon, Entry
<1> QED
  BY <1>1 DEF CleanBacked, AllBacked, Backed

-----------------------------------------------------------------------------
(* The zero case of do_fault().                                            *)
LEMMA ZeroFillRenewed ==
  ASSUME NEW s \in VmStates, NEW ref \in PteAddr, NEW k \in WsKey, NEW w \in BOOLEAN,
         CanAlloc(s), ZeroFill(s, ref, k, w).panic = NoPanic
  PROVE  /\ PageAlloc(s, "AnonPrivate").panic = NoPanic
         /\ Renewed(s, ZeroFill(s, ref, k, w), AllocatedPage(s))
<1> DEFINE p == AllocatedPage(s)
           a == PageAlloc(s, "AnonPrivate")
           b == SetPte(a, ref, HwPte(p, w))
           n == NonswapPteCreated(b, ref[1], TRUE)
           u == WslInsert(n, k, FALSE)
           z == SetReferent(u, p, ref)
<1>1. p \in Pages /\ a \in VmStates /\ ref[1] \in Pages
  <2>1. "AnonPrivate" \in PageUse
    BY DEF PageUse
  <2> QED
    BY <2>1, PageAllocType, AddrParts
<1>2. a.panic = NoPanic => Renewed(s, a, p)
  BY PageAllocRenewed
<1> HIDE DEF p, a
<1>3. HwPte(p, w) \in Pte /\ HwPte(p, w).kind = "Valid" /\ HwPte(p, w).page = p
  <2>1. 0 \in Nat \cup {NoSlot}
    OBVIOUS
  <2>2. HwPte(p, w) \in Pte
    BY <1>1, <2>1, PteTypes
  <2> QED
    BY <2>2 DEF HwPte, ZeroPte
<1>4. b \in VmStates /\ SlotsKept(a, b) /\ Tidied(a, b, p)
  <2>1. b \in VmStates
    BY <1>1, <1>3, SetPteType
  <2>2. PteTidies(a, ref, HwPte(p, w), p)
    BY <1>3 DEF PteTidies
  <2> QED
    BY <1>1, <1>3, <2>1, <2>2, SetPteKept, SetPteTidied
<1> HIDE DEF b
<1>5. n \in VmStates /\ Still(b, n)
  BY <1>1, <1>4, NonswapPteCreatedType, NonswapPteCreatedKept
<1> HIDE DEF n
<1>6. u \in VmStates /\ Still(n, u)
  BY <1>5, WslInsertType, WslInsertKept
<1> HIDE DEF u
<1>7. SlotsKept(u, z) /\ Tidied(u, z, p)
  BY <1>1, <1>6, SetReferentKept
<1>8. z = ZeroFill(s, ref, k, w)
  BY DEF ZeroFill, p, a, b, n, u, z
<1> HIDE DEF z
<1>9. SlotsKept(a, z) /\ Tidied(a, z, p)
  <2>1. Tidied(b, n, p) /\ Tidied(n, u, p)
    BY <1>5, <1>6, TidiedBut DEF Still
  <2> QED
    BY <1>4, <1>5, <1>6, <1>7, <2>1, KeptThen, TidiedThen DEF Still
<1>10. a.panic = NoPanic
  BY <1>8, <1>9 DEF SlotsKept
<1> QED
  BY <1>1, <1>2, <1>8, <1>9, <1>10, RenewedThen DEF p, a

(* The swap case: no other page has the PTE that becomes busy.             *)
LEMMA StartReadRenewed ==
  ASSUME NEW s \in VmStates, NEW ref \in PteAddr, NEW k \in WsKey, CanAlloc(s),
         StartRead(s, ref, k).panic = NoPanic,
         \A q \in Pages : IsAnon(s, q) => s.page[q].referent # ref
  PROVE  /\ PageAlloc(s, "AnonPrivate").panic = NoPanic
         /\ Renewed(s, StartRead(s, ref, k), AllocatedPage(s))
<1> DEFINE p == AllocatedPage(s)
           a == PageAlloc(s, "AnonPrivate")
           r == SetReferent(a, p, ref)
           b == SetPte(r, ref, BusyPte)
           n == NonswapPteCreated(b, ref[1], FALSE)
           z == WslInsert(n, k, TRUE)
<1>1. p \in Pages /\ a \in VmStates /\ ref[1] \in Pages
  <2>1. "AnonPrivate" \in PageUse
    BY DEF PageUse
  <2> QED
    BY <2>1, PageAllocType, AddrParts
<1>2. a.panic = NoPanic => Renewed(s, a, p)
  BY PageAllocRenewed
<1> HIDE DEF p, a
<1>3. BusyPte \in Pte /\ BusyPte.kind = "Busy"
  <2>1. NoSlot \in Nat \cup {NoSlot} /\ 0 \in Pages /\ TRUE \in BOOLEAN
    BY ConstantTypes
  <2> QED
    BY <2>1, PteTypes DEF BusyPte, ZeroPte
<1>4. r \in VmStates /\ SlotsKept(a, r) /\ Tidied(a, r, p)
  BY <1>1, SetReferentType, SetReferentKept
<1> HIDE DEF r
<1>5. b \in VmStates /\ SlotsKept(r, b)
  <2>1. BusyPte.kind # "Swap"
    BY <1>3
  <2> QED
    BY <1>3, <1>4, <2>1, SetPteType, SetPteKept
<1>6. a.panic = NoPanic => Tidied(r, b, p)
  <2> SUFFICES ASSUME a.panic = NoPanic PROVE Tidied(r, b, p)
    OBVIOUS
  <2>1. ASSUME NEW q \in Pages \ {p}, IsAnon(r, q) PROVE r.page[q].referent # ref
    <3>1. IsAnon(a, q) /\ r.page[q].referent = a.page[q].referent
      BY <1>4, <2>1 DEF Tidied
    <3>2. IsAnon(s, q) /\ a.page[q].referent = s.page[q].referent
      BY <1>2, <3>1 DEF Renewed
    <3> QED
      BY <3>1, <3>2
  <2>2. PteTidies(r, ref, BusyPte, p)
    BY <2>1 DEF PteTidies
  <2> QED
    BY <1>4, <2>2, SetPteTidied
<1> HIDE DEF b
<1>7. n \in VmStates /\ Still(b, n)
  <2>1. FALSE \in BOOLEAN
    OBVIOUS
  <2> QED
    BY <1>1, <1>5, <2>1, NonswapPteCreatedType, NonswapPteCreatedKept
<1> HIDE DEF n
<1>8. Still(n, z)
  BY <1>7, WslInsertKept
<1>9. z = StartRead(s, ref, k)
  BY DEF StartRead, p, a, r, b, n, z
<1> HIDE DEF z
<1>10. SlotsKept(a, z)
  BY <1>4, <1>5, <1>7, <1>8, KeptThen DEF Still
<1>11. a.panic = NoPanic
  BY <1>9, <1>10 DEF SlotsKept
<1>12. Tidied(a, z, p)
  <2>1. Tidied(b, n, p) /\ Tidied(n, z, p)
    BY <1>7, <1>8, TidiedBut DEF Still
  <2> QED
    BY <1>4, <1>6, <1>11, <2>1, TidiedThen
<1> QED
  BY <1>1, <1>2, <1>9, <1>11, <1>12, RenewedThen DEF p, a

(* The transition case: the page that the PTE maps again was clean, or is  *)
(* dirty.                                                                  *)
LEMMA ReclaimTidied ==
  ASSUME NEW s \in VmStates, NEW ref \in PteAddr, NEW k \in WsKey, NEW p \in Pages,
         Entry(s, ref).kind = "Trans", Entry(s, ref).page = p,
         Reclaim(s, ref, k, p).panic = NoPanic
  PROVE  Tidied(s, Reclaim(s, ref, k, p), NoPage)
<1> DEFINE r == PageRetain(s, p)
           b == SetPte(r, ref, HwPte(p, FALSE))
           z == WslInsert(b, k, FALSE)
<1>1. r \in VmStates /\ Still(s, r)
  BY PageRetainType, PageRetainKept
<1>2. r.panic = NoPanic => r.table = s.table
  BY PageRetainEffect DEF Refd
<1> HIDE DEF r
<1>3. HwPte(p, FALSE) \in Pte /\ HwPte(p, FALSE).kind = "Valid" /\ HwPte(p, FALSE).page = p
  <2>1. 0 \in Nat \cup {NoSlot} /\ FALSE \in BOOLEAN
    OBVIOUS
  <2>2. HwPte(p, FALSE) \in Pte
    BY <2>1, PteTypes
  <2> QED
    BY <2>2 DEF HwPte, ZeroPte
<1>4. b \in VmStates /\ SlotsKept(r, b)
  <2>1. HwPte(p, FALSE).kind # "Swap"
    BY <1>3
  <2> QED
    BY <1>1, <1>3, <2>1, SetPteType, SetPteKept
<1>5. r.panic = NoPanic => Tidied(r, b, NoPage)
  <2> SUFFICES ASSUME r.panic = NoPanic PROVE Tidied(r, b, NoPage)
    OBVIOUS
  <2>1. Entry(r, ref).kind = "Trans" /\ Entry(r, ref).page = p
    BY <1>2 DEF Entry
  <2>2. PteTidies(r, ref, HwPte(p, FALSE), NoPage)
    BY <1>3, <2>1 DEF PteTidies, Clean
  <2> QED
    BY <1>1, <2>2, SetPteTidied
<1> HIDE DEF b
<1>6. Still(b, z)
  BY <1>4, WslInsertKept
<1>7. z = Reclaim(s, ref, k, p)
  BY DEF Reclaim, r, b, z
<1> HIDE DEF z
<1>8. r.panic = NoPanic
  BY <1>4, <1>6, <1>7, KeptThen DEF Still, SlotsKept
<1> QED
  BY <1>1, <1>5, <1>6, <1>7, <1>8, TidiedThen DEF Still

(* The end of a read: the busy PTE maps the page that was read in.         *)
LEMMA FinishTidied ==
  ASSUME NEW s \in VmStates, NEW ref \in PteAddr, NEW k \in WsKey, NEW p \in Pages,
         Entry(s, ref).kind = "Busy"
  PROVE  Tidied(s, WslUnlockEntry(SetPte(s, ref, HwPte(p, FALSE)), k), NoPage)
<1> DEFINE b == SetPte(s, ref, HwPte(p, FALSE))
<1>1. HwPte(p, FALSE) \in Pte
  <2>1. 0 \in Nat \cup {NoSlot} /\ FALSE \in BOOLEAN
    OBVIOUS
  <2> QED
    BY <2>1, PteTypes
<1>2. b \in VmStates /\ Tidied(s, b, NoPage)
  <2>1. PteTidies(s, ref, HwPte(p, FALSE), NoPage)
    BY DEF PteTidies, Clean
  <2> QED
    BY <1>1, <2>1, SetPteType, SetPteTidied
<1> HIDE DEF b
<1>3. Still(b, WslUnlockEntry(b, k))
  BY <1>2, WslEntryKept
<1>4. Tidied(s, WslUnlockEntry(b, k), NoPage)
  BY <1>2, <1>3, TidiedThen DEF Still
<1> QED
  BY <1>4 DEF b

(* A table that is made is cleared, and the others are left alone.         *)
LEMMA NewTableRenewed ==
  ASSUME NEW s \in VmStates, NEW dir \in Pages, NEW i \in Idx, NEW use \in TableUses,
         NewTable(s, dir, i, use).panic = NoPanic
  PROVE  /\ CanAlloc(s) /\ PageAlloc(s, use).panic = NoPanic
         /\ Renewed(s, NewTable(s, dir, i, use), AllocatedPage(s))
<1>0. use \in PageUse
  BY DEF TableUses, PageUse
<1> DEFINE p == AllocatedPage(s)
           a == PageAlloc(s, use)
           t == PageRetain(a, p)
           r == SetReferent(t, p, << dir, i >>)
           u == EnterTable(r, dir, i, p, TRUE)
<1>1. << dir, i >> \in PteAddr
  BY DEF PteAddr
<1>2. NewTable(s, dir, i, use) = Kassert(s, CanAlloc(s), "tables.c:226", u)
  BY DEF NewTable
<1> HIDE DEF u
<1>3. CanAlloc(s) /\ NewTable(s, dir, i, use) = u /\ u.panic = NoPanic
  <2>1. [s EXCEPT !.panic = "tables.c:226"].panic # NoPanic
    BY DEF VmStates, NoPanic
  <2> QED
    BY ONLY NewTable(s, dir, i, use).panic = NoPanic, <1>2, <2>1 DEF Kassert, Then, NoPanic
<1>4. p \in Pages /\ a \in VmStates
  BY <1>0, <1>3, PageAllocType
<1>5. a.panic = NoPanic => Renewed(s, a, p)
  BY <1>3, PageAllocRenewed
<1> HIDE DEF p, a
<1>6. t \in VmStates /\ Still(a, t)
  BY <1>4, PageRetainType, PageRetainKept
<1> HIDE DEF t
<1>7. r \in VmStates /\ SlotsKept(t, r) /\ Tidied(t, r, p)
  BY <1>1, <1>4, <1>6, SetReferentType, SetReferentKept
<1> HIDE DEF r
<1>8. Still(r, u)
  <2>1. TRUE \in BOOLEAN
    OBVIOUS
  <2> QED
    BY <1>4, <1>7, <2>1, EnterTableKept DEF u
<1>9. SlotsKept(a, u) /\ Tidied(a, u, p)
  <2>1. Tidied(a, t, p) /\ Tidied(r, u, p)
    BY <1>6, <1>8, TidiedBut DEF Still
  <2> QED
    BY <1>6, <1>7, <1>8, <2>1, KeptThen, TidiedThen DEF Still
<1>10. a.panic = NoPanic
  BY <1>3, <1>9 DEF SlotsKept
<1> QED
  BY <1>3, <1>4, <1>5, <1>9, <1>10, RenewedThen DEF p, a

(* vmp_wire_pte() allocates a page table or leaves the contents alone.     *)
LEMMA WireTableMoves ==
  ASSUME NEW s \in VmStates, NEW dir \in Pages, NEW i \in Idx, NEW use \in TableUses,
         WireTable(s, dir, i, use).panic = NoPanic
  PROVE  \/ Tidied(s, WireTable(s, dir, i, use), NoPage)
         \/ /\ CanAlloc(s) /\ PageAlloc(s, use).panic = NoPanic
            /\ Renewed(s, WireTable(s, dir, i, use), AllocatedPage(s))
<1> DEFINE q == s.table[dir][i].page
<1>1. q \in Pages /\ use \in PageUse
  BY TablePart DEF TableUses, PageUse
<1> HIDE DEF q
<1>2. Still(s, NonswapPteCreated(s, q, TRUE))
  <2>1. TRUE \in BOOLEAN
    OBVIOUS
  <2> QED
    BY <1>1, <2>1, NonswapPteCreatedKept
<1>3. Still(s, EnterTable(PageRetain(PageRetain(s, q), q), dir, i, q, FALSE))
  <2> DEFINE a == PageRetain(s, q)
             b == PageRetain(a, q)
             c == EnterTable(b, dir, i, q, FALSE)
  <2>1. a \in VmStates /\ Still(s, a)
    BY <1>1, PageRetainType, PageRetainKept
  <2> HIDE DEF a
  <2>2. b \in VmStates /\ Still(a, b)
    BY <1>1, <2>1, PageRetainType, PageRetainKept
  <2> HIDE DEF b
  <2>3. Still(b, c)
    <3>1. FALSE \in BOOLEAN
      OBVIOUS
    <3> QED
      BY <1>1, <2>2, <3>1, EnterTableKept
  <2> HIDE DEF c
  <2>4. Still(s, c)
    BY <2>1, <2>2, <2>3, StillThen
  <2> QED
    BY <2>4 DEF a, b, c
<1>4. NewTable(s, dir, i, use).panic = NoPanic =>
        /\ CanAlloc(s) /\ PageAlloc(s, use).panic = NoPanic
        /\ Renewed(s, NewTable(s, dir, i, use), AllocatedPage(s))
  BY NewTableRenewed
<1>5. /\ Kfatal(s, "tables.c:203").panic # NoPanic
      /\ Kfatal(s, "tables.c:216").panic # NoPanic
  BY KfatalPassed DEF NoPanic
<1> QED
  BY <1>2, <1>3, <1>4, <1>5 DEF WireTable, q, Still

(* A page that is allocated is not the one the page writer is writing.     *)
LEMMA FreshPage ==
  ASSUME MapInv, vm.panic = NoPanic, CanAlloc(vm), NEW use \in TableUses \cup {"AnonPrivate"},
         PageAlloc(vm, use).panic = NoPanic
  PROVE  AllocatedPage(vm) \in Pages \ {wr.page}
<1> DEFINE p == AllocatedPage(vm)
<1>1. /\ vm \in VmStates /\ wr \in WriterLocals /\ Placed(vm, NoPage) /\ Owing(vm, flt, wr)
      /\ WiredOf(flt) \in Ledger /\ HeldOf(wr) \in Ledger
      /\ Maps(vm, Home(vm), NoPage, BusyOf(flt), WiredOf(flt), WiredOf(flt), HeldOf(wr))
  BY DaemonFacts
<1>2. \A q \in Pages : HeldOf(wr)[q] >= 0
  BY <1>1, HeldType
<1>3. p \in Pages /\ vm.page[p].refcnt = 0
  BY <1>1, <1>2, PageAllocMaps
<1> HIDE DEF p
<1>4. HeldOf(wr)[p] = 0
  BY <1>1, <1>3, HeldRefd
<1>5. Cardinality({i \in 1 .. Len(wr.iops) : wr.iops[i] = p}) \in Nat
  BY <1>1, PacketsFinite
<1>6. wr.page # p
  BY <1>3, <1>4, <1>5 DEF HeldOf
<1> QED
  BY <1>3, <1>6 DEF p

(* What do_fault() does at the leaf PTE.                                   *)
LEMMA HandledBacked ==
  ASSUME MapInv, CleanBacked, NEW f \in Faulters, NEW s, NEW x, Handled(f, s, x),
         s.panic = NoPanic => Moves(vm, s, wr)
  PROVE  AllBacked(vm', disk', pf'.free_slots, wr')
<1>1. vm \in VmStates
  BY DaemonFacts
<1>2. Commit(s, [flt EXCEPT ![f] = x], wr, pf) /\ disk' = disk
  BY DEF Handled, CommitFault
<1> QED
  BY <1>1, <1>2, CommitBacked

(* ... when it is valid or busy, or no page can be had.                    *)
LEMMA ValidLeafBacked ==
  ASSUME MapInv, CleanBacked, NEW f \in Faulters,
         MakeWriteable(f) \/ ValidFault(f) \/ AllocFails(f) \/ BusyFault(f)
  PROVE  AllBacked(vm', disk', pf'.free_slots, wr')
<1>1. vm.panic = NoPanic /\ pc[f] = "fault"
  BY DEF MakeWriteable, ValidFault, AllocFails, BusyFault, FaultsOn
<1>2. vm \in VmStates
  BY DaemonFacts
<1>3. CASE MakeWriteable(f)
  <2> DEFINE a == FaultPteAddr(f)
             x == HwPte(FaultPte(f).page, TRUE)
             s == SetPte(vm, a, x)
  <2>1. a \in PteAddr
    BY <1>1, LeafMap
  <2>2. x.kind = "Valid" /\ x.writeable
    BY DEF HwPte, ZeroPte
  <2>3. Handled(f, s, Result(f, "ok"))
    BY <1>3 DEF MakeWriteable
  <2> HIDE DEF a, x
  <2>4. Moves(vm, s, wr)
    BY <1>2, <2>1, <2>2, SetPteStill DEF Still, Moves
  <2> HIDE DEF s
  <2> QED
    BY <2>3, <2>4, HandledBacked
<1>4. CASE ValidFault(f)
  <2>1. Moves(vm, vm, wr)
    BY StillSelf DEF Still, Moves
  <2>2. Handled(f, vm, Result(f, "ok"))
    BY <1>4 DEF ValidFault
  <2> QED
    BY <2>1, <2>2, HandledBacked
<1>5. CASE AllocFails(f)
  <2> DEFINE s == PageAlloc(vm, "AnonPrivate")
  <2>1. s = CheckShortage(vm)
    BY <1>1, <1>5 DEF AllocFails, PageAlloc, Then
  <2>2. /\ CheckShortage(vm).page = vm.page /\ CheckShortage(vm).table = vm.table
        /\ CheckShortage(vm).data = vm.data /\ CheckShortage(vm).panic = vm.panic
    BY <1>2 DEF CheckShortage, VmStates
  <2>3. Handled(f, s, Result(f, "again"))
    BY <1>5 DEF AllocFails
  <2> HIDE DEF s
  <2>4. Moves(vm, s, wr)
    BY <2>1, <2>2, StillRest DEF Still, Moves
  <2> QED
    BY <2>3, <2>4, HandledBacked
<1>6. CASE BusyFault(f)
  <2> DEFINE s == Kfatal(vm, "fault.c:170")
  <2>1. s.panic # NoPanic
    BY <1>2, KfatalPassed DEF NoPanic
  <2>2. Handled(f, s, Result(f, "ok"))
    BY <1>6 DEF BusyFault
  <2> HIDE DEF s
  <2> QED
    BY <2>1, <2>2, HandledBacked
<1> QED
  BY <1>3, <1>4, <1>5, <1>6

(* ... when it is zero or in transition.                                   *)
LEMMA FillLeafBacked ==
  ASSUME MapInv, CleanBacked, NEW f \in Faulters, DemandZero(f) \/ TransFault(f)
  PROVE  AllBacked(vm', disk', pf'.free_slots, wr')
<1> DEFINE a == FaultPteAddr(f)
           q == FaultPte(f).page
           k == LeafKey(flt[f].va)
           w == flt[f].write
<1>1. vm.panic = NoPanic /\ pc[f] = "fault"
  BY DEF DemandZero, TransFault, FaultsOn
<1>2. vm \in VmStates
  BY DaemonFacts
<1>3. /\ a \in PteAddr /\ Entry(vm, a) = FaultPte(f) /\ q \in Pages /\ k \in WsKey
      /\ w \in BOOLEAN /\ vm.page[a[1]].use = "PML1" /\ a[1] = flt[f].pages[1]
  BY <1>1, LeafMap
<1>4. CASE DemandZero(f)
  <2> DEFINE s == ZeroFill(vm, a, k, w)
  <2>1. CanAlloc(vm)
    BY <1>4 DEF DemandZero
  <2>2. Handled(f, s, Result(f, "ok"))
    BY <1>3, <1>4 DEF DemandZero, ZeroFill
  <2> HIDE DEF a, k, w
  <2>3. ASSUME s.panic = NoPanic PROVE Moves(vm, s, wr)
    <3>1. PageAlloc(vm, "AnonPrivate").panic = NoPanic /\ Renewed(vm, s, AllocatedPage(vm))
      BY <1>2, <1>3, <2>1, <2>3, ZeroFillRenewed
    <3> HIDE DEF s
    <3>2. AllocatedPage(vm) \in Pages \ {wr.page}
      BY <1>1, <2>1, <3>1, FreshPage
    <3> QED
      BY <3>1, <3>2 DEF Moves
  <2> HIDE DEF s
  <2> QED
    BY <2>2, <2>3, HandledBacked
<1>5. CASE TransFault(f)
  <2> DEFINE s == Reclaim(vm, a, k, q)
  <2>1. Entry(vm, a).kind = "Trans" /\ Entry(vm, a).page = q
    BY <1>3, <1>5 DEF TransFault, FaultsOn
  <2>2. Handled(f, s, Result(f, "ok"))
    BY <1>5 DEF TransFault, Reclaim
  <2> HIDE DEF a, k, q
  <2>3. s.panic = NoPanic => Moves(vm, s, wr)
    BY <1>2, <1>3, <2>1, ReclaimTidied DEF Moves
  <2> HIDE DEF s
  <2> QED
    BY <2>2, <2>3, HandledBacked
<1> QED
  BY <1>4, <1>5

(* ... when it names a slot, which no PTE of a page does.                  *)
LEMMA SwapFaultBacked ==
  ASSUME MapInv, CleanBacked, NEW f \in Faulters, SwapFault(f)
  PROVE  AllBacked(vm', disk', pf'.free_slots, wr')
<1> DEFINE a == FaultPteAddr(f)
           k == LeafKey(flt[f].va)
           s == StartRead(vm, a, k)
           x == [Result(f, "read") EXCEPT !.page = AllocatedPage(vm), !.pte = a,
                                          !.slot = FaultPte(f).slot]
<1>1. vm.panic = NoPanic /\ pc[f] = "fault" /\ CanAlloc(vm) /\ FaultPte(f).kind = "Swap"
  BY DEF SwapFault, FaultsOn
<1>2. /\ vm \in VmStates
      /\ Maps(vm, Home(vm), NoPage, BusyOf(flt), WiredOf(flt), WiredOf(flt), HeldOf(wr))
  BY DaemonFacts
<1>3. /\ a \in PteAddr /\ Entry(vm, a).kind = "Swap" /\ k \in WsKey /\ a[1] = flt[f].pages[1]
  BY <1>1, LeafMap
<1>4. Handled(f, s, x)
  BY <1>3 DEF SwapFault, StartRead
<1> HIDE DEF a, k, x
<1>5. \A q \in Pages : IsAnon(vm, q) => vm.page[q].referent # a
  <2> SUFFICES ASSUME NEW q \in Pages, IsAnon(vm, q), vm.page[q].referent = a PROVE FALSE
    OBVIOUS
  <2>1. /\ PagesLinked(vm, Home(vm), NoPage, BusyOf(flt))
        /\ BusyLinked(vm, Home(vm), NoPage, BusyOf(flt))
    BY <1>2 DEF Maps, Linked
  <2>2. q # Root
    BY <1>2, UseFacts DEF IsAnon, Maps, Linked
  <2>3. q # NoPage /\ Home(vm)[q] = a
    BY DEF NoPage, Pages, Home
  <2>4. Entry(vm, a).kind \in {"Valid", "Trans"} \/ << a, q >> \in BusyOf(flt)
    BY <2>1, <2>2, <2>3 DEF PagesLinked
  <2> QED
    BY <1>3, <2>1, <2>4 DEF BusyLinked
<1>6. ASSUME s.panic = NoPanic PROVE Moves(vm, s, wr)
  <2>1. PageAlloc(vm, "AnonPrivate").panic = NoPanic /\ Renewed(vm, s, AllocatedPage(vm))
    BY <1>1, <1>2, <1>3, <1>5, <1>6, StartReadRenewed
  <2> HIDE DEF s
  <2>2. AllocatedPage(vm) \in Pages \ {wr.page}
    BY <1>1, <2>1, FreshPage
  <2> QED
    BY <2>1, <2>2 DEF Moves
<1> HIDE DEF s
<1> QED
  BY <1>4, <1>6, HandledBacked

(* vmp_wire_pte() takes the root, and goes on a level down.                *)
LEMMA WireBacked ==
  ASSUME MapInv, CleanBacked, NEW f \in Faulters, WireRoot(f) \/ WireLevel(f)
  PROVE  AllBacked(vm', disk', pf'.free_slots, wr')
<1>1. vm.panic = NoPanic /\ vm \in VmStates /\ TypeInv /\ Owing(vm, flt, wr)
  <2>1. vm.panic = NoPanic
    <3>1. CASE WireRoot(f)
      BY <3>1 DEF WireRoot, Goto
    <3>2. CASE WireLevel(f)
      BY <3>2, ZenonT(60) DEF WireLevel, Goto
    <3> QED
      BY <3>1, <3>2
  <2> QED
    BY <2>1, DaemonFacts
<1>2. CASE WireRoot(f)
  <2> DEFINE s == NonswapPteCreated(vm, Root, TRUE)
  <2>1. PICK x : Commit(s, x, wr, pf)
    BY <1>2 DEF WireRoot, CommitFault
  <2>2. disk' = disk
    BY <1>2 DEF WireRoot
  <2>3. Moves(vm, s, wr)
    BY <1>1, ConstantTypes, NonswapPteCreatedKept DEF Still, Moves
  <2> HIDE DEF s
  <2> QED
    BY <1>1, <2>1, <2>2, <2>3, CommitBacked
<1>3. CASE WireLevel(f)
  <2> DEFINE l   == flt[f].level
             dir == flt[f].pages[l]
             i   == flt[f].va[l]
             use == TableUse[l - 1]
             s   == WireTable(vm, dir, i, use)
  <2>1. pc[f] = "wire" /\ l \in 2 .. Levels /\ disk' = disk
    <3>1. pc[f] = "wire"
      BY <1>3, ZenonT(60) DEF WireLevel, Goto
    <3> QED
      BY <1>3, <3>1, Zenon DEF WireLevel
  <2>2. PICK x : Commit(s, x, wr, pf)
    BY <1>3, Zenon DEF WireLevel, CommitFault
  <2>3. LocalOK(pc[f], flt[f])
    BY <1>1, FaulterFacts
  <2>4. l \in 1 .. Levels /\ l - 1 \in 1 .. Levels /\ l >= l
    <3>1. l \in 2 .. Levels /\ Levels \in 2 .. 4
      BY <2>1, VmAssumption, ZenonT(60)
    <3> HIDE DEF l
    <3> QED
      BY ONLY <3>1, SMTT(60)
  <2>5. dir \in Pages /\ i \in Idx /\ use \in TableUses
    <3>1. i \in Idx
      BY <1>1, <2>4, FaulterFacts, Zenon
    <3> QED
      BY <2>1, <2>3, <2>4, <3>1, LevelUse, Zenon DEF LocalOK
  <2> HIDE DEF l, dir, i, use
  <2>6. ASSUME s.panic = NoPanic PROVE Moves(vm, s, wr)
    <3>1. \/ Tidied(vm, s, NoPage)
          \/ /\ CanAlloc(vm) /\ PageAlloc(vm, use).panic = NoPanic
             /\ Renewed(vm, s, AllocatedPage(vm))
      BY <1>1, <2>5, <2>6, WireTableMoves
    <3> HIDE DEF s
    <3>2. CanAlloc(vm) /\ PageAlloc(vm, use).panic = NoPanic =>
            AllocatedPage(vm) \in Pages \ {wr.page}
      BY <1>1, <2>5, FreshPage
    <3> QED
      BY <3>1, <3>2 DEF Moves
  <2> HIDE DEF s
  <2> QED
    BY <1>1, <2>1, <2>2, <2>6, CommitBacked
<1> QED
  BY <1>2, <1>3

(* vmp_pte_wire_state_release() and the end of a read.                     *)
LEMMA UnwireBacked ==
  ASSUME MapInv, CleanBacked, NEW f \in Faulters, Unwire(f) \/ FinishRead(f)
  PROVE  AllBacked(vm', disk', pf'.free_slots, wr')
<1>1. vm.panic = NoPanic /\ vm \in VmStates /\ TypeInv
  <2>1. vm.panic = NoPanic
    BY DEF Unwire, FinishRead, Goto
  <2> QED
    BY <2>1, DaemonFacts
<1>2. LocalOK(pc[f], flt[f]) /\ flt[f] \in FaultLocals /\ flt[f].va \in VAddr
  BY <1>1, FaulterFacts
<1>3. CASE Unwire(f)
  <2> DEFINE l == flt[f].level
             p == flt[f].pages[l]
             s == PteDeleted(vm, p)
  <2>1. pc[f] = "unwire" /\ disk' = disk
    BY <1>3 DEF Unwire, Goto
  <2>2. PICK x : Commit(s, x, wr, pf)
    BY <1>3 DEF Unwire, CommitFault
  <2>3. l \in 1 .. Levels /\ l >= l
    BY <1>2, <2>1, VmAssumption, SMTT(60) DEF LocalOK
  <2>4. p \in Pages
    BY <1>2, <2>1, <2>3 DEF LocalOK
  <2> HIDE DEF p
  <2>5. Moves(vm, s, wr)
    BY <1>1, <2>4, PteDeletedKept DEF Still, Moves
  <2> HIDE DEF s
  <2> QED
    BY <1>1, <2>1, <2>2, <2>5, CommitBacked
<1>4. CASE FinishRead(f)
  <2> DEFINE a == flt[f].pte
             p == flt[f].page
             k == LeafKey(flt[f].va)
             s == WslUnlockEntry(SetPte(vm, a, HwPte(p, FALSE)), k)
  <2>1. pc[f] = "finish" /\ disk' = disk
    BY <1>4 DEF FinishRead, Goto
  <2>2. PICK x : Commit(s, x, wr, pf)
    BY <1>4 DEF FinishRead, CommitFault
  <2>3. p \in Pages
    BY <1>2, <2>1 DEF LocalOK
  <2>4. flt \in [Faulters -> FaultLocals] /\ wr \in WriterLocals /\ Owing(vm, flt, wr)
    BY DaemonFacts
  <2>5. a \in PteAddr /\ Entry(vm, a).kind = "Busy"
    BY <1>1, <2>3, <2>4, ReadRefd
  <2>6. k \in WsKey
    BY <1>1, FaulterFacts
  <2> HIDE DEF a, p, k
  <2>7. Tidied(vm, s, NoPage)
    BY <1>1, <2>3, <2>5, <2>6, FinishTidied
  <2> HIDE DEF s
  <2> QED
    BY <1>1, <2>1, <2>2, <2>7, CommitBacked DEF Moves
<1> QED
  BY <1>3, <1>4

(* A store goes through a writeable PTE, whose page is not clean; a read   *)
(* brings in what is in the slot of its page.                              *)
LEMMA DataBacked ==
  ASSUME MapInv, CleanBacked, NEW f \in Faulters, Translate(f) \/ SendRead(f)
  PROVE  AllBacked(vm', disk', pf'.free_slots, wr')
<1>1. vm.panic = NoPanic /\ pf' = pf /\ disk' = disk /\ wr' = wr
  <2>1. CASE Translate(f)
    BY <2>1, Zenon DEF Translate, Goto
  <2>2. CASE SendRead(f)
    BY <2>2, Zenon DEF SendRead, Goto
  <2> QED
    BY <2>1, <2>2
<1>2. /\ vm \in VmStates /\ TypeInv
      /\ Maps(vm, Home(vm), NoPage, BusyOf(flt), WiredOf(flt), WiredOf(flt), HeldOf(wr))
  BY DaemonFacts
<1>3. /\ flt[f] \in FaultLocals /\ LocalOK(pc[f], flt[f])
      /\ \A l \in 1 .. Levels : flt[f].va[l] \in Idx
  BY <1>1, <1>2, FaulterFacts
<1>4. vm.data \in [Pages -> Content]
  BY <1>2 DEF VmStates, Contents
<1>5. ASSUME NEW q \in Pages, NEW d, vm' = [vm EXCEPT !.data[q] = d],
             Clean(vm, q) => Backed([vm EXCEPT !.data[q] = d], disk, pf.free_slots, q)
      PROVE  AllBacked(vm', disk', pf'.free_slots, wr')
  <2> DEFINE t == [vm EXCEPT !.data[q] = d]
  <2>1. /\ t.page = vm.page /\ t.table = vm.table
        /\ \A p \in Pages \ {q} : t.data[p] = vm.data[p]
    BY <1>2, <1>4 DEF VmStates
  <2> HIDE DEF t
  <2>2. \A p \in Pages : Clean(t, p) => Clean(vm, p)
    BY ONLY <2>1, Zenon DEF Clean, IsAnon, Entry
  <2>3. \A p \in Pages \ {q} :
          Backed(vm, disk, pf.free_slots, p) => Backed(t, disk, pf.free_slots, p)
    BY ONLY <2>1 DEF Backed
  <2>4. Clean(vm, q) => Backed(t, disk, pf.free_slots, q)
    BY <1>5 DEF t
  <2>5. AllBacked(t, disk, pf.free_slots, wr)
    BY ONLY CleanBacked, <2>1, <2>2, <2>3, <2>4 DEF CleanBacked, AllBacked
  <2> QED
    BY <1>1, <1>5, <2>5 DEF t
<1>6. ASSUME vm' = vm PROVE AllBacked(vm', disk', pf'.free_slots, wr')
  BY <1>1, <1>6, RestBacked
<1>7. CASE Translate(f)
  <2> DEFINE va == flt[f].va
             a  == << LeafTable(va), va[1] >>
             q  == vm.table[LeafTable(va)][va[1]].page
  <2>1. CASE flt[f].write /\ MmuHit(va, TRUE)
    <3>1. PICK d \in Data : vm' = [vm EXCEPT !.data[q] = d]
      BY <1>7, <2>1, Zenon DEF Translate
    <3>2. LeafTable(va) \in Pages /\ va[1] \in Idx
      BY <1>3, <2>1, VmAssumption DEF MmuHit
    <3>3. a \in PteAddr /\ Entry(vm, a) = vm.table[LeafTable(va)][va[1]]
      BY <3>2 DEF PteAddr, Entry
    <3>4. Entry(vm, a).kind = "Valid" /\ Entry(vm, a).writeable /\ Entry(vm, a).page = q
      BY <2>1, <3>3 DEF MmuHit
    <3> HIDE DEF a, q
    <3>5. q \in Pages
      BY <1>2, <3>3, <3>4, EntryPart, Zenon
    <3>6. vm.page[q].referent = a
      BY <1>2, <3>3, <3>4, <3>5 DEF Maps, Linked, PtesLinked, Home
    <3>7. ~Clean(vm, q)
      BY <3>4, <3>6 DEF Clean
    <3> QED
      BY <1>5, <3>1, <3>5, <3>7
  <2>2. CASE ~(flt[f].write /\ MmuHit(va, TRUE))
    <3>1. vm' = vm
      BY <1>7, <2>2, Zenon DEF Translate
    <3> QED
      BY <1>6, <3>1
  <2> QED
    BY <2>1, <2>2
<1>8. CASE SendRead(f)
  <2> DEFINE q    == flt[f].page
             slot == vm.page[q].drumslot
  <2>1. q \in Pages
    BY <1>3, <1>8 DEF SendRead, Goto, LocalOK
  <2>2. CASE slot \in Slots
    <3>1. vm' = [vm EXCEPT !.data[q] = disk[slot]]
      BY <1>8, <2>2 DEF SendRead
    <3> HIDE DEF q
    <3>2. Backed([vm EXCEPT !.data[q] = disk[slot]], disk, pf.free_slots, q)
      BY <1>2, <1>4, <2>1, <2>2 DEF Backed, VmStates
    <3> QED
      BY <1>5, <2>1, <3>1, <3>2
  <2>3. CASE slot \notin Slots
    BY <1>6, <1>8, <2>3 DEF SendRead
  <2> QED
    BY <2>2, <2>3
<1> QED
  BY <1>7, <1>8

(* The other steps of the threads touch no page.                           *)
LEMMA PassBacked ==
  ASSUME CleanBacked, NEW f \in Faulters,
         \/ AccessHit(f) \/ AccessFault(f) \/ LockVad(f) \/ LockWs(f) \/ Awake(f)
         \/ RelockVad(f) \/ RelockWs(f)
         \/ \E va \in VAddrs, write \in Writes : Pick(f, va, write)
  PROVE  AllBacked(vm', disk', pf'.free_slots, wr')
<1>1. vm' = vm /\ pf' = pf /\ disk' = disk /\ wr' = wr
  BY Zenon DEF AccessHit, AccessFault, LockVad, LockWs, Awake, RelockVad, RelockWs, Pick
<1> QED
  BY <1>1, RestBacked

-----------------------------------------------------------------------------
(* cluster_anon() gives a page a slot unless none is free.                 *)
LEMMA SlotGiven ==
  ASSUME NEW f \in PagefileStates, FreeSlotsExact(f), NEW old, old \in f.bitmap \cup {NoSlot}
  PROVE  LET isNew == old = NoSlot
             slot  == IF isNew THEN PagefileSlot(f) ELSE old
             g     == IF isNew THEN PagefileAlloc(f) ELSE f
         IN  /\ g.free_slots \in Int /\ f.free_slots \in Int /\ g.free_slots <= f.free_slots
             /\ slot \notin Slots => ~(g.free_slots > 0)
<1>1. f.free_slots \in Int /\ f.bitmap \subseteq Slots
  BY DEF PagefileStates
<1>2. CASE old # NoSlot
  BY <1>1, <1>2
<1>3. CASE old = NoSlot /\ HasSlot(f)
  <2>1. PagefileSlot(f) \in Slots
    BY <1>3, PagefileSlotFree
  <2>2. PagefileAlloc(f).free_slots = f.free_slots - 1
    BY <1>3 DEF PagefileAlloc
  <2> QED
    BY <1>1, <1>3, <2>1, <2>2
<1>4. CASE old = NoSlot /\ ~HasSlot(f)
  <2>1. PagefileSlot(f) = -1 /\ PagefileAlloc(f) = f
    BY <1>4 DEF PagefileSlot, PagefileAlloc
  <2>2. f.bitmap = Slots
    BY <2>1, AllocFailsOnlyWhenFull
  <2>3. Cardinality(Slots) = NSlots
    <3>1. 0 \in Int /\ NSlots - 1 \in Int /\ NSlots \in Nat \ {0}
      BY PagefileAssumption
    <3>2. Cardinality(0 .. NSlots - 1) = IF 0 > NSlots - 1 THEN 0 ELSE (NSlots - 1) - 0 + 1
      BY <3>1, FS_Interval
    <3> QED
      BY <3>1, <3>2 DEF Slots
  <2>4. f.free_slots = 0
    BY <2>2, <2>3, PagefileAssumption DEF FreeSlotsExact
  <2> QED
    BY <1>1, <1>4, <2>1, <2>4
<1> QED
  BY <1>2, <1>3, <1>4

(* cluster_anon() on a page: no other becomes clean.                       *)
LEMMA CleanPageTidied ==
  ASSUME NEW s \in VmStates, NEW p \in Pages, NEW slot, CleanPage(s, p, slot).panic = NoPanic
  PROVE  LET t == CleanPage(s, p, slot)
         IN  /\ t.page[p].drumslot = slot /\ \A q \in Pages : t.data[q] = s.data[q]
             /\ \A q \in Pages \ {p} : /\ t.page[q].drumslot = s.page[q].drumslot
                                       /\ Clean(t, q) => Clean(s, q)
<1> DEFINE r == PageRetain(s, p)
           t == [r EXCEPT !.page[p].drumslot = slot, !.page[p].dirty = FALSE]
           ok == r.page[p].use \in {"AnonPrivate", "PML1", "PML2", "PML3", "PML4"}
<1>1. r \in VmStates /\ Tidied(s, r, NoPage)
  BY PageRetainType, PageRetainKept DEF Still
<1>2. CleanPage(s, p, slot) = t
  <2>1. CleanPage(s, p, slot) = Kassert(r, ok, "pgwriter.c:164", t)
    BY DEF CleanPage
  <2> HIDE DEF r, t, ok
  <2>2. [r EXCEPT !.panic = "pgwriter.c:164"].panic # NoPanic
    BY <1>1 DEF VmStates, NoPanic
  <2> QED
    BY <2>1, <2>2 DEF Kassert, Then
<1> HIDE DEF r
<1>3. /\ t.page[p].drumslot = slot /\ t.data = r.data /\ t.table = r.table
      /\ \A q \in Pages \ {p} : t.page[q] = r.page[q]
  BY <1>1, SMTT(60) DEF VmStates, PageDb, PageRec
<1> HIDE DEF t
<1>4. ASSUME NEW q \in Pages \ {p}
      PROVE  t.page[q].drumslot = s.page[q].drumslot /\ (Clean(t, q) => Clean(s, q))
  <2>1. t.page[q] = r.page[q] /\ r.page[q].drumslot = s.page[q].drumslot
    BY <1>1, <1>3 DEF Tidied
  <2>2. Clean(t, q) => Clean(r, q)
    BY ONLY <1>3, <2>1, Zenon DEF Clean, IsAnon, Entry
  <2>3. Clean(r, q) => Clean(s, q)
    BY <1>1 DEF Tidied, NoPage, Pages
  <2> QED
    BY <2>1, <2>2, <2>3
<1>5. \A q \in Pages : t.data[q] = s.data[q]
  BY <1>1, <1>3 DEF Tidied
<1> QED
  BY <1>2, <1>3, <1>4, <1>5

(* The page writer decides on a page, ...                                  *)
LEMMA CollectBacked ==
  ASSUME MapInv, SlotCountExact, Owned(vm, pf.bitmap), CleanBacked, WriterCollect
  PROVE  AllBacked(vm', disk', pf'.free_slots, wr')
<1> DEFINE p     == Head(vm.modified)
           isNew == vm.page[p].drumslot = NoSlot
           slot  == IF isNew THEN PagefileSlot(pf) ELSE vm.page[p].drumslot
           pf1   == IF isNew THEN PagefileAlloc(pf) ELSE pf
           w     == [wr EXCEPT !.page = p, !.slot = slot]
           s     == CleanPage(vm, p, slot)
<1>1. vm \in VmStates /\ pf \in PagefileStates /\ wr \in WriterLocals /\ Placed(vm, NoPage)
  BY DaemonFacts, Zenon DEF TypeInv, TypeOK
<1>2. /\ Commit(s, flt, w, pf1) /\ disk' = disk /\ vm.modified # << >>
      /\ pc["pgwriter"] = "collect"
  BY DEF WriterCollect, Goto
<1>3. wr.page = NoPage
  BY <1>2 DEF MapInv, LocalMaps
<1>4. p \in Pages
  BY <1>1, <1>2, Parts, SMTT(60) DEF Queue
<1> HIDE DEF p
<1>5. /\ pf1.free_slots \in Int /\ pf.free_slots \in Int /\ pf1.free_slots <= pf.free_slots
      /\ slot \notin Slots => ~(pf1.free_slots > 0)
  <2>1. vm.page[p].drumslot \in pf.bitmap \cup {NoSlot}
    BY <1>4 DEF Owned, PageSlot
  <2>2. FreeSlotsExact(pf)
    BY DEF FreeSlotsExact, SlotCountExact
  <2> QED
    BY <1>1, <2>1, <2>2, SlotGiven
<1>6. w.page = p /\ w.slot = slot
  BY <1>1 DEF WriterLocals
<1> HIDE DEF slot, pf1, w
<1>7. CASE s.panic # NoPanic
  <2>1. /\ vm'.page = vm.page /\ vm'.table = vm.table /\ vm'.data = vm.data
        /\ pf' = pf /\ wr' = wr
    BY <1>1, <1>2, <1>7 DEF Commit, VmStates
  <2> QED
    BY <1>2, <2>1, RestBacked
<1>8. CASE s.panic = NoPanic
  <2>1. /\ s.page[p].drumslot = slot /\ \A q \in Pages : s.data[q] = vm.data[q]
        /\ \A q \in Pages \ {p} : /\ s.page[q].drumslot = vm.page[q].drumslot
                                  /\ Clean(s, q) => Clean(vm, q)
    BY <1>1, <1>4, <1>8, CleanPageTidied
  <2>2. vm' = s /\ pf' = pf1 /\ wr' = w
    BY <1>2, <1>8 DEF Commit
  <2> HIDE DEF s
  <2>3. ASSUME NEW q \in Pages \ {p}, Clean(s, q) PROVE Backed(s, disk, pf1.free_slots, q)
    <3>1. Backed(vm, disk, pf.free_slots, q)
      BY <1>3, <2>1, <2>3 DEF CleanBacked, AllBacked, NoPage, Pages
    <3> QED
      BY <1>5, <2>1, <3>1 DEF Backed
  <2>4. AllBacked(s, disk, pf1.free_slots, w)
    BY <1>4, <1>5, <1>6, <2>1, <2>3 DEF AllBacked
  <2> QED
    BY <1>2, <2>2, <2>4
<1> QED
  BY <1>7, <1>8

(* ... sends it to its slot, which no other page has, ...                  *)
LEMMA SendBacked ==
  ASSUME MapInv, Owned(vm, pf.bitmap), CleanBacked, WriterSend
  PROVE  AllBacked(vm', disk', pf'.free_slots, wr')
<1> DEFINE p    == wr.page
           slot == wr.slot
<1>1. vm \in VmStates /\ disk \in [Slots -> Content] /\ TypeInv
  BY DaemonFacts DEF TypeInv, TypeOK
<1>2. /\ vm' = vm /\ pf' = pf /\ vm.panic = NoPanic /\ pc["pgwriter"] = "send"
      /\ disk' = IF slot \in Slots THEN [disk EXCEPT ![slot] = vm.data[p]] ELSE disk
      /\ wr'.page = NoPage
  BY DEF WriterSend, Goto
<1>3. p \in Pages
  BY <1>1, <1>2 DEF TypeInv, LocalsOK
<1>4. vm.page[p].drumslot = slot /\ (slot \notin Slots => ~(pf.free_slots > 0))
  BY <1>3 DEF CleanBacked, AllBacked
<1>5. /\ slot \in Slots => disk'[slot] = vm.data[p]
      /\ \A i \in Slots \ {slot} : disk'[i] = disk[i]
  BY <1>1, <1>2
<1> HIDE DEF p, slot
<1>6. Backed(vm, disk', pf.free_slots, p)
  BY <1>4, <1>5 DEF Backed
<1>7. ASSUME NEW q \in Pages \ {p}, Clean(vm, q) PROVE Backed(vm, disk', pf.free_slots, q)
  <2>1. Backed(vm, disk, pf.free_slots, q)
    BY <1>7 DEF CleanBacked, AllBacked, p
  <2>2. vm.page[q].drumslot \in Slots => vm.page[q].drumslot # slot
    BY <1>3, <1>4, <1>7, PagefileAssumption DEF Owned, PageSlot, Slots, NoSlot
  <2> QED
    BY <1>5, <2>1, <2>2 DEF Backed
<1>8. NoPage \notin Pages
  BY DEF NoPage, Pages
<1> QED
  BY <1>2, <1>6, <1>7, <1>8 DEF AllBacked

(* ... and releases it.  When it has nothing to do it touches no page.     *)
LEMMA WriterBacked ==
  ASSUME MapInv, SlotCountExact, Owned(vm, pf.bitmap), CleanBacked, WriterStep
  PROVE  AllBacked(vm', disk', pf'.free_slots, wr')
<1>1. vm \in VmStates /\ wr \in WriterLocals
  BY DaemonFacts
<1>2. CASE WriterIdle
  <2>1. /\ vm' = [vm EXCEPT !.ev.pgwriter = FALSE]
        /\ pf' = pf /\ disk' = disk /\ wr' = wr
    BY <1>2 DEF WriterIdle
  <2>2. vm'.page = vm.page /\ vm'.table = vm.table /\ vm'.data = vm.data
    BY <1>1, <2>1 DEF VmStates
  <2> QED
    BY <2>1, <2>2, RestBacked
<1>3. CASE WriterRelease
  <2> DEFINE p == Head(wr.iops)
             s == PageRelease(vm, p)
             w == [wr EXCEPT !.iops = Tail(@)]
  <2>1. wr.iops # << >> /\ Commit(s, flt, w, pf) /\ disk' = disk
    BY <1>3 DEF WriterRelease
  <2>2. w.page = wr.page /\ w.slot = wr.slot
    BY <1>1 DEF WriterLocals
  <2>3. p \in Pages
    <3>1. wr.iops \in Seq(Pages)
      BY <1>1 DEF WriterLocals
    <3> QED
      BY <2>1, <3>1, SMTT(60)
  <2> HIDE DEF p, w
  <2>4. Tidied(vm, s, NoPage)
    BY <1>1, <2>3, PageReleaseKept DEF Still
  <2> HIDE DEF s
  <2> QED
    BY <1>1, <2>1, <2>2, <2>4, CommitBacked DEF Moves
<1> QED
  BY <1>2, <1>3, CollectBacked, SendBacked DEF WriterStep

(* The steps of the balancer.                                              *)
LEMMA BalancerBacked ==
  ASSUME MapInv, CleanBacked, BalancerStep
  PROVE  AllBacked(vm', disk', pf'.free_slots, wr')
<1>1. vm \in VmStates
  BY DaemonFacts
<1>2. CASE BalancerTrim
  <2> DEFINE s == WslTrim1(vm)
  <2>1. vm.wsl.queue # << >> /\ Commit(s, flt, wr, pf) /\ disk' = disk
    BY <1>2 DEF BalancerTrim
  <2>2. Tidied(vm, s, NoPage)
    BY <1>1, <2>1, WslTrim1Kept DEF Still
  <2> HIDE DEF s
  <2> QED
    BY <1>1, <2>1, <2>2, CommitBacked DEF Moves
<1>3. CASE BalancerWake \/ BalancerUnlock \/ BalancerCheck
  <2>1. pf' = pf /\ disk' = disk /\ wr' = wr
    BY <1>3, Zenon DEF BalancerWake, BalancerUnlock, BalancerCheck
  <2>2. vm' = vm \/ vm' = [vm EXCEPT !.ev.balancer = FALSE]
    BY <1>3, Zenon DEF BalancerWake, BalancerUnlock, BalancerCheck
  <2>3. vm'.page = vm.page /\ vm'.table = vm.table /\ vm'.data = vm.data
    BY <1>1, <2>2 DEF VmStates
  <2> QED
    BY <2>1, <2>3, RestBacked
<1> QED
  BY <1>2, <1>3 DEF BalancerStep

-----------------------------------------------------------------------------
(* In the beginning no page is anonymous and nothing is being written.     *)
LEMMA InitBacked == Init => CleanBacked
<1> SUFFICES ASSUME Init PROVE CleanBacked
  OBVIOUS
<1>1. vm = VmInit /\ wr = NoWrite
  BY DEF Init
<1>2. \A p \in Pages : ~Clean(vm, p)
  <2>1. Levels \in {2, 3, 4}
    BY VmAssumption
  <2>2. TableUse[Levels] # "AnonPrivate"
    BY <2>1 DEF TableUse
  <2>3. \A p \in Pages : vm.page[p].use # "AnonPrivate"
    BY <1>1, <2>2 DEF VmInit
  <2> QED
    BY <2>3 DEF Clean, IsAnon
<1>3. wr.page \notin Pages
  BY <1>1 DEF NoWrite, NoPage, Pages
<1> QED
  BY <1>2, <1>3 DEF CleanBacked, AllBacked

(* Every step keeps the clean pages backed.                                *)
LEMMA NextBacked ==
  MapInv /\ SlotCountExact /\ Owned(vm, pf.bitmap) /\ CleanBacked /\ [Next]_vars => CleanBacked'
<1> SUFFICES ASSUME MapInv, SlotCountExact, Owned(vm, pf.bitmap), CleanBacked, [Next]_vars
             PROVE  CleanBacked'
  OBVIOUS
<1>1. AllBacked(vm', disk', pf'.free_slots, wr')
  <2>1. CASE UNCHANGED vars \/ Halted
    <3>1. vm' = vm /\ pf' = pf /\ disk' = disk /\ wr' = wr
      BY <2>1 DEF Halted, vars
    <3> QED
      BY <3>1, RestBacked
  <2>2. ASSUME NEW f \in Faulters, FaulterStep(f) PROVE AllBacked(vm', disk', pf'.free_slots, wr')
    BY <2>2, PassBacked, DataBacked, WireBacked, ValidLeafBacked, FillLeafBacked,
       SwapFaultBacked, UnwireBacked, Zenon DEF FaulterStep
  <2>3. ASSUME NEW f \in Faulters, \E va \in VAddrs, write \in Writes : Pick(f, va, write)
        PROVE  AllBacked(vm', disk', pf'.free_slots, wr')
    BY <2>3, PassBacked, Zenon
  <2>4. CASE WriterStep
    BY <2>4, WriterBacked
  <2>5. CASE BalancerStep
    BY <2>5, BalancerBacked
  <2> QED
    BY <2>1, <2>2, <2>3, <2>4, <2>5, Zenon DEF Next
<1>2. \A p \in Pages : Clean(vm, p)' => Clean(vm', p)
  <2> SUFFICES ASSUME NEW p \in Pages, Clean(vm, p)' PROVE Clean(vm', p)
    OBVIOUS
  <2>1. IsAnon(vm, p)' = IsAnon(vm', p) /\ p' = p
    BY DEF IsAnon
  <2>2. Entry(vm, vm.page[p].referent)' = Entry(vm', vm'.page[p].referent)
    BY DEF Entry
  <2> QED
    BY <2>1, <2>2 DEF Clean
<1>3. \A p \in Pages : Backed(vm', disk', pf'.free_slots, p) => Backed(vm, disk, pf.free_slots, p)'
  BY DEF Backed
<1> QED
  BY <1>1, <1>2, <1>3 DEF CleanBacked, AllBacked

(* steal_page() gives a standby page away without a look at its contents:  *)
(* what vmp_pgwriter() wrote is what the page still holds, though it may   *)
(* have been reclaimed and evicted since, because a store to it makes its  *)
(* PTE writeable and eviction then makes the page dirty again.             *)
THEOREM StandbyPagesBacked == Spec => []StandbyBacked
<1>1. MapInv /\ CleanBacked => StandbyBacked
  <2> SUFFICES ASSUME MapInv, CleanBacked, NEW p \in Elements(vm.standby)
               PROVE  LET slot == vm.page[p].drumslot
                      IN  IF slot \in Slots THEN disk[slot] = vm.data[p]
                          ELSE pf.free_slots > 0 => vm.data[p] = 0
    BY DEF StandbyBacked
  <2>1. /\ vm \in VmStates /\ wr \in WriterLocals /\ Placed(vm, NoPage) /\ Owing(vm, flt, wr)
        /\ HeldOf(wr) \in Ledger
        /\ Maps(vm, Home(vm), NoPage, BusyOf(flt), WiredOf(flt), WiredOf(flt), HeldOf(wr))
    BY DaemonFacts
  <2>2. p \in Pages /\ IsAnon(vm, p) /\ vm.page[p].refcnt = 0 /\ ~vm.page[p].dirty
    <3>1. p \in StandbySet(vm)
      BY <2>1 DEF Elements, Placed, Lists
    <3> QED
      BY <3>1 DEF StandbySet, IsAnon
  <2>3. HeldOf(wr)[p] = 0
    BY <2>1, <2>2, HeldRefd
  <2>4. p # wr.page
    <3>1. Cardinality({i \in 1 .. Len(wr.iops) : wr.iops[i] = p}) \in Nat
      BY <2>1, PacketsFinite
    <3> QED
      BY <2>2, <2>3, <3>1 DEF HeldOf
  <2> DEFINE a == vm.page[p].referent
  <2>5. Home(vm)[p] = a /\ p # NoPage /\ p # Root
    <3>1. p # Root
      BY <2>1, <2>2, UseFacts DEF IsAnon, Maps, Linked
    <3> QED
      BY <2>2, <3>1 DEF Home, NoPage, Pages
  <2>6. Entry(vm, a).kind \notin {"Valid", "Busy"}
    <3>1. Base(vm, Home(vm), NoPage, p) = 0
      <4>1. vm.page[p].refcnt = HeldOf(wr)[p] + Base(vm, Home(vm), NoPage, p)
        BY <2>1, <2>2 DEF Maps, Referenced
      <4>2. Base(vm, Home(vm), NoPage, p) \in {0, 1}
        BY <2>2 DEF Base
      <4> QED
        BY <2>2, <2>3, <4>1, <4>2
    <3> QED
      BY <2>2, <2>5, <3>1 DEF Base, Mapped
  <2>7. Entry(vm, a).kind = "Trans" /\ Entry(vm, a).page = p
    <3>1. \/ Entry(vm, a).kind \in {"Valid", "Trans"} /\ Entry(vm, a).page = p
          \/ << a, p >> \in BusyOf(flt)
      BY <2>1, <2>2, <2>5 DEF Maps, Linked, PagesLinked
    <3>2. << a, p >> \in BusyOf(flt) => Entry(vm, a).kind = "Busy"
      <4>1. a \in PteAddr
        BY <2>1, <2>2, PagePart
      <4> QED
        BY <2>1, <2>2, <4>1 DEF Maps, Linked, BusyLinked
    <3> QED
      BY <2>6, <3>1, <3>2
  <2>8. Clean(vm, p)
    BY <2>2, <2>7 DEF Clean
  <2> QED
    BY <2>2, <2>4, <2>8 DEF CleanBacked, AllBacked, Backed
<1> QED
  BY <1>1, InitMaps, NextMaps, InitType, NextType, InitOwned, NextOwned, SlotsCounted,
     InitBacked, NextBacked, PTL DEF Spec, MapInv
=============================================================================
