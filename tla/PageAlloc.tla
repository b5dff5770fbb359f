----------------------------- MODULE PageAlloc -----------------------------
(***************************************************************************)
(* The page allocator of vm/resident.c.  It is called with must = false    *)
(* everywhere but in main(), which allocates the root table.               *)
(***************************************************************************)
EXTENDS Tables

(* Faulty: the drum slot of the previous owner is kept.                    *)
TakePageWithSlot(s, p, use) ==
  [s EXCEPT !.page[p] = [@ EXCEPT !.refcnt = 1, !.use = use, !.dirty = FALSE,
                                  !.referent = NullRef],
            !.stat.nactive = @ + 1,
            !.table[p] = [i \in Idx |-> ZeroPte], !.data[p] = 0]

(* The fields both ways of finding a page set, and the memset.             *)
TakePage(s, p, use) ==
  [s EXCEPT !.page[p] = [@ EXCEPT !.refcnt = 1, !.use = use, !.dirty = FALSE,
                                  !.drumslot = NoSlot, !.referent = NullRef],
            !.stat.nactive = @ + 1,
            !.table[p] = [i \in Idx |-> ZeroPte], !.data[p] = 0]

(* Faulty: the PTE of the stolen page still names the page.                *)
StealPageMapped(s, use) ==
  LET p == Head(s.standby)
      t == PteBecameSwap([s EXCEPT !.standby = Tail(@)], s.page[p].referent[1])
  IN  Then(t, [TakePage(t, p, use) EXCEPT !.stat.nstandby = @ - 1])

(* Faulty: the standby count is not lowered.                               *)
StealPageUncounted(s, use) ==
  LET p   == Head(s.standby)
      ref == s.page[p].referent
      t   == PteBecameSwap([s EXCEPT !.standby = Tail(@),
                                     !.table[ref[1]][ref[2]] = SwapPte(s.page[p].drumslot)],
                           ref[1])
  IN  Then(t, TakePage(t, p, use))

(* steal_page(): the oldest standby page; its PTE now names the slot.      *)
StealPage(s, use) ==
  LET p   == Head(s.standby)
      ref == s.page[p].referent
      t   == PteBecameSwap([s EXCEPT !.standby = Tail(@),
                                     !.table[ref[1]][ref[2]] = SwapPte(s.page[p].drumslot)],
                           ref[1])
  IN  Kassert(s, s.page[p].use = "AnonPrivate", "resident.c:78",
        Kassert(t, t.page[p].refcnt = 0 /\ t.page[p].nonzero = 0, "resident.c:81",
          [TakePage(t, p, use) EXCEPT !.stat.nstandby = @ - 1]))

TakeFree(s, use) ==
  LET p == Head(s.free)
  IN  Kassert(s, s.page[p].refcnt = 0 /\ s.page[p].nonzero = 0, "resident.c:122",
        Kassert(s, s.page[p].referent = NullRef, "resident.c:124",
          [TakePage(s, p, use) EXCEPT !.free = Tail(@), !.stat.nfree = @ - 1]))

(* vmp_page_alloc_locked(): 0 or -1, the page, and the state it leaves.    *)
CanAlloc(s) == ~PageShortage(s) /\ (s.free # << >> \/ s.standby # << >>)

AllocatedPage(s) == IF s.free # << >> THEN Head(s.free) ELSE Head(s.standby)

PageAlloc(s, use) ==
  Then(s,
    IF ~CanAlloc(s) THEN CheckShortage(s)
    ELSE IF s.free # << >> THEN TakeFree(s, use) ELSE StealPage(s, use))
=============================================================================
