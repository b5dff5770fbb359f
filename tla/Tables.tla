------------------------------- MODULE Tables -------------------------------
(***************************************************************************)
(* The bookkeeping half of vm/tables.c: what happens to a page table page  *)
(* when one of its PTEs is created, becomes a swap PTE or is zeroed.  A    *)
(* wiring counts as a PTE: it is created and deleted by the same           *)
(* functions.                                                              *)
(***************************************************************************)
EXTENDS WorkingSet

IsRootTable(s, p) == s.page[p].use = TableUse[Levels]

(* Faulty: a PTE that was a swap PTE is not counted.                       *)
NonswapPteCreatedNew(s, p, isNew) ==
  LET r == PageRetain(s, p)
      t == [r EXCEPT !.page[p].nonzero = IF isNew THEN @ + 1 ELSE @,
                     !.page[p].nonswap = IF isNew THEN @ + 1 ELSE @]
  IN  Then(r,
        IF r.page[p].nonswap = 0 /\ ~IsRootTable(r, p)
        THEN WslLockEntry(t, TableKey(p)) ELSE t)

(* vmp_pagetable_page_nonswap_pte_created(): the first nonswap PTE locks   *)
(* the table into the working set.                                         *)
NonswapPteCreated(s, p, isNew) ==
  LET r == PageRetain(s, p)
      t == [r EXCEPT !.page[p].nonzero = IF isNew THEN @ + 1 ELSE @,
                     !.page[p].nonswap = @ + 1]
  IN  Then(r,
        IF r.page[p].nonswap = 0 /\ ~IsRootTable(r, p)
        THEN WslLockEntry(t, TableKey(p)) ELSE t)

(* The last nonswap PTE of a table unlocks it.                             *)
NonswapPteGone(s, p) ==
  LET t == [s EXCEPT !.page[p].nonswap = @ - 1]
  IN  Then(s,
        IF s.page[p].nonswap = 1 /\ ~IsRootTable(s, p)
        THEN WslUnlockEntry(t, TableKey(p)) ELSE t)

(* Faulty: the reference of the PTE is kept.                               *)
PteBecameSwapKept(s, p) == NonswapPteGone(s, p)

(* vmp_pagetable_page_pte_became_swap().                                   *)
PteBecameSwap(s, p) == PageRelease(NonswapPteGone(s, p), p)

-----------------------------------------------------------------------------
(* vmp_pagetable_page_pte_deleted() of a PTE that is not the last one of   *)
(* its table; every caller passes was_swap = false.                        *)
PteUncounted(s, p) ==
  PageRelease(NonswapPteGone([s EXCEPT !.page[p].nonzero = @ - 1], p), p)

LastPte(s, p) == s.page[p].nonzero = 1 /\ ~IsRootTable(s, p)

(* vmp_paddr_to_page() of the referent, whose offset in its page should    *)
(* be 0, and vmp_md_delete_table_pointers().  The directory that holds the *)
(* referent is wired by the caller and loses neither its last PTE nor its  *)
(* entry: the recursion of the code is the named site "tables.c:97".       *)
DeleteTablePointers(s, p) ==
  LET dir == s.page[p].referent[1]
      i   == s.page[p].referent[2]
  IN  Kassert(s, i = 0, "resident.c:207",
        Kassert(s, s.table[dir][i].kind \in {"Valid", "Trans"}, "tables.c:94",
          Kassert(s, ~LastPte(s, dir), "tables.c:97",
            PteUncounted([s EXCEPT !.table[dir][i] = ZeroPte], dir))))

(* Faulty: a locked entry is removed from the queue it is not on.          *)
ForgetTableLocked(s, p) == WslRemove(s, TableKey(p))

(* The working set entry of a table that is going away.                    *)
ForgetTable(s, p) ==
  CASE s.page[p].nonswap = 1 -> WslRemove(WslUnlockEntry(s, TableKey(p)), TableKey(p))
    [] s.page[p].nonswap = 0 -> WslRemove(s, TableKey(p))
    [] OTHER -> Kfatal(s, "tables.c:59")

(* vmp_pagetable_page_pte_deleted() of the last PTE: the table is freed.   *)
(* One reference was the working set's, the other that of the PTE.         *)
FreeTable(s, p) ==
  LET t == DeleteTablePointers(
             ForgetTable([s EXCEPT !.page[p].nonzero = @ - 1,
                                   !.page[p].use = "Deleted"], p), p)
      u == Then(t,
             [t EXCEPT !.page[p].nonswap = 0, !.page[p].referent = NullRef])
  IN  PageRelease(PageRelease(u, p), p)

PteDeleted(s, p) ==
  Then(s, IF LastPte(s, p) THEN FreeTable(s, p) ELSE PteUncounted(s, p))
=============================================================================
