----------------------------- MODULE WorkingSet -----------------------------
(***************************************************************************)
(* vm/ws.c: the working set list.  tree holds every entry, queue the ones  *)
(* that are not locked, in the order in which they will be evicted.        *)
(***************************************************************************)
EXTENDS Resident

(* vmp_wsl_lock_entry(): an entry that is locked already is on no queue,   *)
(* and TAILQ_REMOVE would follow stale links.                              *)
WslLockEntry(s, k) ==
  Kassert(s, k \in s.wsl.tree, "ws.c:145",
    Kassert(s, Contains(s.wsl.queue, k), "ws.c:146",
      [s EXCEPT !.wsl.queue = Unlink(@, k), !.wsl.nlocked = @ + 1]))

(* vmp_wsl_unlock_entry(): an entry that is queued already would be linked *)
(* twice.                                                                  *)
WslUnlockEntry(s, k) ==
  Kassert(s, k \in s.wsl.tree, "ws.c:154",
    Kassert(s, ~Contains(s.wsl.queue, k), "ws.c:155",
      [s EXCEPT !.wsl.queue = Append(@, k), !.wsl.nlocked = @ - 1]))

(* vmp_wsl_remove(): nentries keeps its value.                             *)
WslRemove(s, k) ==
  Kassert(s, k \in s.wsl.tree, "ws.c:135",
    Kassert(s, Contains(s.wsl.queue, k), "ws.c:137",
      [s EXCEPT !.wsl.tree = @ \ {k}, !.wsl.queue = Unlink(@, k)]))

(* The page table pages that translate va, level by level from the root;   *)
(* NoPage below the first PTE that is not valid.                           *)
Walk(s, va) ==
  LET w[l \in 1 .. Levels] ==
        IF l = Levels THEN Root
        ELSE IF w[l + 1] = NoPage THEN NoPage
        ELSE LET pte == s.table[w[l + 1]][va[l + 1]]
             IN  IF pte.kind = "Valid" THEN pte.page ELSE NoPage
  IN  w

(* vmp_fetch_pte(): the table that holds the leaf PTE of va, if it is      *)
(* in core.                                                                *)
FetchPte(s, va) == Walk(s, va)[1]

(* Faulty: the dirty bit is set when the page is on a queue already.       *)
WslEvictLateDirty(s, t, i) ==
  LET pte == s.table[t][i]
      r   == PageRelease([s EXCEPT !.table[t][i] = TransPte(pte.page)], pte.page)
  IN  [r EXCEPT !.page[pte.page].dirty = @ \/ pte.writeable]

(* Faulty: the writeable bit is forgotten.                                 *)
WslEvictClean(s, t, i) ==
  LET p == s.table[t][i].page
  IN  PageRelease([s EXCEPT !.table[t][i] = TransPte(p)], p)

(* wsl_evict() of an anonymous page: the PTE becomes a transition PTE and  *)
(* its writeable bit, which stands in for a dirty bit, goes to the page.   *)
WslEvict(s, t, i) ==
  LET pte == s.table[t][i]
      p   == pte.page
  IN  Kassert(s, pte.kind = "Valid", "ws.c:78",
        Kassert(s, s.page[p].use = "AnonPrivate", "ws.c:52",
          PageRelease([s EXCEPT !.page[p].dirty = @ \/ pte.writeable,
                                !.table[t][i] = TransPte(p)], p)))

(* wsl_trim_1() of a queue that is not empty.  wsl_evict() of a page table *)
(* asks for the page at the address of its referent, and ends in           *)
(* vmp_md_transition_table_pointers(), which is not implemented.           *)
WslTrim1(s) ==
  LET k == Head(s.wsl.queue)
      t == [s EXCEPT !.wsl.queue = Tail(@), !.wsl.tree = @ \ {k},
                     !.wsl.nentries = @ - 1]
  IN  IF k[1] = "table"
      THEN Kassert(s, s.page[k[2]].referent[2] = 0, "resident.c:207",
             Kfatal(s, "tables.c:87"))
      ELSE Kassert(s, FetchPte(s, k[2]) \in Pages, "ws.c:77",
             WslEvict(t, FetchPte(s, k[2]), k[2][1]))

(* wsl_try_expand() and the eviction that makes room when it returns       *)
(* false.                                                                  *)
WslMakeRoom(s) ==
  IF s.wsl.nentries # s.wsl.max THEN s
  ELSE IF Available(s) > MinAvailForExpansion
       THEN [s EXCEPT !.wsl.max = @ + WsPageExpansionCount]
       ELSE Kassert(s, s.wsl.queue # << >>, "ws.c:112", WslTrim1(s))

(* Faulty: a locked entry is queued as well.                               *)
WslAddQueued(s, k, locked) ==
  Then(s,
    [s EXCEPT !.wsl.nentries = @ + 1,
              !.wsl.nlocked = IF locked THEN @ + 1 ELSE @,
              !.wsl.queue = Append(@, k),
              !.wsl.tree = @ \cup {k}])

(* The second half of vmp_wsl_insert(), once there is room.                *)
WslAdd(s, k, locked) ==
  Then(s,
    [s EXCEPT !.wsl.nentries = @ + 1,
              !.wsl.nlocked = IF locked THEN @ + 1 ELSE @,
              !.wsl.queue = IF locked THEN @ ELSE Append(@, k),
              !.wsl.tree = @ \cup {k}])

(* vmp_wsl_insert().                                                       *)
WslInsert(s, k, locked) ==
  Kassert(s, k \notin s.wsl.tree, "ws.c:107",
    Kassert(s, s.wsl.nentries <= s.wsl.max, "ws.c:108",
      WslAdd(WslMakeRoom(s), k, locked)))
=============================================================================
