------------------------------ MODULE VmmProps ------------------------------
(***************************************************************************)
(* What the virtual memory manager must keep true.                         *)
(***************************************************************************)
EXTENDS Vmm

(* Every field stays in its range: the next_free of the paging file is a   *)
(* slot, a reference count does not go below zero, a queue holds pages,    *)
(* and a wired or busy page is a page.                                     *)
TypeOK ==
  /\ vm \in VmStates
  /\ pf \in PagefileStates
  /\ disk \in [Slots -> Content]
  /\ pc \in [Threads -> PcStates]
  /\ flt \in [Faulters -> FaultLocals]
  /\ wr \in WriterLocals
  /\ target \in Int
  /\ vad_lock \in LockStates /\ ws_lock \in LockStates /\ pfn_lock \in LockStates

-----------------------------------------------------------------------------
Anon(p)    == vm.page[p].use = "AnonPrivate"
Table(p)   == vm.page[p].use \in {"PML1", "PML2", "PML3", "PML4"}
InCore     == {"Valid", "Trans", "Busy"}
Holds(p)   == Cardinality({i \in 1 .. Len(wr.iops) : wr.iops[i] = p})
                + (IF wr.page = p THEN 1 ELSE 0)
Wirings(p) == Cardinality({fl \in Faulters \X (1 .. Levels) :
                             flt[fl[1]].pages[fl[2]] = p})
Reading(p) == {f \in Faulters : flt[f].page = p}
PteAt(ref) == vm.table[ref[1]][ref[2]]
Elements(q) == {q[i] : i \in 1 .. Len(q)}
Distinct(q) == Cardinality(Elements(q)) = Len(q)

(* A page is on exactly the queue its use, reference count and dirty bit   *)
(* name, once: what vmp_page_retain_locked() unlinks it from.              *)
QueuePlacement ==
  /\ Distinct(vm.free) /\ Distinct(vm.standby) /\ Distinct(vm.modified)
  /\ \A p \in Pages :
       LET pg == vm.page[p]
       IN  /\ (p \in Elements(vm.free)) <=> (pg.use = "Free")
           /\ (p \in Elements(vm.standby)) <=> (Anon(p) /\ pg.refcnt = 0 /\ ~pg.dirty)
           /\ (p \in Elements(vm.modified)) <=> (Anon(p) /\ pg.refcnt = 0 /\ pg.dirty)
           /\ (pg.refcnt = 0) => (Anon(p) \/ pg.use = "Free")

(* vmstat counts the queues and the active pages.                          *)
VmstatExact ==
  vm.stat = [nfree |-> Len(vm.free), nstandby |-> Len(vm.standby),
             nmodified |-> Len(vm.modified),
             nactive |-> Cardinality({p \in Pages : vm.page[p].refcnt > 0})]

(* Every reference is somebody's: the working set's for a mapped page, the *)
(* page writer's for one being cleaned, one per in-core PTE or wiring and  *)
(* the working set's for a page table.                                     *)
RefcntAccounted ==
  \A p \in Pages :
    /\ Anon(p) =>
         vm.page[p].refcnt =
           Holds(p) + (IF PteAt(vm.page[p].referent).kind \in {"Valid", "Busy"} THEN 1 ELSE 0)
    /\ Table(p) => vm.page[p].refcnt = vm.page[p].nonswap + 1

(* nonswap_ptes, which keeps a page table in core, is the number of its    *)
(* in-core PTEs and wirings, and nonzero_ptes is no smaller than the       *)
(* number of its PTEs in use and wirings: a table is not freed under one.  *)
TableCounts ==
  \A t \in Pages :
    Table(t) =>
      /\ vm.page[t].nonswap =
           Wirings(t) + Cardinality({i \in Idx : vm.table[t][i].kind \in InCore})
      /\ vm.page[t].nonzero >=
           Wirings(t) + Cardinality({i \in Idx : vm.table[t][i].kind # "Zero"})

(* The PTE that maps a page and the page's referent name one another; a    *)
(* page being read in is named by a busy PTE.                              *)
ReverseMap ==
  /\ \A t \in Pages, i \in Idx :
       vm.table[t][i].kind \in {"Valid", "Trans"} =>
         /\ Table(t)
         /\ vm.page[vm.table[t][i].page].referent = << t, i >>
         /\ vm.table[t][i].kind = "Trans" => vm.page[t].use = "PML1"
         /\ IF vm.page[t].use = "PML1" THEN Anon(vm.table[t][i].page)
            ELSE Table(vm.table[t][i].page)
  /\ \A p \in Pages \ {Root} :
       (Anon(p) \/ Table(p)) =>
         \/ /\ PteAt(vm.page[p].referent).kind \in {"Valid", "Trans"}
            /\ PteAt(vm.page[p].referent).page = p
         \/ PteAt(vm.page[p].referent).kind = "Busy" /\ Reading(p) # {}

(* The working set list has an entry for each mapped address and each page *)
(* table but the root, and only the entries that may be evicted are on its *)
(* queue: not those of a page being read in or of a table in use.          *)
WslSound ==
  LET Mapped == {va \in VAddrs :
                   /\ LeafTable(va) \in Pages
                   /\ vm.table[LeafTable(va)][va[1]].kind \in {"Valid", "Busy"}}
      Evictable == {LeafKey(va) : va \in {v \in Mapped :
                        vm.table[LeafTable(v)][v[1]].kind = "Valid"}}
                   \cup {TableKey(p) : p \in {q \in Pages \ {Root} :
                        Table(q) /\ vm.page[q].nonswap = 0}}
  IN  /\ vm.wsl.tree = {LeafKey(va) : va \in Mapped}
                       \cup {TableKey(p) : p \in {q \in Pages \ {Root} : Table(q)}}
      /\ Distinct(vm.wsl.queue) /\ Elements(vm.wsl.queue) = Evictable
      /\ vm.wsl.nlocked = Cardinality(vm.wsl.tree) - Len(vm.wsl.queue)

(* A standby page may be stolen at any time: what it holds is in its slot  *)
(* of the paging file, or it was never written.                            *)
StandbyBacked ==
  \A p \in Elements(vm.standby) :
    LET slot == vm.page[p].drumslot
    IN  IF slot \in Slots THEN disk[slot] = vm.data[p]
        ELSE pf.free_slots > 0 => vm.data[p] = 0

(* free_slots counts the clear bits of the bitmap.                         *)
SlotCountExact == pf.free_slots = NSlots - Cardinality(pf.bitmap)

(* A slot of the paging file belongs to one page or to one swap PTE.       *)
SlotsOwned ==
  LET OfPages == {p \in Pages : Anon(p) /\ vm.page[p].drumslot # NoSlot}
      OfPtes  == {ref \in PteAddr : PteAt(ref).kind = "Swap" /\ PteAt(ref).slot # NoSlot}
      Used    == {vm.page[p].drumslot : p \in OfPages} \cup {PteAt(ref).slot : ref \in OfPtes}
  IN  /\ Cardinality(Used) = Cardinality(OfPages) + Cardinality(OfPtes)
      /\ Used \subseteq pf.bitmap
      /\ SlotCountExact

(* While do_fault() reads a page in with no lock held, the PTE pointer it  *)
(* kept stays a busy PTE of a page table in use, and the page its own.     *)
SwapInStable ==
  \A f \in Faulters :
    pc[f] \in {"read", "readVad", "readWs", "finish"} =>
      /\ PteAt(flt[f].pte).kind = "Busy"
      /\ Table(flt[f].pte[1]) /\ vm.page[flt[f].pte[1]].nonswap > 0
      /\ vm.page[flt[f].page].referent = flt[f].pte
      /\ Anon(flt[f].page) /\ vm.page[flt[f].page].refcnt = 1

(* Of the assertions and fatal errors these alone can be met: a table that *)
(* cannot be allocated, or is freed with a referent that is no page's      *)
(* address; a full working set of locked entries; a page table that is     *)
(* evicted when all its pages are swapped out; a busy PTE.                 *)
ReachablePanics == {"tables.c:226", "resident.c:207", "ws.c:112", "tables.c:87", "fault.c:170"}

OnlyKnownPanics == vm.panic \in ReachablePanics \cup {NoPanic}

-----------------------------------------------------------------------------
PageState(s, p) ==
  CASE s.page[p].refcnt > 0 -> "active"
    [] s.page[p].refcnt = 0 /\ s.page[p].use = "Free" -> "free"
    [] s.page[p].refcnt = 0 /\ s.page[p].use # "Free" ->
         IF s.page[p].dirty THEN "modified" ELSE "standby"

(* A page goes through the active state from any queue to another: a free  *)
(* page is never stolen, a modified page never becomes a standby page      *)
(* behind the page writer's back and is never taken for another use.       *)
PageLifecycle ==
  [][\A p \in Pages :
       LET from == PageState(vm, p)
           to   == PageState(vm', p)
       IN  /\ from = to \/ "active" \in {from, to}
           /\ (from = "modified" /\ to = "active") =>
                vm'.page[p].referent = vm.page[p].referent
           /\ (from = "active" /\ to = "free") => Table(p)
           /\ (from = "active" /\ to \in {"standby", "modified"}) => Anon(p)]_vars

Resident(s, va) ==
  FetchPte(s, va) \in Pages /\ s.table[FetchPte(s, va)][va[1]].kind \in {"Valid", "Trans"}

Frame(s, va) == s.table[FetchPte(s, va)][va[1]].page

(* An address that stays resident stays in the same page, whose contents   *)
(* only a store through a writeable PTE changes, however often it is       *)
(* evicted, cleaned and faulted in.                                        *)
ResidentKeepsData ==
  [][\A va \in VAddrs :
       (Resident(vm, va) /\ Resident(vm', va)) =>
         /\ Frame(vm', va) = Frame(vm, va)
         /\ vm'.data[Frame(vm', va)] # vm.data[Frame(vm, va)] =>
              \E f \in Faulters : pc[f] = "translate" /\ flt[f].va = va /\ flt[f].write]_vars

(* Page tables in use stay in core and leave fewer pages than              *)
(* vmp_page_sufficience() asks for.                                        *)
TablesFillCore ==
  NPages - Cardinality({p \in Pages : Table(p)}) < 2 * MinAvailForAlloc

(* A thread that waits for pages gets them, unless page tables have taken  *)
(* so many that there never are enough for the event to be signalled,      *)
(* though there may be for the allocation.                                 *)
SleeperWakes ==
  \A f \in Faulters :
    pc[f] = "sleep" ~> (pc[f] # "sleep" \/ TablesFillCore \/ vm.panic # NoPanic)

-----------------------------------------------------------------------------
(* What the code means to do and does not.                                 *)

(* When the read of a swap-in is done the page holds what the slot named   *)
(* by its swap PTE does.                                                   *)
SwapInRestores ==
  \A f \in Faulters :
    (pc[f] \in {"readVad", "readWs", "finish"} /\ flt[f].slot \in Slots) =>
      vm.data[flt[f].page] = disk[flt[f].slot]
=============================================================================
