------------------------------ MODULE VmState ------------------------------
(***************************************************************************)
(* The data of the virtual memory manager: the PFN database (struct        *)
(* vm_page, the page queues and vmstat), the page tables, the working set  *)
(* list of the one process, and the three events.  Everything here is      *)
(* protected by vmp_pfn_lock, the working set list by ws_lock as well, and *)
(* is kept in one record so that a C function that runs inside a critical  *)
(* section is an operator from records to records.                         *)
(***************************************************************************)
EXTENDS Integers, Sequences, FiniteSets, SequencesExt

CONSTANTS
  NPages,                 \* SOFT_NPAGES, 32 in the build
  Levels,                 \* VMP_TABLE_LEVELS, 4 in the build
  Entries,                \* PTEs per table, 512 in the build
  WsPageExpansionCount,   \* vmparam.ws_page_expansion_count, 4
  MinAvailForExpansion,   \* vmparam.min_avail_for_expansion, 8
  MinAvailForAlloc,       \* vmparam.min_avail_for_alloc, 4
  WsMaxInitial,           \* the initial wsl.max, 4
  ModifiedSignal,         \* the literal 4 of check_shortage
  Data                    \* the contents a store can give a page

ASSUME VmAssumption ==
  /\ NPages \in Nat \ {0}
  /\ Levels \in 2..4
  /\ Entries \in Nat \ {0}
  /\ WsPageExpansionCount \in Nat \ {0}
  /\ MinAvailForExpansion \in Nat
  /\ MinAvailForAlloc \in Nat
  /\ WsMaxInitial \in Nat
  /\ ModifiedSignal \in Nat
  /\ Data \subseteq Nat

Pages   == 0 .. NPages - 1
Idx     == 0 .. Entries - 1
VAddr   == [1 .. Levels -> Idx]     \* the indexes of vmp_addr_unpack
PteAddr == Pages \X Idx             \* a paddr_t of a PTE
Root    == 0                        \* the first page of the free queue
NoPage  == -1
NoSlot  == -1                       \* drumslot (uintptr_t)-1
Content == Data \cup {0}            \* 0: a zero-filled page

TableUse == << "PML1", "PML2", "PML3", "PML4" >>
PageUse  == {"Free", "Deleted", "AnonPrivate", "PML1", "PML2", "PML3", "PML4"}

-----------------------------------------------------------------------------
(* The five kinds of PTE.  A swap PTE is three bit fields, valid = 0,      *)
(* kind = kSoftPteKindSwap = 0 and the slot, so that of slot 0 is the word *)
(* 0x0, which vmp_pte_characterise takes for a zero PTE.                   *)
PteKind == {"Zero", "Valid", "Trans", "Busy", "Swap"}
Pte == [kind : PteKind, page : Pages, writeable : BOOLEAN, slot : Nat \cup {NoSlot}]

ZeroPte == [kind |-> "Zero", page |-> 0, writeable |-> FALSE, slot |-> 0]

HwPte(p, w) == [ZeroPte EXCEPT !.kind = "Valid", !.page = p, !.writeable = w]

TransPte(p) == [ZeroPte EXCEPT !.kind = "Trans", !.page = p]

BusyPte == [ZeroPte EXCEPT !.kind = "Busy"]

SwapPte(slot) ==
  IF slot = 0 THEN ZeroPte
  ELSE [ZeroPte EXCEPT !.kind = "Swap", !.slot = slot]

-----------------------------------------------------------------------------
(* struct vm_page.  referent is the address of the PTE that maps the page; *)
(* 0 is also the address of the first PTE of page 0.                       *)
NullRef == << 0, 0 >>

PageRec == [use : PageUse, refcnt : Nat, dirty : BOOLEAN,
            drumslot : Nat \cup {NoSlot},
            nonzero : Int, nonswap : Int, referent : PteAddr]

(* A working set list entry is found by its vaddr: a mapped address, or    *)
(* the direct map address of a page table.                                 *)
LeafKey(va) == << "leaf", va >>
TableKey(p) == << "table", p >>
WsKey == ({"leaf"} \X VAddr) \cup ({"table"} \X Pages)

(* The kassert and kfatal sites, and the uses of a pointer or a list link  *)
(* that nothing in the code keeps from being invalid.                      *)
NoPanic == "none"

PanicSite ==
  {"resident.c:78", "resident.c:81", "resident.c:122", "resident.c:124",
   "resident.c:145", "resident.c:147", "resident.c:151", "resident.c:164",
   "resident.c:183", "resident.c:207",
   "tables.c:59", "tables.c:87", "tables.c:94", "tables.c:97", "tables.c:203",
   "tables.c:216", "tables.c:226",
   "ws.c:52", "ws.c:77", "ws.c:78", "ws.c:107", "ws.c:108", "ws.c:112",
   "ws.c:135", "ws.c:137", "ws.c:145", "ws.c:146", "ws.c:154", "ws.c:155",
   "fault.c:170", "pgwriter.c:164"}

PageDb   == [Pages -> PageRec]
Queue    == Seq(Pages)
Stats    == [nfree : Int, nstandby : Int, nmodified : Int, nactive : Int]
Events   == [sufficient : BOOLEAN, pgwriter : BOOLEAN, balancer : BOOLEAN]
TableMem == [Pages -> [Idx -> Pte]]
Contents == [Pages -> Content]
WsList   == [queue : Seq(WsKey), tree : SUBSET WsKey,
             nlocked : Int, nentries : Int, max : Int]

VmStates ==
  [page : PageDb, free : Queue, standby : Queue, modified : Queue, stat : Stats,
   wasShortage : BOOLEAN, ev : Events, table : TableMem, data : Contents,
   wsl : WsList, panic : PanicSite \cup {NoPanic}]

(* The state when main has allocated the root table and started the        *)
(* threads: page 0 is the root, every other page is on the free queue.     *)
VmInit ==
  [page     |-> [p \in Pages |->
                  [use |-> IF p = Root THEN TableUse[Levels] ELSE "Free",
                   refcnt |-> IF p = Root THEN 1 ELSE 0, dirty |-> FALSE,
                   drumslot |-> NoSlot, nonzero |-> 0, nonswap |-> 0,
                   referent |-> NullRef]],
   free     |-> [i \in 1 .. NPages - 1 |-> i],
   standby  |-> << >>, modified |-> << >>,
   stat     |-> [nfree |-> NPages - 1, nstandby |-> 0, nmodified |-> 0, nactive |-> 1],
   wasShortage |-> FALSE,
   ev       |-> [sufficient |-> FALSE, pgwriter |-> FALSE, balancer |-> FALSE],
   table    |-> [p \in Pages |-> [i \in Idx |-> ZeroPte]],
   data     |-> [p \in Pages |-> 0],
   wsl      |-> [queue |-> << >>, tree |-> {}, nlocked |-> 0, nentries |-> 0,
                 max |-> WsMaxInitial],
   panic    |-> NoPanic]

(* t follows s.  Nothing follows a failed assertion.                       *)
Then(s, t) == IF s.panic = NoPanic THEN t ELSE s

(* kassert(ok), then t.                                                    *)
Kassert(s, ok, site, t) == Then(s, IF ok THEN t ELSE [s EXCEPT !.panic = site])

Kfatal(s, site) == Kassert(s, FALSE, site, s)

(* TAILQ_REMOVE of an element that is on the queue.                        *)
Unlink(q, x) == RemoveAt(q, CHOOSE i \in 1 .. Len(q) : q[i] = x)
=============================================================================
