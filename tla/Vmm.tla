-------------------------------- MODULE Vmm --------------------------------
(***************************************************************************)
(* The whole simulator: the threads that access memory (main.c, fault.c,   *)
(* and the wiring half of tables.c), the page writer (pgwriter.c), the     *)
(* balancer (balancer.c), the paging file and the locks between them.      *)
(*                                                                         *)
(* A critical section of vmp_pfn_lock that is one action takes and gives   *)
(* back the lock in that action; the faulting thread holds it over several *)
(* steps while it wires and unwires the page tables, one step per level.   *)
(***************************************************************************)
EXTENDS PageAlloc, Pagefile

CONSTANTS
  Faulters,     \* the threads that run access(); main alone in the build
  VAddrs,       \* the addresses they access, all in one private VAD
  Writes,       \* for_write of the accesses; main() passes TRUE only
  MaxIops,      \* MAX_IOPS, 32
  MaxStale      \* bound: no new fault with more stale entries than this

ASSUME VmmAssumption ==
  /\ IsFiniteSet(Faulters)
  /\ Faulters \cap {"pgwriter", "balancer", "none"} = {}
  /\ VAddrs \subseteq VAddr
  /\ Writes \subseteq BOOLEAN
  /\ MaxIops \in Nat \ {0}
  /\ MaxStale \in Nat

VARIABLES
  vm,           \* all that vmp_pfn_lock protects
  pf,           \* vmp_pagefile
  disk,         \* the contents of the paging file's slots
  pc,
  flt,          \* the locals of access(), vm_fault() and do_fault()
  wr,           \* the locals of vmp_pgwriter()
  target,       \* the local of vmp_balancer()
  vad_lock, ws_lock, pfn_lock

vars == << vm, pf, disk, pc, flt, wr, target, vad_lock, ws_lock, pfn_lock >>

Threads == Faulters \cup {"pgwriter", "balancer"}
None    == "none"
LockStates == Threads \cup {None}

PcStates == {"user", "access", "translate", "vad", "ws", "wire", "fault",
             "unwire", "sleep", "read", "readVad", "readWs", "finish",
             "collect", "send", "drain", "wait", "trim", "check"}

(* pages[l] is the wired table of level l; page is the page being read in, *)
(* pte the address of its PTE and slot (which the code does not keep) the  *)
(* slot the PTE named.                                                     *)
FaultLocals ==
  [va : VAddr, write : BOOLEAN, level : 1 .. Levels + 1,
   pages : [1 .. Levels -> Pages \cup {NoPage}],
   page : Pages \cup {NoPage}, pte : PteAddr, slot : Nat \cup {NoSlot},
   result : {"ok", "again", "read"}]

NoFault == [va |-> [l \in 1 .. Levels |-> 0], write |-> FALSE, level |-> Levels,
            pages |-> [l \in 1 .. Levels |-> NoPage], page |-> NoPage,
            pte |-> NullRef, slot |-> NoSlot, result |-> "ok"]

WriterLocals ==
  [iops : Seq(Pages), page : Pages \cup {NoPage}, slot : Nat \cup {NoSlot}]

NoWrite == [iops |-> << >>, page |-> NoPage, slot |-> NoSlot]

Init ==
  /\ vm = VmInit
  /\ pf = PagefileInit
  /\ disk = [i \in Slots |-> 0]
  /\ pc = [t \in Threads |-> IF t \in Faulters THEN "user"
                         ELSE IF t = "pgwriter" THEN "collect" ELSE "wait"]
  /\ flt = [f \in Faulters |-> NoFault]
  /\ wr = NoWrite
  /\ target = 0
  /\ vad_lock = None /\ ws_lock = None /\ pfn_lock = None

(* The effect of a critical section.  A failed assertion ends the program, *)
(* and kfatal() spins inside the section: no thread sees what it did.      *)
Commit(s, flt1, wr1, pf1) ==
  IF s.panic = NoPanic
  THEN vm' = s /\ flt' = flt1 /\ wr' = wr1 /\ pf' = pf1
  ELSE vm' = [vm EXCEPT !.panic = s.panic] /\ UNCHANGED << flt, wr, pf >>

(* ... of thread f, whose locals are then x.                               *)
CommitFault(f, s, x) == Commit(s, [flt EXCEPT ![f] = x], wr, pf)

SetPte(s, ref, pte) ==
  Then(s, [s EXCEPT !.table[ref[1]][ref[2]] = pte])

SetReferent(s, p, ref) ==
  Then(s, [s EXCEPT !.page[p].referent = ref])

Goto(t, from, to) ==
  /\ vm.panic = NoPanic
  /\ pc[t] = from
  /\ pc' = [pc EXCEPT ![t] = to]

-----------------------------------------------------------------------------
(* access(): the simulated MMU.  It walks the tables without a lock.       *)
LeafTable(va) == FetchPte(vm, va)

MmuHit(va, write) ==
  /\ LeafTable(va) \in Pages
  /\ LET pte == vm.table[LeafTable(va)][va[1]]
     IN  pte.kind = "Valid" /\ (write => pte.writeable)

Pick(f, va, write) ==
  /\ Goto(f, "user", "access")
  /\ flt' = [flt EXCEPT ![f] = [@ EXCEPT !.va = va, !.write = write]]
  /\ UNCHANGED << vm, pf, disk, wr, target, vad_lock, ws_lock, pfn_lock >>

AccessHit(f) ==
  /\ Goto(f, "access", "translate")
  /\ MmuHit(flt[f].va, flt[f].write)
  /\ UNCHANGED << vm, pf, disk, flt, wr, target, vad_lock, ws_lock, pfn_lock >>

AccessFault(f) ==
  /\ Goto(f, "access", "vad")
  /\ ~MmuHit(flt[f].va, flt[f].write)
  /\ UNCHANGED << vm, pf, disk, flt, wr, target, vad_lock, ws_lock, pfn_lock >>

(* The PTE is read a second time.  A write stores something in the page    *)
(* if the PTE is still the one that was checked.                           *)
Translate(f) ==
  /\ Goto(f, "translate", "user")
  /\ LET va == flt[f].va
     IN  IF flt[f].write /\ MmuHit(va, TRUE)
         THEN \E d \in Data :
                vm' = [vm EXCEPT !.data[vm.table[LeafTable(va)][va[1]].page] = d]
         ELSE vm' = vm
  /\ flt' = [flt EXCEPT ![f] = NoFault]
  /\ UNCHANGED << pf, disk, wr, target, vad_lock, ws_lock, pfn_lock >>

-----------------------------------------------------------------------------
(* do_fault(): the locks, then vmp_wire_pte() from the root down.          *)
(* vmp_wsl_remove() leaves nentries too large by one each time, which the  *)
(* model bounds here.                                                      *)
StaleEntries == vm.wsl.nentries - Cardinality(vm.wsl.tree)

LockVad(f) ==
  /\ Goto(f, "vad", "ws")
  /\ StaleEntries <= MaxStale
  /\ vad_lock = None
  /\ vad_lock' = f
  /\ UNCHANGED << vm, pf, disk, flt, wr, target, ws_lock, pfn_lock >>

LockWs(f) ==
  /\ Goto(f, "ws", "wire")
  /\ ws_lock = None
  /\ ws_lock' = f
  /\ flt' = [flt EXCEPT ![f] = [@ EXCEPT !.level = Levels + 1]]
  /\ UNCHANGED << vm, pf, disk, wr, target, vad_lock, pfn_lock >>

WireRoot(f) ==
  /\ Goto(f, "wire", "wire")
  /\ flt[f].level = Levels + 1
  /\ pfn_lock = None
  /\ pfn_lock' = f
  /\ CommitFault(f, NonswapPteCreated(vm, Root, TRUE),
                 [flt[f] EXCEPT !.level = Levels, !.pages[Levels] = Root])
  /\ UNCHANGED << disk, target, vad_lock, ws_lock >>

(* The table p, new or back from the standby state, is counted, inserted   *)
(* in the working set and pointed to by entry i of dir.                    *)
EnterTable(s, dir, i, p, isNew) ==
  LET t == Then(s,
             [s EXCEPT !.page[p].nonzero = @ + 1, !.page[p].nonswap = @ + 1])
      u == NonswapPteCreated(WslInsert(t, TableKey(p), TRUE), dir, isNew)
  IN  SetPte(u, << dir, i >>, HwPte(p, TRUE))

(* Faulty: the new PTE of the directory is not counted as nonzero.         *)
NewTableUncounted(s, dir, i, use) ==
  LET p == AllocatedPage(s)
      t == PageRetain(PageAlloc(s, use), p)
  IN  Kassert(s, CanAlloc(s), "tables.c:226",
        EnterTable(SetReferent(t, p, << dir, i >>), dir, i, p, FALSE))

(* The Zero case of vmp_wire_pte(): the allocation may not fail here.      *)
NewTable(s, dir, i, use) ==
  LET p == AllocatedPage(s)
      t == PageRetain(PageAlloc(s, use), p)
  IN  Kassert(s, CanAlloc(s), "tables.c:226",
        EnterTable(SetReferent(t, p, << dir, i >>), dir, i, p, TRUE))

(* The Busy case waits on the pager state of a page nothing sets.          *)
WireTable(s, dir, i, use) ==
  LET pte == s.table[dir][i]
  IN  CASE pte.kind = "Valid" -> NonswapPteCreated(s, pte.page, TRUE)
        [] pte.kind = "Trans" ->
             EnterTable(PageRetain(PageRetain(s, pte.page), pte.page),
                        dir, i, pte.page, FALSE)
        [] pte.kind = "Zero"  -> NewTable(s, dir, i, use)
        [] pte.kind = "Busy"  -> Kfatal(s, "tables.c:203")
        [] OTHER              -> Kfatal(s, "tables.c:216")

WireLevel(f) ==
  LET l   == flt[f].level
      dir == flt[f].pages[l]
      i   == flt[f].va[l]
      s   == WireTable(vm, dir, i, TableUse[l - 1])
  IN  /\ Goto(f, "wire", IF flt[f].level = 2 THEN "fault" ELSE "wire")
      /\ l \in 2 .. Levels
      /\ CommitFault(f, s, [flt[f] EXCEPT !.level = l - 1,
                                          !.pages[l - 1] = s.table[dir][i].page])
      /\ pfn_lock' = IF l = 2 THEN None ELSE f
      /\ UNCHANGED << disk, target, vad_lock, ws_lock >>

-----------------------------------------------------------------------------
(* do_fault() once the leaf PTE is wired, by its kind.                     *)
FaultPteAddr(f) == << flt[f].pages[1], flt[f].va[1] >>

FaultPte(f) == vm.table[flt[f].pages[1]][flt[f].va[1]]

FaultsOn(f, kind) == vm.panic = NoPanic /\ pc[f] = "fault" /\ FaultPte(f).kind = kind

Handled(f, s, locals) ==
  /\ Goto(f, "fault", "unwire")
  /\ pfn_lock = None
  /\ pfn_lock' = f
  /\ CommitFault(f, s, locals)
  /\ UNCHANGED << disk, target, vad_lock, ws_lock >>

Result(f, r) == [flt[f] EXCEPT !.result = r]

(* A write to a page whose PTE is not writeable, which is how a page is    *)
(* found to be dirty.                                                      *)
MakeWriteable(f) ==
  /\ FaultsOn(f, "Valid")
  /\ ~FaultPte(f).writeable /\ flt[f].write
  /\ Handled(f, SetPte(vm, FaultPteAddr(f), HwPte(FaultPte(f).page, TRUE)),
             Result(f, "ok"))

ValidFault(f) ==
  /\ FaultsOn(f, "Valid")
  /\ FaultPte(f).writeable \/ ~flt[f].write
  /\ Handled(f, vm, Result(f, "ok"))

(* The page gets its referent after the insertion, which may evict.        *)
DemandZero(f) ==
  LET p == AllocatedPage(vm)
      s == SetPte(PageAlloc(vm, "AnonPrivate"), FaultPteAddr(f), HwPte(p, flt[f].write))
      u == WslInsert(NonswapPteCreated(s, flt[f].pages[1], TRUE),
                     LeafKey(flt[f].va), FALSE)
  IN  /\ FaultsOn(f, "Zero")
      /\ CanAlloc(vm)
      /\ Handled(f, SetReferent(u, p, FaultPteAddr(f)), Result(f, "ok"))

AllocFails(f) ==
  /\ FaultsOn(f, "Zero") \/ FaultsOn(f, "Swap")
  /\ ~CanAlloc(vm)
  /\ Handled(f, PageAlloc(vm, "AnonPrivate"), Result(f, "again"))

TransFault(f) ==
  LET p == FaultPte(f).page
  IN  /\ FaultsOn(f, "Trans")
      /\ Handled(f, WslInsert(SetPte(PageRetain(vm, p), FaultPteAddr(f), HwPte(p, FALSE)),
                              LeafKey(flt[f].va), FALSE),
                 Result(f, "ok"))

(* Faulty: the entry of a page being read in is not locked.                *)
SwapFaultUnlocked(f) ==
  LET p == AllocatedPage(vm)
      s == SetReferent(PageAlloc(vm, "AnonPrivate"), p, FaultPteAddr(f))
      t == NonswapPteCreated(SetPte(s, FaultPteAddr(f), BusyPte), flt[f].pages[1], FALSE)
  IN  /\ FaultsOn(f, "Swap")
      /\ CanAlloc(vm)
      /\ Handled(f, WslInsert(t, LeafKey(flt[f].va), FALSE),
                 [Result(f, "read") EXCEPT !.page = p, !.pte = FaultPteAddr(f),
                                           !.slot = FaultPte(f).slot])

(* The PTE is busy while the page is read in; the table keeps its count    *)
(* of nonzero PTEs, and the entry is locked.                               *)
SwapFault(f) ==
  LET p == AllocatedPage(vm)
      s == SetReferent(PageAlloc(vm, "AnonPrivate"), p, FaultPteAddr(f))
      t == NonswapPteCreated(SetPte(s, FaultPteAddr(f), BusyPte), flt[f].pages[1], FALSE)
  IN  /\ FaultsOn(f, "Swap")
      /\ CanAlloc(vm)
      /\ Handled(f, WslInsert(t, LeafKey(flt[f].va), TRUE),
                 [Result(f, "read") EXCEPT !.page = p, !.pte = FaultPteAddr(f),
                                           !.slot = FaultPte(f).slot])

BusyFault(f) ==
  /\ FaultsOn(f, "Busy")
  /\ Handled(f, Kfatal(vm, "fault.c:170"), Result(f, "ok"))

-----------------------------------------------------------------------------
(* vmp_pte_wire_state_release() from the leaf up and the return of         *)
(* do_fault(), or its wait for the paging file.                            *)
AfterFault == [ok |-> "access", again |-> "sleep", read |-> "read"]

Unwire(f) ==
  LET l    == flt[f].level
      last == l = Levels
  IN  /\ Goto(f, "unwire", IF last THEN AfterFault[flt[f].result] ELSE "unwire")
      /\ CommitFault(f, PteDeleted(vm, flt[f].pages[l]),
                     [flt[f] EXCEPT !.level = IF last THEN l ELSE l + 1,
                                    !.pages[l] = NoPage])
      /\ pfn_lock' = IF last THEN None ELSE f
      /\ ws_lock' = IF last THEN None ELSE f
      /\ vad_lock' = IF last THEN None ELSE f
      /\ UNCHANGED << disk, target >>

(* vm_fault() waits for vmp_sufficient_pages_event and starts again.       *)
Awake(f) ==
  /\ Goto(f, "sleep", "vad")
  /\ vm.ev.sufficient
  /\ UNCHANGED << vm, pf, disk, flt, wr, target, vad_lock, ws_lock, pfn_lock >>

(* iop_send() of the read, at the drum slot of the new page.  pread() of   *)
(* a slot that is not one fails and leaves the page alone.                 *)
SendRead(f) ==
  LET slot == vm.page[flt[f].page].drumslot
  IN  /\ Goto(f, "read", "readVad")
      /\ vm' = IF slot \in Slots
               THEN [vm EXCEPT !.data[flt[f].page] = disk[slot]] ELSE vm
      /\ UNCHANGED << pf, disk, flt, wr, target, vad_lock, ws_lock, pfn_lock >>

RelockVad(f) ==
  /\ Goto(f, "readVad", "readWs")
  /\ vad_lock = None
  /\ vad_lock' = f
  /\ UNCHANGED << vm, pf, disk, flt, wr, target, ws_lock, pfn_lock >>

RelockWs(f) ==
  /\ Goto(f, "readWs", "finish")
  /\ ws_lock = None
  /\ ws_lock' = f
  /\ UNCHANGED << vm, pf, disk, flt, wr, target, vad_lock, pfn_lock >>

(* The PTE is written through the pointer found before the locks were      *)
(* dropped.                                                                *)
FinishRead(f) ==
  /\ Goto(f, "finish", "access")
  /\ pfn_lock = None
  /\ CommitFault(f, WslUnlockEntry(SetPte(vm, flt[f].pte, HwPte(flt[f].page, FALSE)),
                                   LeafKey(flt[f].va)),
                 [flt[f] EXCEPT !.page = NoPage, !.pte = NullRef, !.slot = NoSlot])
  /\ vad_lock' = None /\ ws_lock' = None
  /\ UNCHANGED << disk, target, pfn_lock >>

-----------------------------------------------------------------------------
(* vmp_pgwriter().  Its wait ends when the event is signalled or after a   *)
(* second, that is at any time, and is no state of its own.                *)

(* Faulty: the page becomes a standby page before it is written.           *)
CleanPageEarly(s, p, slot) ==
  [s EXCEPT !.modified = Unlink(@, p), !.standby = Append(@, p),
            !.stat.nmodified = @ - 1, !.stat.nstandby = @ + 1,
            !.page[p].drumslot = slot, !.page[p].dirty = FALSE]

(* One round of the loop and cluster_anon(): the page is retained, has a   *)
(* slot unless the paging file is full, and counts as clean from here on.  *)
CleanPage(s, p, slot) ==
  LET r == PageRetain(s, p)
  IN  Kassert(r, r.page[p].use \in {"AnonPrivate", "PML1", "PML2", "PML3", "PML4"},
              "pgwriter.c:164",
        [r EXCEPT !.page[p].drumslot = slot, !.page[p].dirty = FALSE])

WriterCollect ==
  LET p     == Head(vm.modified)
      isNew == vm.page[p].drumslot = NoSlot
      slot  == IF isNew THEN PagefileSlot(pf) ELSE vm.page[p].drumslot
  IN  /\ vm.modified # << >>
      /\ Goto("pgwriter", "collect", "send")
      /\ pfn_lock = None
      /\ Commit(CleanPage(vm, p, slot), flt, [wr EXCEPT !.page = p, !.slot = slot],
                IF isNew THEN PagefileAlloc(pf) ELSE pf)
      /\ UNCHANGED << disk, target, vad_lock, ws_lock, pfn_lock >>

(* Nothing (more) to clean: on to the completion of what was sent.         *)
WriterIdle ==
  /\ Goto("pgwriter", "collect", IF wr.iops = << >> THEN "collect" ELSE "drain")
  /\ pfn_lock = None
  /\ vm.modified = << >>
  /\ vm' = [vm EXCEPT !.ev.pgwriter = FALSE]
  /\ UNCHANGED << pf, disk, flt, wr, target, vad_lock, ws_lock, pfn_lock >>

(* iop_send() of the write, with no lock held.                             *)
WriterSend ==
  /\ Goto("pgwriter", "send",
          IF Len(wr.iops) + 1 = MaxIops THEN "drain" ELSE "collect")
  /\ disk' = IF wr.slot \in Slots
             THEN [disk EXCEPT ![wr.slot] = vm.data[wr.page]] ELSE disk
  /\ wr' = [iops |-> Append(wr.iops, wr.page), page |-> NoPage, slot |-> NoSlot]
  /\ UNCHANGED << vm, pf, flt, target, vad_lock, ws_lock, pfn_lock >>

(* vm_mdl_release_pages(), one page at a time.                             *)
WriterRelease ==
  /\ wr.iops # << >>
  /\ Goto("pgwriter", "drain", IF Len(wr.iops) = 1 THEN "collect" ELSE "drain")
  /\ pfn_lock = None
  /\ Commit(PageRelease(vm, Head(wr.iops)), flt, [wr EXCEPT !.iops = Tail(@)], pf)
  /\ UNCHANGED << disk, target, vad_lock, ws_lock, pfn_lock >>

-----------------------------------------------------------------------------
(* vmp_balancer() and vmp_wsl_trim_n().  A wait that times out is waited   *)
(* again; only the balancer clears its event, which is still signalled     *)
(* when it has the lock.                                                   *)
BalancerWake ==
  /\ Goto("balancer", "wait", "trim")
  /\ vm.ev.balancer
  /\ ws_lock = None
  /\ ws_lock' = "balancer"
  /\ target' = WsPageExpansionCount
  /\ UNCHANGED << vm, pf, disk, flt, wr, vad_lock, pfn_lock >>

BalancerTrim ==
  /\ Goto("balancer", "trim", "trim")
  /\ target > 0 /\ vm.wsl.queue # << >>
  /\ pfn_lock = None
  /\ Commit(WslTrim1(vm), flt, wr, pf)
  /\ target' = target - 1
  /\ UNCHANGED << disk, vad_lock, ws_lock, pfn_lock >>

BalancerUnlock ==
  /\ Goto("balancer", "trim", "check")
  /\ target = 0 \/ (vm.wsl.queue = << >> /\ pfn_lock = None)
  /\ ws_lock' = None
  /\ target' = 0
  /\ UNCHANGED << vm, pf, disk, flt, wr, vad_lock, pfn_lock >>

BalancerCheck ==
  /\ Goto("balancer", "check", "wait")
  /\ pfn_lock = None
  /\ vm' = IF PageSufficience(vm) THEN [vm EXCEPT !.ev.balancer = FALSE] ELSE vm
  /\ UNCHANGED << pf, disk, flt, wr, target, vad_lock, ws_lock, pfn_lock >>

-----------------------------------------------------------------------------
FaulterStep(f) ==
  \/ AccessHit(f) \/ AccessFault(f) \/ Translate(f)
  \/ LockVad(f) \/ LockWs(f) \/ WireRoot(f) \/ WireLevel(f)
  \/ MakeWriteable(f) \/ ValidFault(f) \/ DemandZero(f) \/ AllocFails(f)
  \/ TransFault(f) \/ SwapFault(f) \/ BusyFault(f)
  \/ Unwire(f) \/ Awake(f)
  \/ SendRead(f) \/ RelockVad(f) \/ RelockWs(f) \/ FinishRead(f)

WriterStep == WriterCollect \/ WriterIdle \/ WriterSend \/ WriterRelease

BalancerStep == BalancerWake \/ BalancerTrim \/ BalancerUnlock \/ BalancerCheck

(* After a failed assertion or kfatal() nothing more happens.              *)
Halted == vm.panic # NoPanic /\ UNCHANGED vars

Next ==
  \/ \E f \in Faulters, va \in VAddrs, write \in Writes : Pick(f, va, write)
  \/ \E f \in Faulters : FaulterStep(f)
  \/ WriterStep
  \/ BalancerStep
  \/ Halted

(* Every thread runs on; a program need not access memory for ever.        *)
Fairness ==
  /\ \A f \in Faulters : WF_vars(FaulterStep(f))
  /\ WF_vars(WriterStep)
  /\ WF_vars(BalancerStep)

Spec == Init /\ [][Next]_vars /\ Fairness
=============================================================================
