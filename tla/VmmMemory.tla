----------------------------- MODULE VmmMemory -----------------------------
(***************************************************************************)
(* The virtual memory manager implements the memory of UserMemory: where   *)
(* the contents of an address are found.                                   *)
(***************************************************************************)
EXTENDS VmmProps

(* The leaf PTE of va, zero as long as a table above it is missing.        *)
PteOf(va) ==
  LET t == LeafTable(va) IN IF t \in Pages THEN vm.table[t][va[1]] ELSE ZeroPte

DiskAt(s) == IF s \in Slots THEN disk[s] ELSE 0

(* The slot a page that is being read in comes from.                       *)
SlotRead(va) ==
  LET f == CHOOSE g \in Faulters : flt[g].page # NoPage /\ flt[g].va = va
  IN  flt[f].slot

CellOf(va) ==
  LET pte == PteOf(va)
  IN  CASE pte.kind = "Zero" -> [where |-> "nowhere", data |-> 0, slot |-> NoSlot]
        [] pte.kind \in {"Valid", "Trans"} ->
             [where |-> "core", data |-> vm.data[pte.page],
              slot |-> vm.page[pte.page].drumslot]
        [] pte.kind = "Swap" ->
             [where |-> "drum", data |-> DiskAt(pte.slot), slot |-> pte.slot]
        [] pte.kind = "Busy" ->
             [where |-> "reading", data |-> DiskAt(SlotRead(va)), slot |-> SlotRead(va)]

Memory == INSTANCE UserMemory
  WITH Addresses <- VAddrs, Words <- Data, DrumSlots <- Slots,
       mem <- [va \in VAddrs |-> CellOf(va)], full <- pf.free_slots = 0

(* Whatever the faulting thread, the page writer and the balancer do to    *)
(* the pages of the process, their contents change only as UserMemory      *)
(* says: evicted, cleaned, stolen for another address, written out while   *)
(* the program stores to it, a page keeps what was last stored until one   *)
(* of the three named losses.                                              *)
KeepsMemory == Memory!MemSpec
=============================================================================
