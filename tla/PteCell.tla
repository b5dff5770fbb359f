------------------------------ MODULE PteCell ------------------------------
(***************************************************************************)
(* The life of one PTE as the modules on page tables have it: a record of  *)
(* VmState, replaced or changed by one of the functions of the code.       *)
(***************************************************************************)
EXTENDS VmState

CONSTANT DrumSlots      \* the slots of the paging file

VARIABLE pte

CellInit == pte = ZeroPte

(* A page is entered by a demand-zero fault or as the next table, or by    *)
(* the end of a read.                                                      *)
Enter ==
  /\ pte.kind = "Zero"
  /\ pte'.page \in Pages /\ pte' = HwPte(pte'.page, pte'.writeable)

ReadEnded ==
  /\ pte.kind = "Busy"
  /\ pte'.page \in Pages /\ pte' = HwPte(pte'.page, FALSE)

Permit == pte.kind = "Valid" /\ pte' = [pte EXCEPT !.writeable = TRUE]

(* wsl_evict(), and the fault that takes the page back.                    *)
Evicted == pte.kind = "Valid" /\ pte' = TransPte(pte.page)

Restored == pte.kind = "Trans" /\ pte' = HwPte(pte.page, FALSE)

(* steal_page(), and the read that begins.                                 *)
Stolen ==
  /\ pte.kind = "Trans"
  /\ pte'.slot \in DrumSlots \cup {NoSlot} /\ pte' = SwapPte(pte'.slot)

ReadBegun == pte.kind = "Swap" /\ pte' = BusyPte

Deleted == pte.kind = "Valid" /\ pte' = ZeroPte

CellNext ==
  \/ Enter \/ Permit \/ Evicted \/ Restored \/ Deleted
  \/ Stolen \/ ReadBegun \/ ReadEnded

CellSpec == CellInit /\ [][CellNext]_pte
=============================================================================
