------------------------------ MODULE PteBits ------------------------------
(***************************************************************************)
(* The bits of a PTE, vm/vmpsoft.h: one word that is a pte_hw_t, a         *)
(* pte_swap_t, a pte_busy_t or a pte_trans_t, none of which has a tag.     *)
(* A word, and every number that goes into one, is the set of its one      *)
(* bits.                                                                   *)
(***************************************************************************)
EXTENDS Integers, FiniteSetsExt

CONSTANTS
  NPages,       \* SOFT_NPAGES
  NSlots,       \* the slots of the paging file
  PagerStates   \* addresses of struct vmp_pager_state, as sets of bits

Word == 0 .. 63

ASSUME PteAssumption ==
  /\ NPages \in Nat \ {0} /\ NSlots \in Nat \ {0}
  /\ PagerStates \subseteq SUBSET (3 .. 63)      \* as malloc() aligns them

VARIABLES
  pte,          \* the word
  pager_state   \* the pager_state of do_fault()

vars == << pte, pager_state >>

BitsOf(n) == IF n < 0 THEN Word ELSE {b \in 0 .. 30 : (n \div 2^b) % 2 = 1}

-----------------------------------------------------------------------------
(* A bit field: its lowest bit and its width.                              *)
HwValid     == [low |-> 0, width |-> 1]
HwWriteable == [low |-> 1, width |-> 1]
HwPfn       == [low |-> 12, width |-> 40]
SoftValid   == [low |-> 0, width |-> 1]
Payload     == [low |-> 1, width |-> 61]      \* drumslot, state, trans.pfn
Kind        == [low |-> 62, width |-> 2]

(* enum vmp_soft_pte_kind: 0, 1 and 2.                                     *)
KindSwap  == {}
KindBusy  == {0}
KindTrans == {1}

Field(w, f) == {b - f.low : b \in {c \in w : f.low <= c /\ c < f.low + f.width}}

(* An assignment to a field drops the bits that do not fit.                *)
SetField(w, f, val) ==
  (w \ (f.low .. f.low + f.width - 1)) \cup {f.low + b : b \in val \cap (0 .. f.width - 1)}

Flag(bool) == IF bool THEN {0} ELSE {}

(* newpte is on the stack, where anything may have been.                   *)
Junk == {{}, Word, {b \in Word : b % 2 = 0}, {b \in Word : b % 2 = 1}}

-----------------------------------------------------------------------------
(* vmp_pte_characterise().                                                 *)
Characterise(w) ==
  CASE w = {} -> "Zero"
    [] w # {} /\ Field(w, HwValid) # {} -> "Valid"
    [] w # {} /\ Field(w, HwValid) = {} ->
         CASE Field(w, Kind) = KindBusy  -> "Busy"
           [] Field(w, Kind) = KindTrans -> "Trans"
           [] Field(w, Kind) = KindSwap  -> "Swap"
           [] OTHER -> "kassert"

(* vmp_pte_hw_create().                                                    *)
HwCreate(pfn, writeable) ==
  SetField(SetField(SetField({}, HwValid, {0}), HwWriteable, Flag(writeable)), HwPfn, pfn)

(* vmp_pte_zero_create().                                                  *)
ZeroCreate == {}

(* Faulty: newpte's kind stays what it was.                                *)
SoftCreateNoKind(newpte, kind, val) == SetField(SetField(newpte, SoftValid, {}), Payload, val)

(* The three assignments of vmp_pte_trans_create(), vmp_pte_busy_create()  *)
(* and vmp_pte_swap_create().                                              *)
SoftCreate(newpte, kind, val) ==
  SetField(SetField(SetField(newpte, SoftValid, {}), Kind, kind), Payload, val)

TransCreate(newpte, pfn) == SoftCreate(newpte, KindTrans, pfn)

SwapCreate(newpte, drumslot) == SoftCreate(newpte, KindSwap, drumslot)

(* Faulty: the pointer is not shifted, and loses its top bits.             *)
BusyCreateUnshifted(newpte, state) == SoftCreate(newpte, KindBusy, state)

BusyCreate(newpte, state) == SoftCreate(newpte, KindBusy, {b - 3 : b \in state \cap (3 .. 63)})

(* vmp_pte_busy_state() as it is meant: no code uses the macro, which      *)
(* names a member that pte_trans_t does not have.                          *)
BusyState(w) == {b + 3 : b \in Field(w, Payload) \cap (0 .. 60)}

-----------------------------------------------------------------------------
Init == pte = ZeroCreate /\ pager_state = {}

(* do_fault() for a page it has allocated, and                             *)
(* vmp_md_setup_table_pointers().                                          *)
EnterPage(p, writeable) ==
  /\ Characterise(pte) = "Zero"
  /\ pte' = HwCreate(BitsOf(p), writeable)
  /\ UNCHANGED pager_state

(* do_fault(): pte->hw.writeable = true.                                   *)
MakeWriteable ==
  /\ Characterise(pte) = "Valid" /\ Field(pte, HwWriteable) = {}
  /\ pte' = SetField(pte, HwWriteable, {0})
  /\ UNCHANGED pager_state

(* wsl_evict(): the page number goes from one format to the other.         *)
Evict ==
  /\ Characterise(pte) = "Valid"
  /\ \E newpte \in Junk : pte' = TransCreate(newpte, Field(pte, HwPfn))
  /\ UNCHANGED pager_state

(* do_fault(), and back.                                                   *)
Restore ==
  /\ Characterise(pte) = "Trans"
  /\ pte' = HwCreate(Field(pte, Payload), FALSE)
  /\ UNCHANGED pager_state

(* steal_page(), with the drumslot of the page.                            *)
Steal(drumslot) ==
  /\ Characterise(pte) = "Trans"
  /\ \E newpte \in Junk : pte' = SwapCreate(newpte, BitsOf(drumslot))
  /\ UNCHANGED pager_state

(* do_fault() for a swap PTE.                                              *)
BeginRead(state) ==
  /\ Characterise(pte) = "Swap"
  /\ \E newpte \in Junk : pte' = BusyCreate(newpte, state)
  /\ pager_state' = state

(* do_fault() when the page has been read; pager_state goes out of scope.  *)
EndRead(p) ==
  /\ Characterise(pte) = "Busy"
  /\ pte' = HwCreate(BitsOf(p), FALSE)
  /\ pager_state' = {}

(* vmp_md_delete_table_pointers().                                         *)
Delete ==
  /\ Characterise(pte) = "Valid"
  /\ pte' = ZeroCreate
  /\ UNCHANGED pager_state

Next ==
  \/ \E p \in 0 .. NPages - 1 : EndRead(p) \/ \E w \in BOOLEAN : EnterPage(p, w)
  \/ MakeWriteable \/ Evict \/ Restore \/ Delete
  \/ \E s \in -1 .. NSlots - 1 : Steal(s)
  \/ \E a \in PagerStates : BeginRead(a)

Spec == Init /\ [][Next]_vars
-----------------------------------------------------------------------------
(* The number with the given bits; -1 has lost its top three in a payload. *)
NumberOf(bits) == IF bits = 0 .. 60 THEN -1 ELSE MapThenSumSet(LAMBDA b : 2^b, bits)

(* What the code reads from the word, as a record of VmState.              *)
PteOf(w) ==
  LET kind == Characterise(w)
  IN  [kind      |-> kind,
       page      |-> CASE kind = "Valid" -> NumberOf(Field(w, HwPfn))
                       [] kind = "Trans" -> NumberOf(Field(w, Payload))
                       [] OTHER -> 0,
       writeable |-> kind = "Valid" /\ Field(w, HwWriteable) # {},
       slot      |-> IF kind = "Swap" THEN NumberOf(Field(w, Payload)) ELSE 0]

Cell == INSTANCE PteCell
  WITH pte <- PteOf(pte), DrumSlots <- 0 .. NSlots - 1, NPages <- NPages,
       Levels <- 4, Entries <- 512, WsPageExpansionCount <- 4,
       MinAvailForExpansion <- 8, MinAvailForAlloc <- 4, WsMaxInitial <- 4,
       ModifiedSignal <- 4, Data <- {}

(* Read back with vmp_pte_characterise() and the bit fields, a word is the *)
(* PTE that the functions of vmpsoft.h were to make, whatever was on the   *)
(* stack: the four formats do not run into one another, except that slot 0 *)
(* gives the zero PTE.                                                     *)
WordIsPte == Cell!CellSpec

(* A busy PTE holds the whole pointer to its pager_state.                  *)
BusyNamesPager == Characterise(pte) = "Busy" => BusyState(pte) = pager_state
=============================================================================
