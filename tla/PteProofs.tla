----------------------------- MODULE PteProofs -----------------------------
(***************************************************************************)
(* What vmpsoft.h writes into a word is what it reads from it, for every   *)
(* page number, slot and pointer, whatever was on the stack.               *)
(***************************************************************************)
EXTENDS PteBits, TLAPS

(* vmp_pte_hw_create(): valid is read back, whatever the page number.      *)
LEMMA HwReads ==
  ASSUME NEW pfn, NEW writeable
  PROVE  Characterise(HwCreate(pfn, writeable)) = "Valid"
<1> DEFINE w == HwCreate(pfn, writeable)
<1>1. 0 \in w
  BY DEF HwCreate, SetField, HwValid, HwWriteable, HwPfn
<1> HIDE DEF w
<1>2. w # {} /\ Field(w, HwValid) # {}
  BY <1>1 DEF Field, HwValid
<1> QED
  BY <1>2 DEF Characterise, w

(* The bits of a soft PTE: valid is clear, kind is what was stored and the *)
(* payload is what fits of the value.                                      *)
LEMMA SoftReads ==
  ASSUME NEW newpte \in SUBSET Word, NEW kind \in {KindSwap, KindBusy, KindTrans}, NEW val
  PROVE  /\ Field(SoftCreate(newpte, kind, val), HwValid) = {}
         /\ Field(SoftCreate(newpte, kind, val), Kind) = kind
         /\ \A b : b \in Field(SoftCreate(newpte, kind, val), Payload)
                    <=> (b \in val /\ b \in 0 .. 60)
<1>1. kind \in SUBSET {0, 1}
  BY DEF KindSwap, KindBusy, KindTrans
<1> DEFINE w == SoftCreate(newpte, kind, val)
           a == SetField(newpte, SoftValid, {})
           b == SetField(a, Kind, kind)
<1>2. a = newpte \ {0}
  BY DEF SetField, SoftValid
<1>3. b = (a \ {62, 63}) \cup {62 + k : k \in kind}
  <2>1. 62 .. 62 + 2 - 1 = {62, 63}
    OBVIOUS
  <2>2. kind \cap (0 .. 2 - 1) = kind
    <3>1. 0 .. 2 - 1 = {0, 1}
      OBVIOUS
    <3> QED
      BY <1>1, <3>1
  <2> QED
    BY <2>1, <2>2 DEF SetField, Kind
<1>4. w = (b \ (1 .. 61)) \cup {1 + v : v \in val \cap (0 .. 60)}
  <2>1. 1 + 61 - 1 = 61 /\ 61 - 1 = 60
    OBVIOUS
  <2> QED
    BY <2>1 DEF SoftCreate, SetField, Payload
<1> HIDE DEF a, b, w
<1>5. w \subseteq Word /\ 0 \notin w
  <2>1. b \subseteq Word /\ 0 \notin b
    <3>1. ASSUME NEW k \in kind PROVE 62 + k \in Word /\ 62 + k # 0
      BY <1>1 DEF Word
    <3> QED
      BY <1>2, <1>3, <3>1
  <2>2. ASSUME NEW v \in val \cap (0 .. 60) PROVE 1 + v \in Word /\ 1 + v # 0
    BY DEF Word
  <2> QED
    BY <1>4, <2>1, <2>2
<1>6. Field(w, HwValid) = {}
  BY <1>5 DEF Field, HwValid, Word
<1>7. Field(w, Kind) = kind
  <2>1. \A k \in {0, 1} : k + 62 \in w <=> k \in kind
    BY <1>1, <1>2, <1>3, <1>4 DEF Word
  <2>2. Field(w, Kind) = {c - 62 : c \in {d \in w : 62 <= d /\ d < 64}}
    BY DEF Field, Kind
  <2>3. \A c \in w : 62 <= c /\ c < 64 => c = 62 \/ c = 63
    BY <1>5 DEF Word
  <2>4. ASSUME NEW k \in kind PROVE k \in Field(w, Kind)
    <3>1. k + 62 \in w /\ 62 <= k + 62 /\ k + 62 < 64 /\ (k + 62) - 62 = k
      BY <2>1, <1>1
    <3> QED
      BY <2>2, <3>1
  <2>5. ASSUME NEW k \in Field(w, Kind) PROVE k \in kind
    BY <2>1, <2>2, <2>3
  <2> QED
    BY <2>4, <2>5
<1>8. Field(w, Payload) = val \cap (0 .. 60)
  <2>1. \A v \in 0 .. 60 : v + 1 \in w <=> v \in val
    BY <1>1, <1>2, <1>3, <1>4 DEF Word
  <2>2. Field(w, Payload) = {c - 1 : c \in {d \in w : 1 <= d /\ d < 62}}
    BY DEF Field, Payload
  <2>3. \A c \in w : 1 <= c /\ c < 62 => c - 1 \in 0 .. 60 /\ c = (c - 1) + 1
    BY <1>5 DEF Word
  <2>4. ASSUME NEW v \in val \cap (0 .. 60) PROVE v \in Field(w, Payload)
    <3>1. v + 1 \in w /\ 1 <= v + 1 /\ v + 1 < 62 /\ (v + 1) - 1 = v
      BY <2>1
    <3> QED
      BY <2>2, <3>1
  <2>5. ASSUME NEW v \in Field(w, Payload) PROVE v \in val \cap (0 .. 60)
    BY <2>1, <2>2, <2>3
  <2> QED
    BY <2>4, <2>5
<1> QED
  BY <1>6, <1>7, <1>8 DEF w

(* newpte before it is assigned to is some word.                           *)
LEMMA JunkIsWord == Junk \subseteq SUBSET Word
  BY DEF Junk

(* vmp_pte_trans_create() and vmp_pte_swap_create() do not make a busy     *)
(* PTE.                                                                    *)
LEMMA SoftKinds ==
  ASSUME NEW newpte \in Junk, NEW val
  PROVE  /\ Characterise(TransCreate(newpte, val)) = "Trans"
         /\ Characterise(SwapCreate(newpte, val)) \in {"Zero", "Swap"}
<1>1. newpte \in SUBSET Word
  BY JunkIsWord
<1>2. Characterise(TransCreate(newpte, val)) = "Trans"
  <2> DEFINE w == TransCreate(newpte, val)
  <2>1. Field(w, HwValid) = {} /\ Field(w, Kind) = KindTrans
    BY <1>1, SoftReads DEF TransCreate
  <2> HIDE DEF w
  <2>2. w # {}
    BY <2>1 DEF Field, KindTrans
  <2> QED
    BY <2>1, <2>2, {0} # {1} DEF Characterise, KindTrans, KindBusy, KindSwap, w
<1>3. Characterise(SwapCreate(newpte, val)) \in {"Zero", "Swap"}
  <2> DEFINE w == SwapCreate(newpte, val)
  <2>1. Field(w, HwValid) = {} /\ Field(w, Kind) = KindSwap
    BY <1>1, SoftReads DEF SwapCreate
  <2> HIDE DEF w
  <2> QED
    BY <2>1 DEF Characterise, KindTrans, KindBusy, KindSwap, w
<1> QED
  BY <1>2, <1>3

(* vmp_pte_busy_create(): the pointer, aligned as malloc() aligns it, is   *)
(* read back whole.                                                        *)
LEMMA BusyReads ==
  ASSUME NEW newpte \in Junk, NEW state \in PagerStates
  PROVE  BusyState(BusyCreate(newpte, state)) = state
<1> DEFINE val == {b - 3 : b \in state \cap (3 .. 63)}
           w == BusyCreate(newpte, state)
<1>1. state \subseteq 3 .. 63
  BY PteAssumption
<1>2. val \subseteq 0 .. 60
  BY <1>1
<1>3. Field(w, Payload) = val \cap (0 .. 60)
  <2>1. newpte \in SUBSET Word
    BY JunkIsWord
  <2>2. w = SoftCreate(newpte, KindBusy, val)
    BY DEF BusyCreate
  <2> HIDE DEF val, w
  <2>3. \A v, b : b \in Field(SoftCreate(newpte, KindBusy, v), Payload)
                   <=> (b \in v /\ b \in 0 .. 60)
    BY <2>1, SoftReads
  <2> QED
    BY <2>2, <2>3
<1> HIDE DEF w
<1>4. BusyState(w) = {b + 3 : b \in val}
  BY <1>2, <1>3 DEF BusyState
<1>5. ASSUME NEW b \in state PROVE b \in {v + 3 : v \in val}
  <2>1. b \in 3 .. 63 /\ b - 3 \in val /\ (b - 3) + 3 = b
    BY <1>1
  <2> QED
    BY <2>1
<1>6. ASSUME NEW c \in {v + 3 : v \in val} PROVE c \in state
  BY <1>1
<1> QED
  BY <1>4, <1>5, <1>6 DEF w

-----------------------------------------------------------------------------
(* A busy PTE holds the whole pointer to its pager_state, whatever         *)
(* pointers malloc() returns, whatever the stack held when do_fault() made *)
(* the PTE, and through every other use of the word.                       *)
THEOREM BusyPteNamesPager == Spec => []BusyNamesPager
<1>1. Init => BusyNamesPager
  BY DEF Init, BusyNamesPager, ZeroCreate, Characterise
<1>2. BusyNamesPager /\ [Next]_vars => BusyNamesPager'
  <2> SUFFICES ASSUME BusyNamesPager, [Next]_vars PROVE BusyNamesPager'
    OBVIOUS
  <2>1. ASSUME NEW p, NEW w, EnterPage(p, w) PROVE BusyNamesPager'
    BY <2>1, HwReads DEF EnterPage, BusyNamesPager
  <2>2. CASE MakeWriteable
    <3>1. PICK c \in pte : 0 <= c /\ c < 0 + 1
      BY <2>2 DEF MakeWriteable, Characterise, Field, HwValid
    <3>2. c \in pte'
      BY <2>2, <3>1 DEF MakeWriteable, SetField, HwWriteable
    <3>3. pte' # {} /\ Field(pte', HwValid) # {}
      BY <3>1, <3>2 DEF Field, HwValid
    <3> QED
      BY <3>3 DEF BusyNamesPager, Characterise
  <2>3. CASE Evict
    BY <2>3, SoftKinds DEF Evict, BusyNamesPager
  <2>4. CASE Restore
    BY <2>4, HwReads, Zenon DEF Restore, BusyNamesPager
  <2>5. ASSUME NEW s, Steal(s) PROVE BusyNamesPager'
    BY <2>5, SoftKinds DEF Steal, BusyNamesPager
  <2>6. ASSUME NEW a \in PagerStates, BeginRead(a) PROVE BusyNamesPager'
    BY <2>6, BusyReads DEF BeginRead, BusyNamesPager
  <2>7. ASSUME NEW p, EndRead(p) PROVE BusyNamesPager'
    BY <2>7, HwReads DEF EndRead, BusyNamesPager
  <2>8. CASE Delete
    BY <2>8 DEF Delete, BusyNamesPager, ZeroCreate, Characterise
  <2>9. CASE UNCHANGED vars
    BY <2>9 DEF vars, BusyNamesPager, Characterise, BusyState, Field
  <2> QED
    BY <2>1, <2>2, <2>3, <2>4, <2>5, <2>6, <2>7, <2>8, <2>9 DEF Next
<1> QED
  BY <1>1, <1>2, PTL DEF Spec
=============================================================================
