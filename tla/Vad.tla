-------------------------------- MODULE Vad --------------------------------
(***************************************************************************)
(* vm/vad.c: the address ranges of a process, in a rank-balanced tree      *)
(* whose comparison looks for the start of one range within another.       *)
(* Addresses are words of AddrBits bits.  Nothing takes a range out again. *)
(***************************************************************************)
EXTENDS Integers, Sequences

CONSTANTS
  AddrBits,     \* the width of a vaddr_t, 64 in the build
  Sizes,        \* the sizes that are asked for
  NVads         \* bound on the number of ranges

ASSUME VadAssumption ==
  AddrBits \in Nat /\ Sizes \subseteq Nat /\ NVads \in Nat \ {0}

VAddrs == 0 .. 2^AddrBits - 1

VARIABLES
  vad,          \* the vm_vad_t of each range, in the order of allocation
  vad_tree,     \* ps->vad_tree, of indexes of vad
  vad_lock      \* ps->vad_lock: the range that its holder maps, or 0

vars == << vad, vad_tree, vad_lock >>

(* The key of vmp_ps_vad_find() is a vm_vad_t of which only the start is   *)
(* set.  The number below zero stands for it.                              *)
Key(vaddr) == -1 - vaddr

Start(x) == IF x < 0 THEN -1 - x ELSE vad[x].start

(* Faulty: the end of a range is taken to be in the range.                 *)
VadCmpClosed(x, y) ==
  IF Start(x) < vad[y].start THEN -1 ELSE IF Start(x) > vad[y].end THEN 1 ELSE 0

(* vmp_vad_cmp().                                                          *)
VadCmp(x, y) ==
  IF Start(x) < vad[y].start THEN -1 ELSE IF Start(x) >= vad[y].end THEN 1 ELSE 0

Tree == INSTANCE RbTree WITH Nodes <- 1 .. NVads, Null <- 0, Cmp <- VadCmp

(* vmp_ps_vad_find(), which its caller do_fault() asserts to be not NULL.  *)
VadFind(vaddr) == Tree!RbFind(vad_tree, Key(vaddr))

Init == vad = << >> /\ vad_tree = Tree!RbInit /\ vad_lock = 0

(* Faulty: the end is the size.                                            *)
VadOfSize(vaddr, size, exact) ==
  [start |-> vaddr, end |-> size, size |-> size, exact |-> exact]

(* The vm_vad_t of a range: an address is not chosen, it is 0 unless the   *)
(* caller insists on another, and the sum wraps round.  What was asked for *)
(* is not in the structure, and is kept for the properties.                *)
VadOf(vaddr, size, exact) ==
  LET addr == IF exact THEN vaddr ELSE 0
  IN  [start |-> addr, end |-> (addr + size) % 2^AddrBits, size |-> size, exact |-> exact]

(* vm_ps_allocate() and vm_ps_map_section_view(), up to RB_INSERT.         *)
MapSectionView(vaddr, size, exact) ==
  /\ vad_lock = 0
  /\ Len(vad) < NVads
  /\ vad' = Append(vad, VadOf(vaddr, size, exact))
  /\ vad_lock' = Len(vad')
  /\ UNCHANGED vad_tree

(* RB_INSERT, whose result is not looked at, and the return of 0.          *)
InsertVad ==
  /\ vad_lock # 0
  /\ vad_tree' = Tree!RbInsert(vad_tree, vad_lock)
  /\ vad_lock' = 0
  /\ UNCHANGED vad

Next ==
  \/ \E vaddr \in VAddrs, size \in Sizes, exact \in BOOLEAN : MapSectionView(vaddr, size, exact)
  \/ InsertVad

Spec == Init /\ [][Next]_vars
-----------------------------------------------------------------------------
Mapped == (1 .. Len(vad)) \ {vad_lock}

(* x is one of the addresses that range i was asked for.                   *)
Asked(i, x) == x \in vad[i].start .. vad[i].start + vad[i].size - 1

Wraps(i) == vad[i].start + vad[i].size >= 2^AddrBits

Apart(i, j) ==
  \/ vad[i].start + vad[i].size <= vad[j].start
  \/ vad[j].start + vad[j].size <= vad[i].start

(* Whatever ranges are asked for, overlapping, empty or up to the top of   *)
(* the address space, RB_INSERT with a comparison that is no order keeps   *)
(* the tree balanced and the starts ascending, and vmp_ps_vad_find()       *)
(* returns no range that the address was not asked for in.                 *)
VadTreeSound ==
  /\ Tree!RbLinked(vad_tree)
  /\ \E s \in {Tree!InOrder(vad_tree, vad_tree.root)} :
       \A i \in 2 .. Len(s) : vad[s[i - 1]].start <= vad[s[i]].start
  /\ \A x \in VAddrs : \A i \in {VadFind(x)} \ {0} : Asked(i, x)

(* As long as the ranges are apart and end below the top of the address    *)
(* space, vmp_ps_vad_find() finds for each address the range it is in: the *)
(* assertion in do_fault() holds for the addresses that were allocated.    *)
VadsFound ==
  (\A i \in Mapped : ~Wraps(i) /\ \A j \in Mapped \ {i} : Apart(i, j)) =>
    \A x \in VAddrs :
      {VadFind(x)} \ {0} = {i \in Mapped : Asked(i, x)}

(* What vmp_vad_cmp() relies on by its comment, allocation "already        *)
(* ensures there are no overlaps", of the ranges whose address             *)
(* vm_ps_map_section_view() is left to choose.                             *)
NoOverlaps ==
  \A i, j \in {k \in Mapped : ~vad[k].exact} : i # j => Apart(i, j)
=============================================================================
