------------------------------ MODULE Pagefile ------------------------------
(***************************************************************************)
(* The slots of the paging file, vm/pgwriter.c.  Nothing gives a slot      *)
(* back.  bitmap is the set of the slots whose bit is set.                 *)
(***************************************************************************)
EXTENDS Integers, FiniteSets, FiniteSetsExt

CONSTANT NSlots             \* total_slots, 256 in the build

ASSUME PagefileAssumption == NSlots \in Nat \ {0}

Slots == 0 .. NSlots - 1

PagefileStates == [bitmap : SUBSET Slots, free_slots : Int, next_free : Slots]

(* init_vmp_pagefile().                                                    *)
PagefileInit == [bitmap |-> {}, free_slots |-> NSlots, next_free |-> 0]

(* The search of vmp_pagefile_alloc(), around the bitmap from next_free.   *)
Probe(f, i) == (f.next_free + i) % NSlots

FreeProbes(f) == {i \in Slots : Probe(f, i) \notin f.bitmap}

HasSlot(f) == f.free_slots # 0 /\ FreeProbes(f) # {}

(* vmp_pagefile_alloc(): its result, -1 if there is none, ...              *)
PagefileSlot(f) == IF HasSlot(f) THEN Probe(f, Min(FreeProbes(f))) ELSE -1

(* Faulty: next_free runs off the end of the bitmap.                       *)
PagefileAllocNoWrap(f) ==
  IF ~HasSlot(f) THEN f
  ELSE [bitmap     |-> f.bitmap \cup {PagefileSlot(f)},
        free_slots |-> f.free_slots - 1,
        next_free  |-> PagefileSlot(f) + 1]

(* ... and the state it leaves.                                            *)
PagefileAlloc(f) ==
  IF ~HasSlot(f) THEN f
  ELSE [bitmap     |-> f.bitmap \cup {PagefileSlot(f)},
        free_slots |-> f.free_slots - 1,
        next_free  |-> (PagefileSlot(f) + 1) % NSlots]
=============================================================================
