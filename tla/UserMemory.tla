----------------------------- MODULE UserMemory -----------------------------
(***************************************************************************)
(* What the process is promised: the contents of each of its addresses,    *)
(* with no pages, tables, queues or threads.  An address is nowhere until  *)
(* it is touched, then in core, where only the program changes it, or on   *)
(* the drum.  A page in core may have been given a slot of the drum.       *)
(*                                                                         *)
(* Contents are lost in three places, which are those where the code loses *)
(* them and the only ones: a page that owns slot 0 is forgotten, since its *)
(* swap PTE is the word 0; a page that could get no slot of a full drum    *)
(* leaves nothing behind; and the read that brings a page back may bring   *)
(* zeroes.                                                                 *)
(***************************************************************************)
EXTENDS Integers

CONSTANTS Addresses, Words, DrumSlots

NoDrumSlot == -1

VARIABLES
  mem,        \* mem[a]: what address a holds, where it is, and its drum slot
  full        \* no slot of the drum is left

memVars == << mem, full >>

Cell(w, d, s) == [where |-> w, data |-> d, slot |-> s]

Nowhere == Cell("nowhere", 0, NoDrumSlot)

MemInit ==
  /\ mem = [a \in Addresses |-> Nowhere]
  /\ full = FALSE

(* What may become of a cell c in one step: it is then d.                  *)
Touch(c, d) == c = Nowhere /\ d = Cell("core", 0, NoDrumSlot)

Store(c, d) == c.where = "core" /\ \E x \in Words : d = [c EXCEPT !.data = x]

(* The page writer takes a slot nobody has.                                *)
GiveSlot(c, d) ==
  /\ c.where = "core" /\ c.slot = NoDrumSlot
  /\ \E s \in DrumSlots :
       d = [c EXCEPT !.slot = s] /\ \A b \in Addresses : mem[b].slot # s

SwapOut(c, d) ==
  c.where = "core" /\ c.slot \in DrumSlots \ {0} /\ d = [c EXCEPT !.where = "drum"]

Forget(c, d) == c.where = "core" /\ c.slot = 0 /\ d = Nowhere

DropUnsaved(c, d) ==
  /\ c.where = "core" /\ c.slot = NoDrumSlot
  /\ c.data = 0 \/ full
  /\ d = Cell("drum", 0, NoDrumSlot)

StartRead(c, d) == c.where = "drum" /\ d = [c EXCEPT !.where = "reading"]

(* The slot is not given back.                                             *)
EndRead(c, d) ==
  c.where = "reading" /\ \E x \in {c.data, 0} : d = Cell("core", x, NoDrumSlot)

LosesPage(c, d) == SwapOut(c, d) \/ Forget(c, d) \/ DropUnsaved(c, d)

Moves(c, d) ==
  \/ Touch(c, d) \/ Store(c, d) \/ GiveSlot(c, d) \/ StartRead(c, d) \/ EndRead(c, d)

(* One address is accessed or cleaned at a time, and others may lose their *)
(* pages to it.                                                            *)
MemNext ==
  /\ \E a \in Addresses :
       /\ mem[a] = mem'[a] \/ Moves(mem[a], mem'[a])
       /\ \A b \in Addresses \ {a} : mem[b] = mem'[b] \/ LosesPage(mem[b], mem'[b])
  /\ full => full'

MemSpec == MemInit /\ [][MemNext]_memVars
=============================================================================
