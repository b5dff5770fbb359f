------------------------------ MODULE WsLinks ------------------------------
(***************************************************************************)
(* vm/ws.c as the C structures it is made of: every entry is a node of a   *)
(* rank-balanced tree, found by its vaddr, and the ones that are not       *)
(* locked are linked in a tail queue as well.  The bounds on the list, and *)
(* what is done to the page of an entry, are in the module WorkingSet.     *)
(*                                                                         *)
(* The functions are called as the rest of the code calls them: an entry   *)
(* is inserted when it is not there, locked or removed when it is queued   *)
(* and unlocked when it is not, which are the sites ws.c:107, 135, 137,    *)
(* 145, 146, 154 and 155 of OnlyKnownPanics in VmmProps.                   *)
(***************************************************************************)
EXTENDS Integers, Sequences, SequencesExt

CONSTANTS
  NKeys,        \* the vaddrs are 1 .. NKeys
  MaxQueued     \* bound on the length of the queue

ASSUME LinksAssumption == NKeys \in Nat \ {0} /\ MaxQueued \in Nat \ {0}

Keys == 1 .. NKeys

VARIABLES tree, tailq, nlocked     \* ps->wsl.tree, .queue and .nlocked

vars == << tree, tailq, nlocked >>

(* Faulty: the difference is taken the wrong way round for neighbours.     *)
WsleCmpNeighbours(x, y) == IF x = y + 1 THEN -1 ELSE x - y

(* wsle_cmp(): the difference of two vaddrs, which fits an intptr_t.       *)
WsleCmp(x, y) == x - y

Tree == INSTANCE RbTree WITH Nodes <- Keys, Null <- 0, Cmp <- WsleCmp
List == INSTANCE Tailq WITH Nodes <- Keys, Null <- 0, TheHead <- -1

Entries == Tree!RbMembers(tree)
Queued  == List!TailqForeach(tailq)
IsQueued(k) == Contains(Queued, k)

Init == tree = Tree!RbInit /\ tailq = List!TailqInit /\ nlocked = 0

(* The queue links of k after its removal: what they hold is not read      *)
(* before an insertion overwrites it, and is forgotten here.               *)
Dequeue(q, k) == [List!TailqRemove(q, k) EXCEPT !.node[k] = List!Unlinked]

(* The entry k is freed, links and all.                                    *)
FreeNode(t, q, k) ==
  [tree  |-> [Tree!RbRemove(t, k) EXCEPT !.link[k] = Tree!Entry(0)],
   tailq |-> Dequeue(q, k)]

(* wsl_trim_1() of a queue that is not empty; its caller frees the entry   *)
(* or uses it again.                                                       *)
Trimmed == FreeNode(tree, tailq, List!TailqFirst(tailq))

(* The second half of vmp_wsl_insert().                                    *)
Add(s, k, locked) ==
  /\ tree' = Tree!RbInsert(s.tree, k)
  /\ tailq' = IF locked THEN s.tailq ELSE List!TailqInsertTail(s.tailq, k)
  /\ nlocked' = IF locked THEN nlocked + 1 ELSE nlocked

InsertEntry(k, locked) ==
  /\ k \notin Entries
  /\ ~locked => Len(Queued) < MaxQueued
  /\ Add([tree |-> tree, tailq |-> tailq], k, locked)

(* vmp_wsl_insert() when the list is full and may not grow.                *)
InsertTrimming(k, locked) ==
  /\ k \notin Entries
  /\ List!TailqFirst(tailq) # 0
  /\ Add(Trimmed, k, locked)

(* vmp_wsl_trim_n(), one entry.                                            *)
TrimEntry ==
  /\ List!TailqFirst(tailq) # 0
  /\ tree' = Trimmed.tree /\ tailq' = Trimmed.tailq
  /\ UNCHANGED nlocked

(* vmp_wsl_lock_entry(), vmp_wsl_unlock_entry() and vmp_wsl_remove() look  *)
(* the entry up in the tree.                                               *)
LockEntry(k) ==
  /\ IsQueued(k)
  /\ tailq' = Dequeue(tailq, Tree!RbFind(tree, k))
  /\ nlocked' = nlocked + 1
  /\ UNCHANGED tree

UnlockEntry(k) ==
  /\ k \in Entries /\ ~IsQueued(k)
  /\ Len(Queued) < MaxQueued
  /\ tailq' = List!TailqInsertTail(tailq, Tree!RbFind(tree, k))
  /\ nlocked' = nlocked - 1
  /\ UNCHANGED tree

RemoveEntry(k) ==
  LET s == FreeNode(tree, tailq, Tree!RbFind(tree, k))
  IN  /\ IsQueued(k)
      /\ tree' = s.tree /\ tailq' = s.tailq
      /\ UNCHANGED nlocked

Next ==
  \/ \E k \in Keys, locked \in BOOLEAN : InsertEntry(k, locked) \/ InsertTrimming(k, locked)
  \/ \E k \in Keys : LockEntry(k) \/ UnlockEntry(k) \/ RemoveEntry(k)
  \/ TrimEntry

Spec == Init /\ [][Next]_vars
-----------------------------------------------------------------------------
(* The tree of entries stays balanced, as the self check RB_RANK of the    *)
(* header has it, linked both ways and in the order of the vaddrs, through *)
(* every rotation of an insertion or a removal.                            *)
TreeSound == Tree!RbSound(tree)

(* vmp_wsl_find() finds the entries and nothing else.                      *)
FindExact ==
  \A k \in Keys : Tree!RbFind(tree, k) = IF k \in Entries THEN k ELSE 0

(* The two linked structures together are the set and the queue that the   *)
(* other modules take the working set list for.                            *)
Abstract == INSTANCE WsList WITH entries <- Entries, queue <- Queued

LinksAreList == Abstract!ListSpec
=============================================================================
