------------------------------- MODULE WsList -------------------------------
(***************************************************************************)
(* What the working set list is to the rest of the virtual memory manager, *)
(* and to the module WorkingSet: a set of entries, and the queue of those  *)
(* that may be evicted, oldest first; the others are counted as locked.    *)
(***************************************************************************)
EXTENDS Integers, Sequences, SequencesExt

CONSTANT Keys

VARIABLES entries, queue, nlocked

listVars == << entries, queue, nlocked >>

ListInit == entries = {} /\ queue = << >> /\ nlocked = 0

Enter(es, q, k, locked) ==
  /\ entries' = es \cup {k}
  /\ queue' = IF locked THEN q ELSE Append(q, k)
  /\ nlocked' = IF locked THEN nlocked + 1 ELSE nlocked

AddEntry(k, locked) == k \notin entries /\ Enter(entries, queue, k, locked)

(* The oldest entry makes room for k.                                      *)
ReplaceEntry(k, locked) ==
  /\ k \notin entries /\ queue # << >>
  /\ Enter(entries \ {Head(queue)}, Tail(queue), k, locked)

Evict ==
  /\ queue # << >>
  /\ entries' = entries \ {Head(queue)} /\ queue' = Tail(queue)
  /\ UNCHANGED nlocked

LockEntry(k) ==
  /\ Contains(queue, k) /\ queue' = Remove(queue, k)
  /\ nlocked' = nlocked + 1 /\ UNCHANGED entries

UnlockEntry(k) ==
  /\ k \in entries /\ ~Contains(queue, k) /\ queue' = Append(queue, k)
  /\ nlocked' = nlocked - 1 /\ UNCHANGED entries

RemoveEntry(k) ==
  /\ Contains(queue, k) /\ queue' = Remove(queue, k)
  /\ entries' = entries \ {k} /\ UNCHANGED nlocked

ListNext ==
  \/ \E k \in Keys, locked \in BOOLEAN : AddEntry(k, locked) \/ ReplaceEntry(k, locked)
  \/ \E k \in Keys : LockEntry(k) \/ UnlockEntry(k) \/ RemoveEntry(k)
  \/ Evict

ListSpec == ListInit /\ [][ListNext]_listVars
=============================================================================
