------------------------------- MODULE Tailq -------------------------------
(***************************************************************************)
(* The tail queues of kdk/queue.h, which hold the pages of each state and  *)
(* the working set list entries that may be evicted.  tqh_last and         *)
(* tqe_prev are addresses of links: that of the queue's first element, or  *)
(* of the next element of a node.                                          *)
(***************************************************************************)
EXTENDS Integers, Sequences, FiniteSets

CONSTANTS
  Nodes,        \* the structures that may be linked into a queue
  Null,         \* NULL
  TheHead       \* &tqh_first, as the address of a link

(* A node that is on no queue, fresh from kmem_alloc().                    *)
Unlinked == [next |-> Null, prev |-> TheHead]

(* TAILQ_INIT.                                                             *)
TailqInit == [first |-> Null, last |-> TheHead, node |-> [n \in Nodes |-> Unlinked]]

(* The store of v in the link at address a.                                *)
StoreLink(q, a, v) ==
  IF a = TheHead THEN [q EXCEPT !.first = v] ELSE [q EXCEPT !.node[a].next = v]

TailqFirst(q) == q.first

TailqInsertTail(q, e) ==
  LET u == [q EXCEPT !.node[e] = [next |-> Null, prev |-> q.last]]
  IN  [StoreLink(u, q.last, e) EXCEPT !.last = e]

(* Faulty: the last element leaves tqh_last behind.                        *)
TailqRemoveNotLast(q, e) ==
  LET n == q.node[e]
      u == IF n.next # Null THEN [q EXCEPT !.node[n.next].prev = n.prev] ELSE q
  IN  StoreLink(u, n.prev, n.next)

TailqRemove(q, e) ==
  LET n == q.node[e]
      u == IF n.next # Null THEN [q EXCEPT !.node[n.next].prev = n.prev]
                            ELSE [q EXCEPT !.last = n.prev]
  IN  StoreLink(u, n.prev, n.next)

RECURSIVE WalkFrom(_, _, _)

WalkFrom(q, n, limit) ==
  IF n = Null \/ limit = 0 THEN << >>
  ELSE << n >> \o WalkFrom(q, q.node[n].next, limit - 1)

(* TAILQ_FOREACH, at most one element more than there are nodes.           *)
TailqForeach(q) == WalkFrom(q, q.first, Cardinality(Nodes) + 1)
=============================================================================
