------------------------------- MODULE RbTree -------------------------------
(***************************************************************************)
(* The rank-balanced trees of kdk/tree.h, which hold the working set list  *)
(* entries and the VADs of a process, link by link.  A node has two        *)
(* children, a parent, and in the low bits of its parent link the          *)
(* directions in which its edges are "long": the rank of a node is that of *)
(* a child plus one, or plus two over a long edge.                         *)
(***************************************************************************)
EXTENDS Integers, Sequences, FiniteSets

CONSTANTS
  Nodes,        \* the structures that may be linked into a tree
  Null,         \* NULL
  Cmp(_, _)     \* the cmp given to RB_GENERATE

L  == "L"
R  == "R"
LR == {L, R}

Other(dir) == IF dir = L THEN R ELSE L

(* RB_ENTRY and RB_SET: rbe_link[1], rbe_link[2], and RB_PARENT and the    *)
(* bits of rbe_link[0].                                                    *)
Entry(parent) == [L |-> Null, R |-> Null, up |-> parent, long |-> {}]

(* RB_INIT.                                                                *)
RbInit == [root |-> Null, link |-> [n \in Nodes |-> Entry(Null)]]

Kid(t, n, dir) == t.link[n][dir]
Up(t, n)       == t.link[n].up
Long(t, n)     == t.link[n].long

(* _RB_BITSUP(n) ^= dirs.                                                  *)
Toggle(t, n, dirs) == [t EXCEPT !.link[n].long = (@ \ dirs) \cup (dirs \ @)]

SetParent(t, n, parent) == IF n = Null THEN t ELSE [t EXCEPT !.link[n].up = parent]

(* RB_ROTATE: tmp, the child of elm away from dir, gets elm for a child.   *)
Rotate(t, elm, tmp, dir) ==
  LET moved == Kid(t, tmp, dir)
      u     == SetParent([t EXCEPT !.link[elm][Other(dir)] = moved], moved, elm)
  IN  SetParent([u EXCEPT !.link[tmp][dir] = elm], elm, tmp)

(* RB_SWAP_CHILD.                                                          *)
SwapChild(t, par, out, in) ==
  CASE par = Null -> [t EXCEPT !.root = in]
    [] par # Null /\ Kid(t, par, L) = out -> [t EXCEPT !.link[par][L] = in]
    [] OTHER -> [t EXCEPT !.link[par][R] = in]

DirOf(t, parent, elm) == IF Kid(t, parent, R) = elm THEN R ELSE L

-----------------------------------------------------------------------------
(* The end of RB_INSERT_COLOR: parent goes below child, which takes its    *)
(* place.                                                                  *)
Raise(t, parent, child, gpar, dir) ==
  SwapChild([Rotate(t, parent, child, dir) EXCEPT !.link[child].up = gpar,
                                                  !.link[child].long = {}],
            gpar, parent, child)

(* Its double rotation: child comes between elm and parent first.          *)
RaiseInner(t, parent, elm, child, elmdir) ==
  LET bits == Long(t, child)
      u    == Rotate(t, elm, child, elmdir)
      v    == IF Other(elmdir) \in bits THEN Toggle(u, parent, {elmdir}) ELSE u
  IN  Toggle(v, elm, IF elmdir \in bits THEN LR ELSE {elmdir})

RECURSIVE InsertColor(_, _, _, _)

(* RB_INSERT_COLOR: the rank of the tree at elm grew.                      *)
InsertColor(t, parent, elm, child) ==
  LET gpar   == Up(t, parent)
      elmdir == DirOf(t, parent, elm)
      sibdir == Other(elmdir)
      flat   == [t EXCEPT !.link[parent].long = {}]
  IN  CASE elmdir \in Long(t, parent) -> Toggle(t, parent, {elmdir})
        [] Long(t, parent) = {} ->
             LET u == Toggle(t, parent, {sibdir})
             IN  IF gpar = Null THEN u ELSE InsertColor(u, gpar, parent, elm)
        [] OTHER ->
             IF elmdir \in Long(t, elm)
             THEN Raise(RaiseInner(flat, parent, elm, child, elmdir),
                        parent, child, gpar, sibdir)
             ELSE Raise(flat, parent, elm, gpar, sibdir)

(* RB_INSERT_FINISH: elm becomes the child of parent in direction dir.     *)
InsertFinish(t, parent, dir, elm) ==
  LET u == [t EXCEPT !.link[elm] = Entry(parent)]
  IN  IF parent = Null THEN [u EXCEPT !.root = elm]
      ELSE InsertColor([u EXCEPT !.link[parent][dir] = elm], parent, elm, Null)

RECURSIVE FindFrom(_, _, _)

FindFrom(t, x, n) ==
  IF n = Null THEN Null
  ELSE CASE Cmp(x, n) < 0 -> FindFrom(t, x, Kid(t, n, L))
         [] Cmp(x, n) > 0 -> FindFrom(t, x, Kid(t, n, R))
         [] OTHER -> n

(* RB_FIND.                                                                *)
RbFind(t, x) == FindFrom(t, x, t.root)

RECURSIVE InsertBelow(_, _, _)

(* The walk of RB_INSERT from n down.                                      *)
InsertBelow(t, n, elm) ==
  LET comp == Cmp(elm, n)
      dir  == IF comp < 0 THEN L ELSE R
  IN  IF comp = 0 THEN t
      ELSE IF Kid(t, n, dir) = Null THEN InsertFinish(t, n, dir, elm)
           ELSE InsertBelow(t, Kid(t, n, dir), elm)

(* RB_INSERT: a node that compares equal to another is not inserted.       *)
RbInsert(t, elm) ==
  IF t.root = Null THEN InsertFinish(t, Null, L, elm) ELSE InsertBelow(t, t.root, elm)

-----------------------------------------------------------------------------
(* The rotations of RB_REMOVE_COLOR, around sib or around its child.       *)
Sink(t, parent, elm, gpar, elmdir) ==
  SwapChild(SetParent(Rotate(t, parent, elm, elmdir), elm, gpar), gpar, parent, elm)

SinkOuter(t, parent, sib, gpar, elmdir) ==
  LET u == IF elmdir \in Long(t, sib) THEN Toggle(t, parent, {elmdir}) ELSE t
  IN  Sink(Toggle(u, sib, {Other(elmdir)}), parent, sib, gpar, elmdir)

SinkInner(t, parent, sib, gpar, elmdir) ==
  LET sibdir == Other(elmdir)
      elm    == Kid(t, sib, elmdir)
      bits   == Long(t, elm)
      u      == Toggle(Rotate(t, sib, elm, sibdir), parent,
                       IF elmdir \in bits THEN LR ELSE {elmdir})
      v      == Toggle(u, sib, IF sibdir \in bits THEN LR ELSE {sibdir})
  IN  Sink([v EXCEPT !.link[elm].long = LR], parent, elm, gpar, elmdir)

(* Faulty: the sibling's edges stay long when its parent is demoted.       *)
DemoteSibNot(t, sib) == t

DemoteSib(t, sib) == [t EXCEPT !.link[sib].long = {}]

RECURSIVE RemoveFix(_, _, _)

(* The loop of RB_REMOVE_COLOR: the rank of the tree at elm shrank.        *)
RemoveFix(t, parent, elm) ==
  LET gpar   == Up(t, parent)
      elmdir == DirOf(t, parent, elm)
      sibdir == Other(elmdir)
      sib    == Kid(t, parent, sibdir)
      Retry(u) == IF gpar = Null THEN u ELSE RemoveFix(u, gpar, parent)
  IN  CASE elmdir \notin Long(t, parent) -> Toggle(t, parent, {elmdir})
        [] Long(t, parent) = LR ->
             Retry([t EXCEPT !.link[parent].long = {elmdir}])
        [] OTHER ->
             IF Long(t, sib) = LR THEN Retry(DemoteSib(t, sib))
             ELSE IF sibdir \in Long(t, sib)
                  THEN SinkInner(t, parent, sib, gpar, elmdir)
                  ELSE SinkOuter(t, parent, sib, gpar, elmdir)

(* RB_REMOVE_COLOR: a parent that is a leaf now is demoted first.          *)
RemoveColor(t, parent, elm) ==
  IF Kid(t, parent, L) = elm /\ Kid(t, parent, R) = elm
  THEN LET u == [t EXCEPT !.link[parent].long = {}]
       IN  IF Up(t, parent) = Null THEN u ELSE RemoveFix(u, Up(t, parent), parent)
  ELSE RemoveFix(t, parent, elm)

RECURSIVE Leftmost(_, _)

Leftmost(t, n) == IF Kid(t, n, L) = Null THEN n ELSE Leftmost(t, Kid(t, n, L))

(* The node after out takes its place and its links; below it is what has  *)
(* lost a level, in the tree of parent.                                    *)
Replace(t, out) ==
  LET left  == Kid(t, out, L)
      right == Kid(t, out, R)
      in    == Leftmost(t, right)
      child == Kid(t, in, R)
      u     == [SetParent(t, left, in) EXCEPT !.link[in][L] = left]
      par   == Up(t, in)
      v     == IF right = in THEN u
               ELSE [SetParent(u, right, in) EXCEPT !.link[in][R] = right,
                                                    !.link[par][L] = child]
  IN  [tree   |-> [v EXCEPT !.link[in].up = Up(t, out), !.link[in].long = Long(t, out)],
       in     |-> in, child |-> child,
       parent |-> IF right = in THEN in ELSE par]

(* RB_REMOVE.                                                              *)
RbRemove(t, out) ==
  LET left  == Kid(t, out, L)
      right == Kid(t, out, R)
      only  == IF right = Null THEN left ELSE right
      rep   == IF left = Null \/ right = Null
               THEN [tree |-> t, in |-> only, child |-> only, parent |-> Up(t, out)]
               ELSE Replace(t, out)
      u     == SwapChild(rep.tree, Up(t, out), out, rep.in)
      v     == IF rep.child = Null THEN u
               ELSE [u EXCEPT !.link[rep.child].up = rep.parent,
                              !.link[rep.child].long = {}]
  IN  IF rep.parent = Null THEN v ELSE RemoveColor(v, rep.parent, rep.child)

-----------------------------------------------------------------------------
(* RB_MIN and RB_NEXT, from which RB_FOREACH is made.                      *)
RbMin(t) == IF t.root = Null THEN Null ELSE Leftmost(t, t.root)

RECURSIVE Climb(_, _)

Climb(t, n) ==
  IF Up(t, n) # Null /\ Kid(t, Up(t, n), R) = n THEN Climb(t, Up(t, n)) ELSE Up(t, n)

RbNext(t, n) == IF Kid(t, n, R) # Null THEN Leftmost(t, Kid(t, n, R)) ELSE Climb(t, n)

-----------------------------------------------------------------------------
RECURSIVE InOrder(_, _)

(* The nodes of the tree at n from left to right.                          *)
InOrder(t, n) ==
  IF n = Null THEN << >>
  ELSE InOrder(t, Kid(t, n, L)) \o << n >> \o InOrder(t, Kid(t, n, R))

RbMembers(t) == {n \in Nodes : t.root = n \/ \E p \in Nodes, d \in LR : Kid(t, p, d) = n}

EdgeLength(t, n, dir) == IF dir \in Long(t, n) THEN 2 ELSE 1

RECURSIVE Rank(_, _)

(* RB_RANK, the self check of the header: the rank of the tree at n, by    *)
(* its left edges, and the two conditions that make it balanced at n.      *)
Rank(t, n) == IF n = Null THEN 0 ELSE EdgeLength(t, n, L) + Rank(t, Kid(t, n, L))

RankBalanced(t, n) ==
  /\ Rank(t, n) = EdgeLength(t, n, R) + Rank(t, Kid(t, n, R))
  /\ ~(Rank(t, n) = 2 /\ Kid(t, n, L) = Null /\ Kid(t, n, R) = Null)

(* Every subtree is balanced, the links of parents and children agree, and *)
(* RB_NEXT visits the nodes from left to right.                            *)
RbLinked(t) ==
  \E s \in {InOrder(t, t.root)} :
    /\ \A i \in 1 .. Len(s) :
         /\ RankBalanced(t, s[i])
         /\ IF Up(t, s[i]) = Null THEN t.root = s[i]
            ELSE s[i] \in {Kid(t, Up(t, s[i]), d) : d \in LR}
         /\ RbNext(t, s[i]) = IF i = Len(s) THEN Null ELSE s[i + 1]
    /\ RbMin(t) = IF s = << >> THEN Null ELSE s[1]
    /\ RbMembers(t) = {s[i] : i \in 1 .. Len(s)}

(* It holds the nodes in strictly ascending order, too.                    *)
RbSound(t) ==
  /\ RbLinked(t)
  /\ \E s \in {InOrder(t, t.root)} : \A i \in 2 .. Len(s) : Cmp(s[i - 1], s[i]) < 0
=============================================================================
