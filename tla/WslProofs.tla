----------------------------- MODULE WslProofs -----------------------------
(***************************************************************************)
(* The working set list has an entry for each address that is mapped and   *)
(* for each page table, and only those are queued that may be evicted,     *)
(* whatever the number of pages, page tables, addresses and threads.       *)
(***************************************************************************)
EXTENDS MapProofs

(* The list has the entries T; those of E are queued, and the others are   *)
(* counted as locked.                                                      *)
WslIs(s, T, E) ==
  /\ s.wsl.tree = T /\ IsFiniteSet(T) /\ E \subseteq T
  /\ Lists(s.wsl.queue, E)
  /\ s.wsl.nlocked = Cardinality(T) - Cardinality(E)

(* The parts of a working set list that has been given other ones.         *)
LEMMA WslFields ==
  ASSUME NEW s \in VmStates, NEW q, NEW n, NEW T, NEW m
  PROVE  /\ [s EXCEPT !.wsl.queue = q, !.wsl.nlocked = n].wsl
              = [s.wsl EXCEPT !.queue = q, !.nlocked = n]
         /\ [s EXCEPT !.wsl.tree = T, !.wsl.queue = q].wsl
              = [s.wsl EXCEPT !.tree = T, !.queue = q]
         /\ [s EXCEPT !.wsl.queue = q, !.wsl.tree = T, !.wsl.nentries = m].wsl
              = [s.wsl EXCEPT !.queue = q, !.tree = T, !.nentries = m]
  BY DEF VmStates

(* The sizes of the list when an entry comes or goes.                      *)
LEMMA OneEntry ==
  ASSUME NEW T, IsFiniteSet(T), NEW k
  PROVE  /\ Cardinality(T) \in Int /\ IsFiniteSet(T \cup {k}) /\ IsFiniteSet(T \ {k})
         /\ k \in T => Cardinality(T \ {k}) = Cardinality(T) - 1
         /\ k \notin T => Cardinality(T \cup {k}) = Cardinality(T) + 1
<1>1. Cardinality(T) \in Int
  BY FS_CardinalityType
<1>2. /\ IsFiniteSet(T \cup {k})
      /\ Cardinality(T \cup {k}) = IF k \in T THEN Cardinality(T) ELSE Cardinality(T) + 1
  BY FS_AddElement
<1>3. /\ IsFiniteSet(T \ {k})
      /\ Cardinality(T \ {k}) = IF k \in T THEN Cardinality(T) - 1 ELSE Cardinality(T)
  BY FS_RemoveElement
<1> QED
  BY <1>1, <1>2, <1>3

(* vmp_wsl_lock_entry() takes an entry off the queue.                      *)
LEMMA LockList ==
  ASSUME NEW s \in VmStates, NEW k, NEW T, NEW E, WslIs(s, T, E),
         WslLockEntry(s, k).panic = NoPanic
  PROVE  k \in E /\ WslIs(WslLockEntry(s, k), T, E \ {k})
<1> DEFINE q == Unlink(s.wsl.queue, k)
           n == s.wsl.nlocked + 1
           t == [s EXCEPT !.wsl.queue = q, !.wsl.nlocked = n]
           c == Kassert(s, Contains(s.wsl.queue, k), "ws.c:146", t)
<1>1. WslLockEntry(s, k) = Kassert(s, k \in s.wsl.tree, "ws.c:145", c)
  BY DEF WslLockEntry
<1>2. t.wsl.tree = s.wsl.tree /\ t.wsl.queue = q /\ t.wsl.nlocked = n
  <2> HIDE DEF q, n
  <2>1. t.wsl = [s.wsl EXCEPT !.queue = q, !.nlocked = n]
    BY WslFields
  <2> HIDE DEF t
  <2> QED
    BY <2>1, Parts DEF WsList
<1> HIDE DEF t
<1>3. Contains(s.wsl.queue, k) /\ WslLockEntry(s, k) = t
  BY <1>1, PanicSeen DEF Kassert, Then, NoPanic
<1>4. k \in E /\ Lists(q, E \ {k})
  BY <1>3, ListsUnlink, WslPart DEF WslIs
<1> HIDE DEF q
<1>5. IsFiniteSet(E) /\ IsFiniteSet(T) /\ E \subseteq T
  BY FS_Subset DEF WslIs
<1>6. /\ Cardinality(E \ {k}) = Cardinality(E) - 1
      /\ Cardinality(E) \in Int /\ Cardinality(T) \in Int
  BY <1>4, <1>5, OneEntry
<1>7. n = Cardinality(T) - Cardinality(E \ {k})
  BY <1>6 DEF WslIs
<1> HIDE DEF n
<1> QED
  BY <1>2, <1>3, <1>4, <1>5, <1>7 DEF WslIs

(* vmp_wsl_unlock_entry() queues an entry.                                 *)
LEMMA UnlockList ==
  ASSUME NEW s \in VmStates, NEW k, NEW T, NEW E, WslIs(s, T, E),
         WslUnlockEntry(s, k).panic = NoPanic
  PROVE  k \in T \ E /\ WslIs(WslUnlockEntry(s, k), T, E \cup {k})
<1> DEFINE q == Append(s.wsl.queue, k)
           n == s.wsl.nlocked - 1
           t == [s EXCEPT !.wsl.queue = q, !.wsl.nlocked = n]
           c == Kassert(s, ~Contains(s.wsl.queue, k), "ws.c:155", t)
<1>1. WslUnlockEntry(s, k) = Kassert(s, k \in s.wsl.tree, "ws.c:154", c)
  BY DEF WslUnlockEntry
<1>2. t.wsl.tree = s.wsl.tree /\ t.wsl.queue = q /\ t.wsl.nlocked = n
  <2> HIDE DEF q, n
  <2>1. t.wsl = [s.wsl EXCEPT !.queue = q, !.nlocked = n]
    BY WslFields
  <2> HIDE DEF t
  <2> QED
    BY <2>1, Parts DEF WsList
<1> HIDE DEF t
<1>3. ~Contains(s.wsl.queue, k) /\ k \in s.wsl.tree /\ WslUnlockEntry(s, k) = t
  BY <1>1, PanicSeen DEF Kassert, Then, NoPanic
<1>4. k \in T \ E /\ k \in WsKey
  BY <1>3, WslPart DEF WslIs, Lists, Contains
<1>5. Lists(q, E \cup {k})
  BY <1>4, ListsAppend, WslPart DEF WslIs
<1> HIDE DEF q
<1>6. IsFiniteSet(E) /\ IsFiniteSet(T) /\ E \subseteq T
  BY FS_Subset DEF WslIs
<1>7. /\ Cardinality(E \cup {k}) = Cardinality(E) + 1
      /\ Cardinality(E) \in Int /\ Cardinality(T) \in Int
  BY <1>4, <1>6, OneEntry
<1>8. n = Cardinality(T) - Cardinality(E \cup {k})
  BY <1>7 DEF WslIs
<1> HIDE DEF n
<1> QED
  BY <1>2, <1>3, <1>4, <1>5, <1>6, <1>8 DEF WslIs

(* vmp_wsl_remove() takes an entry off the queue and out of the list.      *)
LEMMA RemoveList ==
  ASSUME NEW s \in VmStates, NEW k, NEW T, NEW E, WslIs(s, T, E),
         WslRemove(s, k).panic = NoPanic
  PROVE  k \in E /\ WslIs(WslRemove(s, k), T \ {k}, E \ {k})
<1> DEFINE q == Unlink(s.wsl.queue, k)
           u == s.wsl.tree \ {k}
           t == [s EXCEPT !.wsl.tree = u, !.wsl.queue = q]
           c == Kassert(s, Contains(s.wsl.queue, k), "ws.c:137", t)
<1>1. WslRemove(s, k) = Kassert(s, k \in s.wsl.tree, "ws.c:135", c)
  BY DEF WslRemove
<1>2. t.wsl.tree = u /\ t.wsl.queue = q /\ t.wsl.nlocked = s.wsl.nlocked
  <2> HIDE DEF q, u
  <2>1. t.wsl = [s.wsl EXCEPT !.tree = u, !.queue = q]
    BY WslFields
  <2> HIDE DEF t
  <2> QED
    BY <2>1, Parts DEF WsList
<1> HIDE DEF t
<1>3. Contains(s.wsl.queue, k) /\ WslRemove(s, k) = t
  BY <1>1, PanicSeen DEF Kassert, Then, NoPanic
<1>4. k \in E /\ Lists(q, E \ {k})
  BY <1>3, ListsUnlink, WslPart DEF WslIs
<1> HIDE DEF q
<1>5. IsFiniteSet(E) /\ IsFiniteSet(T) /\ E \subseteq T /\ k \in T /\ u = T \ {k}
  BY <1>4, FS_Subset DEF WslIs
<1>6. /\ Cardinality(E \ {k}) = Cardinality(E) - 1 /\ Cardinality(T \ {k}) = Cardinality(T) - 1
      /\ Cardinality(E) \in Int /\ Cardinality(T) \in Int /\ IsFiniteSet(T \ {k})
  BY <1>4, <1>5, OneEntry
<1>7. s.wsl.nlocked = Cardinality(T \ {k}) - Cardinality(E \ {k})
  BY <1>6 DEF WslIs
<1> QED
  BY <1>2, <1>3, <1>4, <1>5, <1>6, <1>7 DEF WslIs

-----------------------------------------------------------------------------
(***************************************************************************)
(* The address of a PTE is found from the bottom up, by the PTEs that map  *)
(* its table, the directory of that, and so on.  home says which they are. *)
(***************************************************************************)
Addr(home, a) ==
  [l \in 1 .. Levels |->
     IF l = 1 THEN a[2]
     ELSE IF l = 2 THEN home[a[1]][2]
     ELSE IF l = 3 THEN home[home[a[1]][1]][2]
     ELSE home[home[home[a[1]][1]][1]][2]]

Kinds == {"Valid", "Busy"}

(* The tables form a tree: each but the root, and but a new one, y, is     *)
(* named by the PTE that home says.  No address leads through y.           *)
Forest(s, home, y) ==
  /\ s.page[Root].use = TableUse[Levels]
  /\ home \in [Pages -> PteAddr]
  /\ \A a \in PteAddr :
       Entry(s, a).kind = "Valid" /\ IsTable(s, a[1]) /\ s.page[a[1]].use # "PML1" =>
         /\ home[Entry(s, a).page] = a
         /\ s.page[Entry(s, a).page].use = Below(s.page[a[1]].use)
  /\ \A q \in Pages \ {Root, y} :
       IsTable(s, q) =>
         /\ Entry(s, home[q]).kind = "Valid" /\ Entry(s, home[q]).page = q
         /\ IsTable(s, home[q][1]) /\ s.page[q].use = Below(s.page[home[q][1]].use)
  /\ \A a \in PteAddr : a[1] = y => Entry(s, a).kind \notin Kinds

(* The maps of a state, in the middle of a critical section as well, hold  *)
(* such a tree.                                                            *)
LEMMA MapsForest ==
  ASSUME NEW s \in VmStates, NEW home \in [Pages -> PteAddr], NEW hole, NEW busy,
         NEW pins, NEW uses, NEW refs, Maps(s, home, hole, busy, pins, uses, refs),
         \A a \in PteAddr : a[1] = hole => Entry(s, a).kind \notin Kinds
  PROVE  Forest(s, home, hole)
<1>1. /\ PtesLinked(s, home, hole) /\ PagesLinked(s, home, hole, busy)
      /\ BusyLinked(s, home, hole, busy) /\ s.page[Root].use = TableUse[Levels]
  BY DEF Maps, Linked
<1>2. \A a \in PteAddr :
        Entry(s, a).kind = "Valid" /\ IsTable(s, a[1]) /\ s.page[a[1]].use # "PML1" =>
          /\ home[Entry(s, a).page] = a
          /\ s.page[Entry(s, a).page].use = Below(s.page[a[1]].use)
  BY <1>1 DEF PtesLinked
<1>3. ASSUME NEW q \in Pages \ {Root, hole}, IsTable(s, q)
      PROVE  /\ Entry(s, home[q]).kind = "Valid" /\ Entry(s, home[q]).page = q
             /\ IsTable(s, home[q][1]) /\ s.page[q].use = Below(s.page[home[q][1]].use)
  <2>1. ~IsAnon(s, q)
    BY <1>1, <1>3, UseFacts
  <2>2. home[q] \in PteAddr
    OBVIOUS
  <2>3. << home[q], q >> \notin busy
    BY <1>1, <2>1, <2>2 DEF BusyLinked
  <2>4. Entry(s, home[q]).kind \in {"Valid", "Trans"} /\ Entry(s, home[q]).page = q
    BY <1>1, <1>3, <2>3 DEF PagesLinked
  <2>5. /\ IsTable(s, home[q][1]) /\ s.page[q].use = Below(s.page[home[q][1]].use)
        /\ Entry(s, home[q]).kind = "Trans" => s.page[home[q][1]].use = "PML1"
    BY <1>1, <2>2, <2>4 DEF PtesLinked
  <2>6. Entry(s, home[q]).kind # "Trans"
    BY <2>1, <2>5 DEF Below, IsAnon
  <2> QED
    BY <2>4, <2>5, <2>6
<1> QED
  BY <1>1, <1>2, <1>3 DEF Forest

(* The table that names another one is a level higher.                     *)
LEMMA LevelAbove ==
  ASSUME NEW s \in VmStates, NEW home, NEW y, Forest(s, home, y),
         NEW q \in Pages \ {Root, y}, NEW l \in 1 .. 4, s.page[q].use = TableUse[l]
  PROVE  /\ home[q] \in PteAddr /\ home[q][1] \in Pages \ {y}
         /\ Entry(s, home[q]).kind = "Valid" /\ Entry(s, home[q]).page = q
         /\ l \in 1 .. 3 /\ s.page[home[q][1]].use = TableUse[l + 1]
<1>1. TableUse[l] \in TableUses
  BY DEF TableUse, TableUses
<1>2. /\ Entry(s, home[q]).kind = "Valid" /\ Entry(s, home[q]).page = q
      /\ IsTable(s, home[q][1]) /\ s.page[q].use = Below(s.page[home[q][1]].use)
      /\ home[q] \in PteAddr
  BY <1>1 DEF Forest, IsTable
<1>3. home[q][1] \in Pages \ {y}
  BY <1>2, AddrParts DEF Forest, Kinds
<1>4. l \in 1 .. 3 /\ s.page[home[q][1]].use = TableUse[l + 1]
  BY <1>2 DEF Below, IsTable, TableUses, TableUse
<1> QED
  BY <1>2, <1>3, <1>4

(* No table but the root is of the highest level.                          *)
LEMMA RootHighest ==
  ASSUME NEW s \in VmStates, NEW home, NEW y, Forest(s, home, y),
         NEW q \in Pages \ {Root, y}, NEW l \in 1 .. 4, s.page[q].use = TableUse[l]
  PROVE  l < Levels
<1> DEFINE d == home[q][1]
           e == home[d][1]
<1>1. Levels \in 2 .. 4 /\ s.page[Root].use = TableUse[Levels]
  BY VmAssumption DEF Forest
<1>2. ASSUME NEW r \in Pages \ {y}, NEW k \in 1 .. 4, s.page[r].use = TableUse[k], k > Levels
      PROVE  r # Root
  BY <1>1, <1>2 DEF TableUse
<1>3. ASSUME l >= Levels
      PROVE  FALSE
  <2>1. d \in Pages \ {y} /\ l \in 1 .. 3 /\ s.page[d].use = TableUse[l + 1]
    BY LevelAbove
  <2>2. d # Root
    BY <1>1, <1>2, <1>3, <2>1, l + 1 \in 1 .. 4, l + 1 > Levels
  <2>3. e \in Pages \ {y} /\ l + 1 \in 1 .. 3 /\ s.page[e].use = TableUse[l + 2]
    <3>1. l + 1 \in 1 .. 4 /\ (l + 1) + 1 = l + 2
      BY <2>1
    <3> HIDE DEF d
    <3> QED
      BY <2>1, <2>2, <3>1, LevelAbove
  <2>4. e # Root
    BY <1>1, <1>2, <1>3, <2>3, l + 2 \in 1 .. 4, l + 2 > Levels
  <2>5. l + 2 \in 1 .. 3
    <3> HIDE DEF e
    <3> QED
      BY <2>3, <2>4, LevelAbove, l + 2 \in 1 .. 4
  <2> QED
    BY <1>1, <1>3, <2>5
<1> QED
  BY <1>1, <1>3

(* The directory above a table.                                            *)
Above(s, home, y, q, l) ==
  LET d == home[q][1]
  IN  /\ q # Root /\ home[q] \in PteAddr /\ d \in Pages \ {y}
      /\ Entry(s, home[q]).kind = "Valid" /\ Entry(s, home[q]).page = q
      /\ s.page[d].use = TableUse[l] /\ (d = Root <=> l = Levels)

(* A table that is not the root has one directory above it.                *)
LEMMA OneAbove ==
  ASSUME NEW s \in VmStates, NEW home, NEW y, Forest(s, home, y),
         NEW q \in Pages \ {Root, y}, NEW l \in 1 .. 4, s.page[q].use = TableUse[l]
  PROVE  l < Levels /\ Above(s, home, y, q, l + 1)
<1>1. l < Levels
  BY RootHighest
<1>2. /\ home[q] \in PteAddr /\ home[q][1] \in Pages \ {y}
      /\ Entry(s, home[q]).kind = "Valid" /\ Entry(s, home[q]).page = q
      /\ l \in 1 .. 3 /\ s.page[home[q][1]].use = TableUse[l + 1]
  BY LevelAbove
<1>3. Levels \in 2 .. 4 /\ s.page[Root].use = TableUse[Levels]
  BY VmAssumption DEF Forest
<1>4. home[q][1] = Root => l + 1 = Levels
  BY <1>2, <1>3 DEF TableUse
<1>5. l + 1 = Levels => home[q][1] = Root
  BY <1>2, RootHighest, l + 1 \in 1 .. 4, <1>3
<1> QED
  BY <1>1, <1>2, <1>4, <1>5 DEF Above

(* The directories above a table of the lowest level, up to the root.      *)
LEMMA AllAbove ==
  ASSUME NEW s \in VmStates, NEW home, NEW y, Forest(s, home, y),
         NEW q \in Pages \ {y}, s.page[q].use = "PML1"
  PROVE  LET q2 == home[q][1]
             q3 == home[q2][1]
         IN  /\ Above(s, home, y, q, 2)
             /\ Levels > 2 => Above(s, home, y, q2, 3)
             /\ Levels > 3 => Above(s, home, y, q3, 4)
<1> DEFINE q2 == home[q][1]
           q3 == home[q2][1]
<1>1. Levels \in 2 .. 4 /\ s.page[Root].use = TableUse[Levels]
  BY VmAssumption DEF Forest
<1>2. q # Root /\ TableUse[1] = "PML1"
  BY <1>1 DEF TableUse
<1>3. Above(s, home, y, q, 2)
  BY <1>2, OneAbove, 1 \in 1 .. 4, 1 + 1 = 2
<1>4. q2 \in Pages \ {y} /\ s.page[q2].use = TableUse[2] /\ (q2 = Root <=> 2 = Levels)
  BY <1>3 DEF Above
<1>5. ASSUME Levels > 2
      PROVE  Above(s, home, y, q2, 3)
  <2> HIDE DEF q2
  <2> QED
    BY <1>1, <1>4, <1>5, OneAbove, 2 \in 1 .. 4, 2 + 1 = 3
<1>6. ASSUME Levels > 3
      PROVE  Above(s, home, y, q3, 4)
  <2>1. q3 \in Pages \ {y} /\ s.page[q3].use = TableUse[3] /\ (q3 = Root <=> 3 = Levels)
    BY <1>1, <1>5, <1>6 DEF Above
  <2> HIDE DEF q3
  <2> QED
    BY <1>1, <1>6, <2>1, OneAbove, 3 \in 1 .. 4, 3 + 1 = 4
<1> QED
  BY <1>3, <1>5, <1>6

(* An address stays what it is when no table gets another PTE.             *)
LEMMA SameAddr ==
  ASSUME NEW s \in VmStates, NEW home, NEW y, Forest(s, home, y),
         NEW home2, \A q \in Pages \ {y} : IsTable(s, q) => home2[q] = home[q],
         NEW a \in PteAddr, a[1] # y, s.page[a[1]].use = "PML1"
  PROVE  Addr(home2, a) = Addr(home, a)
<1> DEFINE q  == a[1]
           q2 == home[q][1]
           q3 == home[q2][1]
<1>1. q \in Pages \ {y} /\ Levels \in 2 .. 4
  BY AddrParts, VmAssumption
<1>2. /\ Above(s, home, y, q, 2)
      /\ Levels > 2 => Above(s, home, y, q2, 3)
      /\ Levels > 3 => Above(s, home, y, q3, 4)
  BY <1>1, AllAbove
<1>3. home2[q] = home[q]
  BY <1>1 DEF IsTable, TableUses
<1> HIDE DEF q
<1>4. Levels > 2 => home2[q2] = home[q2]
  <2>1. q2 \in Pages \ {y} /\ s.page[q2].use = TableUse[2]
    BY <1>2 DEF Above
  <2> HIDE DEF q2
  <2> QED
    BY <2>1 DEF IsTable, TableUses, TableUse
<1>5. Levels > 3 => home2[q3] = home[q3]
  <2>1. Levels > 2 => q3 \in Pages \ {y} /\ s.page[q3].use = TableUse[3]
    <3> HIDE DEF q2
    <3> QED
      BY <1>2 DEF Above
  <2> HIDE DEF q3
  <2> QED
    BY <1>1, <2>1 DEF IsTable, TableUses, TableUse
<1>6. \A l \in 1 .. Levels : Addr(home2, a)[l] = Addr(home, a)[l]
  <2> HIDE DEF q3
  <2>1. ASSUME NEW l \in 1 .. Levels, l = 3
        PROVE  home2[home2[q][1]][2] = home[home[q][1]][2]
    BY <1>1, <1>3, <1>4, <2>1
  <2>2. ASSUME NEW l \in 1 .. Levels, l = 4
        PROVE  home2[home2[home2[q][1]][1]][2] = home[home[home[q][1]][1]][2]
    BY <1>1, <1>3, <1>4, <1>5, <2>2 DEF q3
  <2>3. \A l \in 1 .. Levels : l = 1 \/ l = 2 \/ l = 3 \/ l = 4
    BY <1>1
  <2> QED
    BY <1>3, <2>1, <2>2, <2>3 DEF Addr, q
<1> QED
  BY <1>6 DEF Addr

(* Two PTEs of lowest level tables have two addresses.                     *)
LEMMA AddrOnce ==
  ASSUME NEW s \in VmStates, NEW home, NEW y, Forest(s, home, y),
         NEW a \in PteAddr, a[1] # y, s.page[a[1]].use = "PML1",
         NEW b \in PteAddr, b[1] # y, s.page[b[1]].use = "PML1",
         Addr(home, a) = Addr(home, b)
  PROVE  a = b
<1> DEFINE q  == a[1]
           q2 == home[q][1]
           q3 == home[q2][1]
           r  == b[1]
           r2 == home[r][1]
           r3 == home[r2][1]
<1>1. q \in Pages \ {y} /\ r \in Pages \ {y} /\ Levels \in 2 .. 4
  BY AddrParts, VmAssumption
<1>2. /\ Above(s, home, y, q, 2)
      /\ Levels > 2 => Above(s, home, y, q2, 3)
      /\ Levels > 3 => Above(s, home, y, q3, 4)
  BY <1>1, AllAbove
<1>3. /\ Above(s, home, y, r, 2)
      /\ Levels > 2 => Above(s, home, y, r2, 3)
      /\ Levels > 3 => Above(s, home, y, r3, 4)
  BY <1>1, AllAbove
<1>4. \A l \in 1 .. Levels : Addr(home, a)[l] = Addr(home, b)[l]
  OBVIOUS
<1>5. a[2] = b[2] /\ home[q][2] = home[r][2]
  BY <1>1, <1>4, 1 \in 1 .. Levels, 2 \in 1 .. Levels DEF Addr
<1>6. Levels > 2 => home[q2][2] = home[r2][2]
  BY <1>1, <1>4, Levels > 2 => 3 \in 1 .. Levels DEF Addr
<1>7. Levels > 3 => home[q3][2] = home[r3][2]
  BY <1>1, <1>4, Levels > 3 => 4 \in 1 .. Levels DEF Addr
<1> HIDE DEF q, r, q2, r2, q3, r3
<1>8. ASSUME NEW u, NEW v, NEW l, Above(s, home, y, u, l), Above(s, home, y, v, l),
             home[u][1] = home[v][1], home[u][2] = home[v][2]
      PROVE  u = v
  <2>1. home[u] = home[v]
    BY <1>8, AddrParts DEF Above
  <2> QED
    BY <1>8, <2>1 DEF Above
<1>9. Levels > 3 => q3 = r3
  BY <1>1, <1>2, <1>3, <1>7, <1>8 DEF Above
<1>10. Levels > 2 => q2 = r2
  <2>1. Levels > 2 => home[q2][1] = home[r2][1]
    <3>1. CASE Levels = 3
      BY <1>2, <1>3, <3>1 DEF Above
    <3>2. CASE Levels > 3
      BY <1>9, <3>2 DEF q3, r3
    <3> QED
      BY <1>1, <3>1, <3>2
  <2> QED
    BY <1>2, <1>3, <1>6, <1>8, <2>1
<1>11. q = r
  <2>1. home[q][1] = home[r][1]
    <3>1. CASE Levels = 2
      BY <1>2, <1>3, <3>1 DEF Above
    <3>2. CASE Levels > 2
      BY <1>10, <3>2 DEF q2, r2
    <3> QED
      BY <1>1, <3>1, <3>2
  <2> QED
    BY <1>2, <1>3, <1>5, <1>8, <2>1
<1> QED
  BY <1>5, <1>11, AddrParts DEF q, r

-----------------------------------------------------------------------------
(* The table the walk goes to from the table p of level l.                 *)
Down(s, va, p, l) ==
  IF p = NoPage THEN NoPage
  ELSE LET pte == s.table[p][va[l]]
       IN  IF pte.kind = "Valid" THEN pte.page ELSE NoPage

(* vmp_fetch_pte() goes from level to level.                               *)
LEMMA WalkDown ==
  ASSUME NEW s, NEW va
  PROVE  /\ Walk(s, va)[Levels] = Root
         /\ \A l \in 1 .. Levels - 1 : Walk(s, va)[l] = Down(s, va, Walk(s, va)[l + 1], l + 1)
<1> DEFINE D(p, l) == Down(s, va, p, l)
           w3 == D(Root, Levels)
           w2 == D(w3, Levels - 1)
           w1 == D(w2, Levels - 2)
           g == [l \in 1 .. Levels |-> IF l = Levels THEN Root
                                      ELSE IF l = Levels - 1 THEN w3
                                      ELSE IF l = Levels - 2 THEN w2 ELSE w1]
           F(w) == [l \in 1 .. Levels |-> IF l = Levels THEN Root ELSE D(w[l + 1], l + 1)]
<1>1. Levels \in 2 .. 4
  BY VmAssumption
<1> HIDE DEF D
<1>2. g = F(g)
  <2>1. \A l \in 1 .. Levels : g[l] = F(g)[l]
    BY <1>1
  <2> QED
    BY <2>1
<1>3. Walk(s, va) = CHOOSE w : w = F(w)
  BY DEF Walk, D, Down
<1> HIDE DEF g, F
<1>4. Walk(s, va) = F(Walk(s, va))
  BY <1>2, <1>3
<1>5. \A l \in 1 .. Levels :
        Walk(s, va)[l] = IF l = Levels THEN Root ELSE D(Walk(s, va)[l + 1], l + 1)
  BY <1>4 DEF F
<1> QED
  BY <1>1, <1>5 DEF D

(* The address of a PTE leads to its table.                                *)
LEMMA AddrWalk ==
  ASSUME NEW s \in VmStates, NEW home, NEW y, Forest(s, home, y),
         NEW a \in PteAddr, a[1] # y, s.page[a[1]].use = "PML1"
  PROVE  FetchPte(s, Addr(home, a)) = a[1]
<1> DEFINE va == Addr(home, a)
           W(l) == Walk(s, va)[l]
           q  == a[1]
           q2 == home[q][1]
           q3 == home[q2][1]
<1>1. q \in Pages \ {y} /\ Levels \in 2 .. 4 /\ NoPage \notin Pages
  BY AddrParts, VmAssumption DEF NoPage, Pages
<1>2. /\ Above(s, home, y, q, 2)
      /\ Levels > 2 => Above(s, home, y, q2, 3)
      /\ Levels > 3 => Above(s, home, y, q3, 4)
  BY <1>1, AllAbove
<1>3. /\ va[2] = home[q][2]
      /\ Levels > 2 => va[3] = home[q2][2]
      /\ Levels > 3 => va[4] = home[q3][2]
  <2>1. 2 \in 1 .. Levels /\ (Levels > 2 => 3 \in 1 .. Levels)
        /\ (Levels > 3 => 4 \in 1 .. Levels)
    BY <1>1
  <2>2. \A l \in 1 .. Levels :
          va[l] = IF l = 1 THEN a[2] ELSE IF l = 2 THEN home[q][2]
                  ELSE IF l = 3 THEN home[q2][2] ELSE home[q3][2]
    BY DEF Addr
  <2> HIDE DEF va, q, q2, q3
  <2> QED
    BY <2>1, <2>2
<1>4. W(Levels) = Root /\ \A l \in 1 .. Levels - 1 : W(l) = Down(s, va, W(l + 1), l + 1)
  BY WalkDown
<1> HIDE DEF q, q2, q3, va, W
<1>5. ASSUME NEW u, NEW l, Above(s, home, y, u, l), va[l] = home[u][2]
      PROVE  Down(s, va, home[u][1], l) = u
  <2>1. home[u][1] # NoPage
    BY <1>1, <1>5 DEF Above
  <2>2. Entry(s, home[u]).kind = "Valid" /\ Entry(s, home[u]).page = u
    BY <1>5 DEF Above
  <2> QED
    BY <1>5, <2>1, <2>2 DEF Down, Entry
<1>6. Levels > 3 => W(3) = q3
  <2>1. Levels > 3 => home[q3][1] = Root /\ Levels = 4
    BY <1>1, <1>2 DEF Above
  <2>2. Levels > 3 => W(3) = Down(s, va, W(4), 4)
    BY <1>1, <1>4, Levels > 3 => 3 \in 1 .. Levels - 1, 3 + 1 = 4
  <2> QED
    BY <1>2, <1>3, <1>4, <1>5, <2>1, <2>2
<1>7. Levels > 2 => W(2) = q2
  <2>1. Levels > 2 => W(3) = home[q2][1]
    <3>1. CASE Levels = 3
      BY <1>2, <1>4, <3>1 DEF Above
    <3>2. CASE Levels > 3
      BY <1>6, <3>2 DEF q3
    <3> QED
      BY <1>1, <3>1, <3>2
  <2>2. Levels > 2 => W(2) = Down(s, va, W(3), 3)
    BY <1>1, <1>4, Levels > 2 => 2 \in 1 .. Levels - 1, 2 + 1 = 3
  <2> QED
    BY <1>2, <1>3, <1>5, <2>1, <2>2
<1>8. W(1) = q
  <2>1. W(2) = home[q][1]
    <3>1. CASE Levels = 2
      BY <1>2, <1>4, <3>1 DEF Above
    <3>2. CASE Levels > 2
      BY <1>7, <3>2 DEF q2
    <3> QED
      BY <1>1, <3>1, <3>2
  <2>2. W(1) = Down(s, va, W(2), 2)
    BY <1>1, <1>4, 1 \in 1 .. Levels - 1, 1 + 1 = 2
  <2> QED
    BY <1>2, <1>3, <1>5, <2>1, <2>2
<1> QED
  BY <1>8 DEF FetchPte, q, va, W

(* A table the walk comes to is the one of its address.                    *)
LEMMA WalkAddr ==
  ASSUME NEW s \in VmStates, NEW home, NEW y, Forest(s, home, y), NEW va \in VAddr,
         FetchPte(s, va) \in Pages
  PROVE  LET a == << FetchPte(s, va), va[1] >>
         IN  a \in PteAddr /\ s.page[a[1]].use = "PML1" /\ Addr(home, a) = va
<1> DEFINE W(l) == Walk(s, va)[l]
           a == << FetchPte(s, va), va[1] >>
<1>1. Levels \in 2 .. 4 /\ NoPage \notin Pages /\ Root \in Pages
  BY VmAssumption, ConstantTypes DEF NoPage, Pages
<1>2. va \in [1 .. Levels -> Idx] /\ \A l \in 1 .. Levels : va[l] \in Idx
  BY DEF VAddr
<1>3. W(Levels) = Root /\ \A l \in 1 .. Levels - 1 : W(l) = Down(s, va, W(l + 1), l + 1)
  BY WalkDown
<1>4. FetchPte(s, va) = W(1)
  BY DEF FetchPte
<1> HIDE DEF W
<1>5. ASSUME NEW l \in 1 .. Levels - 1, W(l) \in Pages
      PROVE  /\ W(l + 1) # NoPage
             /\ W(l + 1) \in Pages =>
                  /\ << W(l + 1), va[l + 1] >> \in PteAddr
                  /\ Entry(s, << W(l + 1), va[l + 1] >>).kind = "Valid"
                  /\ Entry(s, << W(l + 1), va[l + 1] >>).page = W(l)
  <2>1. W(l) = Down(s, va, W(l + 1), l + 1) /\ va[l + 1] \in Idx
    BY <1>1, <1>2, <1>3
  <2> QED
    BY <1>1, <1>5, <2>1 DEF Down, Entry, PteAddr
<1>6. ASSUME NEW l \in 1 .. Levels - 1, W(l) \in Pages, W(l + 1) \in Pages,
             s.page[W(l + 1)].use = TableUse[l + 1]
      PROVE  home[W(l)] = << W(l + 1), va[l + 1] >> /\ s.page[W(l)].use = TableUse[l]
  <2> DEFINE b == << W(l + 1), va[l + 1] >>
  <2>1. b \in PteAddr /\ Entry(s, b).kind = "Valid" /\ Entry(s, b).page = W(l)
    BY <1>5, <1>6
  <2>2. b[1] = W(l + 1) /\ l \in 1 .. 3
    BY <1>1
  <2> HIDE DEF b
  <2>3. /\ s.page[b[1]].use = TableUse[l + 1] /\ s.page[b[1]].use # "PML1" /\ IsTable(s, b[1])
        /\ Below(TableUse[l + 1]) = TableUse[l]
    BY <1>6, <2>2 DEF TableUse, IsTable, TableUses, Below
  <2>4. home[W(l)] = b /\ s.page[W(l)].use = Below(s.page[b[1]].use)
    BY <2>1, <2>3 DEF Forest
  <2> QED
    BY <2>3, <2>4 DEF b
<1>7. s.page[W(Levels)].use = TableUse[Levels] /\ W(Levels) \in Pages
  BY <1>1, <1>3 DEF Forest
<1>8. ASSUME Levels = 2
      PROVE  home[W(1)] = << W(2), va[2] >> /\ s.page[W(1)].use = TableUse[1]
  BY <1>4, <1>6, <1>7, <1>8, 1 \in 1 .. Levels - 1, 1 + 1 = 2
<1>9. \A l \in 1 .. Levels - 1 : W(l) \in Pages => W(l + 1) \in Pages
  <2>1. \A l \in 1 .. Levels - 1 : W(l) = NoPage \/ W(l) \in Pages
    <3>1. \A p \in Pages, l \in 1 .. Levels : Down(s, va, p, l) \in Pages \cup {NoPage}
      BY <1>2, TablePart DEF Down
    <3>2. \A l \in 1 .. Levels : Down(s, va, NoPage, l) = NoPage
      BY DEF Down
    <3>3. W(Levels - 1) \in Pages \cup {NoPage}
      BY <1>1, <1>3, <1>7, <3>1, Levels - 1 \in 1 .. Levels - 1, (Levels - 1) + 1 = Levels
    <3>4. Levels > 2 => W(Levels - 2) \in Pages \cup {NoPage}
      BY <1>1, <1>3, <3>1, <3>2, <3>3, Levels > 2 => Levels - 2 \in 1 .. Levels - 1,
         (Levels - 2) + 1 = Levels - 1, Levels - 1 \in 1 .. Levels
    <3>5. Levels > 3 => W(Levels - 3) \in Pages \cup {NoPage}
      <4>1. Levels > 3 => Levels - 3 \in 1 .. Levels - 1 /\ (Levels - 3) + 1 = Levels - 2
                         /\ Levels - 2 \in 1 .. Levels
        BY <1>1
      <4>2. Levels > 3 => W(Levels - 3) = Down(s, va, W(Levels - 2), Levels - 2)
        BY <1>3, <4>1
      <4> QED
        BY <1>1, <3>1, <3>2, <3>4, <4>1, <4>2
    <3>6. \A l \in 1 .. Levels - 1 : \/ l = Levels - 1
                                     \/ Levels > 2 /\ l = Levels - 2
                                     \/ Levels > 3 /\ l = Levels - 3
      BY <1>1
    <3> QED
      BY <3>3, <3>4, <3>5, <3>6
  <2>2. \A l \in 1 .. Levels - 1 : l + 1 = Levels \/ l + 1 \in 1 .. Levels - 1
    BY <1>1
  <2> QED
    BY <1>5, <1>7, <2>1, <2>2
<1>10. ASSUME Levels = 3
       PROVE  /\ home[W(1)] = << W(2), va[2] >> /\ s.page[W(1)].use = TableUse[1]
              /\ home[W(2)] = << W(3), va[3] >>
  <2>1. W(2) \in Pages
    BY <1>4, <1>9, <1>10, 1 \in 1 .. Levels - 1, 1 + 1 = 2
  <2>2. home[W(2)] = << W(3), va[3] >> /\ s.page[W(2)].use = TableUse[2]
    BY <1>6, <1>7, <1>10, <2>1, 2 \in 1 .. Levels - 1, 2 + 1 = 3
  <2> QED
    BY <1>4, <1>6, <1>10, <2>1, <2>2, 1 \in 1 .. Levels - 1, 1 + 1 = 2
<1>11. ASSUME Levels = 4
       PROVE  /\ home[W(1)] = << W(2), va[2] >> /\ s.page[W(1)].use = TableUse[1]
              /\ home[W(2)] = << W(3), va[3] >> /\ home[W(3)] = << W(4), va[4] >>
  <2>1. W(2) \in Pages
    BY <1>4, <1>9, <1>11, 1 \in 1 .. Levels - 1, 1 + 1 = 2
  <2>2. W(3) \in Pages
    BY <1>9, <1>11, <2>1, 2 \in 1 .. Levels - 1, 2 + 1 = 3
  <2>3. home[W(3)] = << W(4), va[4] >> /\ s.page[W(3)].use = TableUse[3]
    BY <1>6, <1>7, <1>11, <2>2, 3 \in 1 .. Levels - 1, 3 + 1 = 4
  <2>4. home[W(2)] = << W(3), va[3] >> /\ s.page[W(2)].use = TableUse[2]
    BY <1>6, <1>11, <2>1, <2>2, <2>3, 2 \in 1 .. Levels - 1, 2 + 1 = 3
  <2> QED
    BY <1>4, <1>6, <1>11, <2>1, <2>3, <2>4, 1 \in 1 .. Levels - 1, 1 + 1 = 2
<1>12. a \in PteAddr /\ a[1] = W(1) /\ a[2] = va[1]
  BY <1>1, <1>2, <1>4, 1 \in 1 .. Levels DEF PteAddr
<1> HIDE DEF a
<1>13. s.page[a[1]].use = "PML1"
  BY <1>1, <1>8, <1>10, <1>11, <1>12 DEF TableUse
<1>14. Addr(home, a) = va
  <2>1. \A l \in 1 .. Levels : Addr(home, a)[l] = va[l]
    BY <1>1, <1>8, <1>10, <1>11, <1>12 DEF Addr
  <2>2. Addr(home, a) = [l \in 1 .. Levels |-> Addr(home, a)[l]]
    BY DEF Addr
  <2> QED
    BY <1>2, <2>1, <2>2
<1> QED
  BY <1>12, <1>13, <1>14 DEF a

-----------------------------------------------------------------------------
(* What leaves the working set list alone: a change to a reference count,  *)
(* a PTE, a referent, ...                                                  *)
LEMMA WslKept ==
  ASSUME NEW s \in VmStates, NEW p \in Pages
  PROVE  /\ PageRetain(s, p).wsl = s.wsl /\ PageRelease(s, p).wsl = s.wsl
         /\ CheckShortage(s).wsl = s.wsl
         /\ \A a, x : SetPte(s, a, x).wsl = s.wsl /\ SetReferent(s, p, a).wsl = s.wsl
         /\ \A use : TakePage(s, p, use).wsl = s.wsl
<1>1. \A t : t.wsl = s.wsl => Then(s, t).wsl = s.wsl
  BY DEF Then
<1>2. \A ok, site, t : (ok => t.wsl = s.wsl) => Kassert(s, ok, site, t).wsl = s.wsl
  BY DEF Kassert, Then, VmStates
<1>3. PageRetain(s, p).wsl = s.wsl
  <2> DEFINE t == [s EXCEPT !.page[p].refcnt = @ + 1]
             m == [t EXCEPT !.modified = Unlink(@, p), !.stat.nmodified = @ - 1,
                            !.stat.nactive = @ + 1]
             b == [t EXCEPT !.standby = Unlink(@, p), !.stat.nstandby = @ - 1,
                            !.stat.nactive = @ + 1]
             km == Kassert(s, Contains(s.modified, p), "resident.c:147", m)
             kb == Kassert(s, Contains(s.standby, p), "resident.c:151", b)
  <2>1. t.wsl = s.wsl /\ m.wsl = s.wsl /\ b.wsl = s.wsl
    BY DEF VmStates
  <2> HIDE DEF t, m, b
  <2>2. km.wsl = s.wsl /\ kb.wsl = s.wsl
    BY <1>2, <2>1
  <2> HIDE DEF km, kb
  <2>3. PageRetain(s, p) = IF s.page[p].refcnt # 0 THEN Then(s, t)
                           ELSE Kassert(s, s.page[p].use # "Deleted", "resident.c:145",
                                        IF s.page[p].dirty THEN km ELSE kb)
    BY DEF PageRetain, t, m, b, km, kb
  <2> QED
    BY <1>1, <1>2, <2>1, <2>2, <2>3
<1>5. CheckShortage(s).wsl = s.wsl
  BY DEF CheckShortage, VmStates
<1>6. \A a, x : SetPte(s, a, x).wsl = s.wsl /\ SetReferent(s, p, a).wsl = s.wsl
  BY <1>1 DEF SetPte, SetReferent, VmStates
<1>7. \A use : TakePage(s, p, use).wsl = s.wsl
  BY DEF TakePage, VmStates
<1>8. PageRelease(s, p).wsl = s.wsl
  <2> DEFINE ok == s.page[p].refcnt > 0 /\ s.page[p].use # "Free"
             t == [s EXCEPT !.page[p].refcnt = @ - 1]
             n == [t EXCEPT !.stat.nactive = @ - 1]
             d == [n EXCEPT !.free = << p >> \o @, !.stat.nfree = @ + 1, !.page[p].use = "Free"]
             m == [n EXCEPT !.modified = Append(@, p), !.stat.nmodified = @ + 1]
             b == [n EXCEPT !.standby = Append(@, p), !.stat.nstandby = @ + 1]
             am == AnnounceSufficience(CheckShortage(m))
             ab == AnnounceSufficience(CheckShortage(b))
             kf == Kfatal(t, "resident.c:183")
  <2>1. t.wsl = s.wsl
    BY DEF VmStates
  <2>2. PageRelease(s, p) =
          Kassert(s, ok, "resident.c:164", IF t.page[p].refcnt = 0 THEN Requeue(t, p) ELSE t)
    BY DEF PageRelease, t
  <2>3. ASSUME ok
        PROVE  t \in VmStates
    <3>1. s.page[p].refcnt - 1 \in Nat
      BY <2>3, PagePart
    <3> QED
      BY <3>1, SetFieldType
  <2> HIDE DEF t, ok
  <2>4. ASSUME t \in VmStates
        PROVE  Requeue(t, p).wsl = t.wsl
    <3>1. d.wsl = t.wsl
      BY <2>4 DEF VmStates
    <3>2. am.wsl = t.wsl /\ ab.wsl = t.wsl
      BY <2>4 DEF AnnounceSufficience, CheckShortage, VmStates
    <3>3. kf.wsl = t.wsl
      BY <2>4 DEF Kfatal, Kassert, Then, VmStates
    <3>4. t.page[p].use = "Deleted" => Requeue(t, p) = d
      BY DEF Requeue
    <3> HIDE DEF d, m, b, am, ab, kf, n
    <3>5. t.page[p].use # "Deleted" =>
            Requeue(t, p) = IF t.page[p].use = "AnonPrivate"
                            THEN IF t.page[p].dirty THEN am ELSE ab ELSE kf
      BY DEF Requeue, n, m, b, am, ab, kf
    <3> QED
      BY <3>1, <3>2, <3>3, <3>4, <3>5
  <2> QED
    BY <1>2, <2>1, <2>2, <2>3, <2>4
<1> QED
  BY <1>3, <1>5, <1>6, <1>7, <1>8

(* wsl_evict() touches the page and the PTE only.                          *)
LEMMA EvictKeepsList ==
  ASSUME NEW s \in VmStates, NEW t \in Pages, NEW i \in Idx, WslEvict(s, t, i).panic = NoPanic
  PROVE  WslEvict(s, t, i).wsl = s.wsl
<1> DEFINE pte == s.table[t][i]
           p   == pte.page
           d   == s.page[p].dirty \/ pte.writeable
           u   == [s EXCEPT !.page[p].dirty = @ \/ pte.writeable, !.table[t][i] = TransPte(p)]
           r   == PageRelease(u, p)
<1>1. p \in Pages /\ TransPte(p) \in Pte /\ d \in BOOLEAN
  BY TablePart, PteTypes, Zenon
<1> HIDE DEF r
<1>2. WslEvict(s, t, i) = r
  BY PanicSeen, Zenon DEF WslEvict, Kassert, Then, NoPanic, r
<1> HIDE DEF p, pte
<1>3. /\ u.page = [s.page EXCEPT ![p].dirty = d]
      /\ u.table = [s.table EXCEPT ![t][i] = TransPte(p)]
      /\ u.wsl = s.wsl
  BY DEF VmStates
<1>4. u \in VmStates
  <2>1. [s.page EXCEPT ![p].dirty = d] \in PageDb
    <3>1. [s.page[p] EXCEPT !.dirty = d] \in PageRec
      BY <1>1, PagePart, PageRecUpdate
    <3> QED
      BY <1>1, <3>1, Parts DEF PageDb
  <2>2. [s.table EXCEPT ![t][i] = TransPte(p)] \in TableMem
    BY <1>1, Parts DEF TableMem
  <2> QED
    BY <2>1, <2>2 DEF VmStates
<1> HIDE DEF u
<1> QED
  BY <1>1, <1>2, <1>3, <1>4, WslKept DEF r

(* The head of the queue is the entry of a mapped page, which is evicted.  *)
LEMMA TrimList ==
  ASSUME NEW s \in VmStates, NEW T, NEW E, WslIs(s, T, E), s.wsl.queue # << >>,
         WslTrim1(s).panic = NoPanic
  PROVE  \E v \in VAddr :
           /\ LeafKey(v) \in E /\ FetchPte(s, v) \in Pages
           /\ EvictedAt(s, WslTrim1(s), << FetchPte(s, v), v[1] >>)
           /\ WslIs(WslTrim1(s), T \ {LeafKey(v)}, E \ {LeafKey(v)})
<1> DEFINE k == Head(s.wsl.queue)
           w == [s.wsl EXCEPT !.queue = Tail(@), !.tree = @ \ {k}, !.nentries = @ - 1]
           t == [s EXCEPT !.wsl.queue = Tail(@), !.wsl.tree = @ \ {k},
                          !.wsl.nentries = @ - 1]
           v == k[2]
           pt == FetchPte(s, v)
           e == WslEvict(t, pt, v[1])
<1>1. k \in WsKey /\ k \in E /\ Lists(Tail(s.wsl.queue), E \ {k})
      /\ Tail(s.wsl.queue) \in Seq(WsKey)
  <2>1. Lists(s.wsl.queue, E) /\ s.wsl.queue \in Seq(WsKey)
    BY WslPart DEF WslIs
  <2> QED
    BY <2>1, ListsTail
<1> HIDE DEF k
<1>2. t \in VmStates
  <2>1. s.wsl.tree \ {k} \in SUBSET WsKey /\ s.wsl.nentries - 1 \in Int
    BY WslPart
  <2>2. w \in WsList
    BY <1>1, <2>1, Parts, WslPart, WslUpdate, Zenon
  <2> QED
    BY <2>2, Zenon DEF VmStates
<1>3. t.page = s.page /\ t.table = s.table /\ t.wsl = w
  BY DEF VmStates
<1>4. /\ w.tree = s.wsl.tree \ {k} /\ w.queue = Tail(s.wsl.queue)
      /\ w.nlocked = s.wsl.nlocked
  <2>1. s.wsl \in WsList
    BY Parts
  <2> QED
    BY <2>1 DEF WsList
<1> HIDE DEF t, pt, e, w
<1>5. Kfatal(s, "tables.c:87").panic # NoPanic
  BY KfatalPassed, ZenonT(60) DEF NoPanic
<1>6. WslTrim1(s) = IF k[1] = "table"
                    THEN Kassert(s, s.page[k[2]].referent[2] = 0, "resident.c:207",
                                 Kfatal(s, "tables.c:87"))
                    ELSE Kassert(s, pt \in Pages, "ws.c:77", e)
  BY Zenon DEF WslTrim1, k, t, pt, e
<1>7. /\ s.panic = NoPanic /\ k[1] # "table" /\ pt \in Pages
      /\ WslTrim1(s) = e /\ e.panic = NoPanic
  BY <1>5, <1>6, PanicSeen DEF Kassert, Then, NoPanic
<1>8. v \in VAddr /\ k = LeafKey(v) /\ v[1] \in Idx
  BY <1>1, <1>7, VmAssumption DEF WsKey, VAddr, LeafKey
<1>9. EvictedAt(t, e, << pt, v[1] >>)
  BY <1>2, <1>7, <1>8, WslEvictEffect, Zenon DEF e
<1>10. EvictedAt(s, e, << pt, v[1] >>)
  <2>1. /\ \A b : Entry(t, b) = Entry(s, b)
        /\ \A q : SameRec(t, e, q) => SameRec(s, e, q)
        /\ \A q : t.page[q] = s.page[q]
    BY <1>3 DEF Entry, SameRec
  <2> QED
    BY <1>9, <2>1 DEF EvictedAt, IsAnon
<1>11. e.wsl = w
  BY <1>2, <1>3, <1>7, <1>8, EvictKeepsList, Zenon DEF e
<1>12. WslIs(e, T \ {k}, E \ {k})
  <2>1. IsFiniteSet(E) /\ IsFiniteSet(T) /\ E \subseteq T /\ k \in T
    BY <1>1, FS_Subset DEF WslIs
  <2>2. /\ Cardinality(E \ {k}) = Cardinality(E) - 1 /\ Cardinality(T \ {k}) = Cardinality(T) - 1
        /\ Cardinality(E) \in Int /\ Cardinality(T) \in Int /\ IsFiniteSet(T \ {k})
    BY <1>1, <2>1, OneEntry
  <2>3. s.wsl.nlocked = Cardinality(T \ {k}) - Cardinality(E \ {k})
    BY <2>2 DEF WslIs
  <2> QED
    BY <1>1, <1>4, <1>11, <2>1, <2>2, <2>3 DEF WslIs
<1> QED
  BY <1>7, <1>8, <1>10, <1>12, <1>1 DEF pt

(* The second half of vmp_wsl_insert().                                    *)
LEMMA AddList ==
  ASSUME NEW s \in VmStates, NEW k \in WsKey, NEW locked \in BOOLEAN, NEW T, NEW E,
         WslIs(s, T, E), k \notin T, WslAdd(s, k, locked).panic = NoPanic
  PROVE  WslIs(WslAdd(s, k, locked), T \cup {k}, IF locked THEN E ELSE E \cup {k})
<1> DEFINE n == s.wsl.nentries + 1
           m == IF locked THEN s.wsl.nlocked + 1 ELSE s.wsl.nlocked
           q == IF locked THEN s.wsl.queue ELSE Append(s.wsl.queue, k)
           u == s.wsl.tree \cup {k}
           t == [s EXCEPT !.wsl.nentries = n, !.wsl.nlocked = m, !.wsl.queue = q, !.wsl.tree = u]
           F == IF locked THEN E ELSE E \cup {k}
<1>1. WslAdd(s, k, locked) = Then(s, t)
  BY DEF WslAdd
<1>2. t.wsl.tree = u /\ t.wsl.queue = q /\ t.wsl.nlocked = m
  <2> HIDE DEF n, m, q, u
  <2>1. s.wsl \in WsList
    BY Parts
  <2>2. t.wsl = [s.wsl EXCEPT !.nentries = n, !.nlocked = m, !.queue = q, !.tree = u]
    BY DEF VmStates
  <2> HIDE DEF t
  <2> QED
    BY <2>1, <2>2 DEF WsList
<1> HIDE DEF t
<1>3. WslAdd(s, k, locked) = t
  BY <1>1, ThenPassed
<1>4. IsFiniteSet(E) /\ IsFiniteSet(T) /\ E \subseteq T /\ k \notin E /\ u = T \cup {k}
  BY FS_Subset DEF WslIs
<1>5. Lists(q, F)
  <2>1. Lists(s.wsl.queue, E) /\ s.wsl.queue \in Seq(WsKey)
    BY WslPart DEF WslIs
  <2>2. Lists(Append(s.wsl.queue, k), E \cup {k})
    BY <1>4, <2>1, ListsAppend
  <2> QED
    BY <2>1, <2>2
<1>6. /\ Cardinality(E \cup {k}) = Cardinality(E) + 1
      /\ Cardinality(T \cup {k}) = Cardinality(T) + 1
      /\ Cardinality(E) \in Int /\ Cardinality(T) \in Int /\ IsFiniteSet(T \cup {k})
  BY <1>4, OneEntry
<1>7. m = Cardinality(T \cup {k}) - Cardinality(F)
  BY <1>6 DEF WslIs
<1>8. F \subseteq T \cup {k}
  BY <1>4
<1> HIDE DEF m, q, u, F
<1>9. WslIs(t, T \cup {k}, F)
  BY <1>2, <1>4, <1>5, <1>6, <1>7, <1>8 DEF WslIs
<1> QED
  BY <1>3, <1>9 DEF F

(* vmp_wsl_insert(): there is room, or an entry of the queue goes.         *)
Queued(E, k, locked) == IF locked THEN E ELSE E \cup {k}

Inserted(s, t, k, locked, T, E) ==
  Same(s, t) /\ WslIs(t, T \cup {k}, Queued(E, k, locked))

Replaced(s, t, k, locked, T, E, v) ==
  /\ LeafKey(v) \in E /\ EvictedAt(s, t, << FetchPte(s, v), v[1] >>)
  /\ WslIs(t, (T \ {LeafKey(v)}) \cup {k}, Queued(E \ {LeafKey(v)}, k, locked))

(* vmp_wsl_insert() adds its entry; when it trims, the entry it evicts is  *)
(* one that was queued.                                                    *)
LEMMA InsertList ==
  ASSUME NEW s \in VmStates, NEW k \in WsKey, NEW locked \in BOOLEAN, NEW T, NEW E,
         WslIs(s, T, E), WslInsert(s, k, locked).panic = NoPanic
  PROVE  /\ k \notin T
         /\ \/ Inserted(s, WslInsert(s, k, locked), k, locked, T, E)
            \/ \E v \in VAddr : Replaced(s, WslInsert(s, k, locked), k, locked, T, E, v)
<1> DEFINE r == WslMakeRoom(s)
           a == WslAdd(r, k, locked)
           x == [s EXCEPT !.wsl.max = @ + WsPageExpansionCount]
           c == Kassert(s, s.wsl.queue # << >>, "ws.c:112", WslTrim1(s))
<1>1. r \in VmStates
  BY WslMakeRoomType
<1> HIDE DEF r
<1>2. k \notin s.wsl.tree /\ WslInsert(s, k, locked) = a
  BY PanicSeen DEF WslInsert, Kassert, Then, NoPanic, r
<1>3. r.panic = NoPanic /\ Same(r, a)
  <2> DEFINE b == [r EXCEPT !.wsl.nentries = @ + 1,
                            !.wsl.nlocked = IF locked THEN @ + 1 ELSE @,
                            !.wsl.queue = IF locked THEN @ ELSE Append(@, k),
                            !.wsl.tree = @ \cup {k}]
  <2>1. b.page = r.page /\ b.table = r.table
    BY <1>1 DEF VmStates
  <2>2. a = Then(r, b)
    BY DEF WslAdd
  <2> HIDE DEF b
  <2>3. r.panic = NoPanic /\ a = b
    BY <1>2, <2>2, ThenPassed
  <2> QED
    BY <2>1, <2>3 DEF Same, SameRec
<1>4. k \notin T
  BY <1>2 DEF WslIs
<1>5. x.page = s.page /\ x.table = s.table /\ WslIs(x, T, E)
  <2>1. x.wsl = [s.wsl EXCEPT !.max = @ + WsPageExpansionCount]
    BY DEF VmStates
  <2>2. x.page = s.page /\ x.table = s.table
    BY DEF VmStates
  <2>3. s.wsl \in WsList
    BY Parts
  <2> HIDE DEF x
  <2>4. x.wsl.tree = s.wsl.tree /\ x.wsl.queue = s.wsl.queue /\ x.wsl.nlocked = s.wsl.nlocked
    BY <2>1, <2>3 DEF WsList
  <2> QED
    BY <2>2, <2>4 DEF WslIs
<1>6. c.panic = NoPanic => s.wsl.queue # << >> /\ c = WslTrim1(s)
  BY PanicSeen DEF Kassert, Then, NoPanic
<1> HIDE DEF x, c
<1>7. r = IF s.wsl.nentries # s.wsl.max THEN s
          ELSE IF Available(s) > MinAvailForExpansion THEN x ELSE c
  BY DEF r, WslMakeRoom, x, c
<1>8. CASE r = s \/ r = x
  <2>1. Same(s, r) /\ WslIs(r, T, E)
    BY <1>5, <1>8 DEF Same, SameRec
  <2>2. Same(s, a)
    BY <1>3, <2>1, SameThen
  <2>3. WslIs(a, T \cup {k}, Queued(E, k, locked))
    BY <1>1, <1>2, <1>4, <2>1, AddList DEF Queued
  <2> QED
    BY <1>2, <1>4, <2>2, <2>3 DEF Inserted
<1>9. CASE r = c
  <2>1. s.wsl.queue # << >> /\ r = WslTrim1(s) /\ WslTrim1(s).panic = NoPanic
    BY <1>3, <1>6, <1>9
  <2>2. PICK v \in VAddr :
           /\ LeafKey(v) \in E /\ FetchPte(s, v) \in Pages
           /\ EvictedAt(s, r, << FetchPte(s, v), v[1] >>)
           /\ WslIs(r, T \ {LeafKey(v)}, E \ {LeafKey(v)})
    BY <2>1, TrimList
  <2>3. WslIs(a, (T \ {LeafKey(v)}) \cup {k}, Queued(E \ {LeafKey(v)}, k, locked))
    BY <1>1, <1>2, <1>4, <2>2, AddList DEF Queued
  <2>4. EvictedAt(s, a, << FetchPte(s, v), v[1] >>)
    <3>1. /\ \A b : Entry(a, b) = Entry(r, b)
          /\ \A q \in Pages : SameRec(r, a, q)
      BY <1>3 DEF Same, Entry
    <3>2. Entry(s, << FetchPte(s, v), v[1] >>).page \in Pages
      <4>1. v[1] \in Idx
        BY VmAssumption DEF VAddr
      <4> QED
        BY <2>2, <4>1, TablePart DEF Entry
    <3> QED
      BY <2>2, <3>1, <3>2 DEF EvictedAt, SameRec
  <2> QED
    BY <1>2, <1>4, <2>2, <2>3, <2>4 DEF Replaced
<1> QED
  BY <1>7, <1>8, <1>9

-----------------------------------------------------------------------------
(* The entries of the PTEs A, and those of the tables Q.                   *)
Keys(home, A) == {LeafKey(Addr(home, a)) : a \in A}
TKeys(Q) == {TableKey(q) : q \in Q}

(* The list has an entry for each PTE of L and each table of Q; those of V *)
(* and of W are queued.                                                    *)
Held(s, home, L, V, Q, W) ==
  WslIs(s, Keys(home, L) \cup TKeys(Q), Keys(home, V) \cup TKeys(W))

(* PTEs of tables of the lowest level.                                     *)
LowPtes(s, y, A) == \A a \in A : a \in PteAddr /\ a[1] # y /\ s.page[a[1]].use = "PML1"

(* The two sorts of entries are told apart.                                *)
LEMMA KeyKinds ==
  ASSUME NEW home
  PROVE  /\ \A p, A : TableKey(p) \notin Keys(home, A)
         /\ \A v, Q : LeafKey(v) \notin TKeys(Q)
         /\ \A p, Q : TableKey(p) \in TKeys(Q) <=> p \in Q
         /\ \A a, A : a \in A => LeafKey(Addr(home, a)) \in Keys(home, A)
         /\ \A v, A : LeafKey(v) \in Keys(home, A) => \E a \in A : Addr(home, a) = v
  BY DEF Keys, TKeys, TableKey, LeafKey

(* The entries of one PTE or one table more.                               *)
LEMMA KeysMore ==
  ASSUME NEW home
  PROVE  /\ \A a, A : Keys(home, A \cup {a}) = Keys(home, A) \cup {LeafKey(Addr(home, a))}
         /\ \A p, Q : TKeys(Q \cup {p}) = TKeys(Q) \cup {TableKey(p)}
         /\ \A p, Q : TKeys(Q \ {p}) = TKeys(Q) \ {TableKey(p)}
  BY DEF Keys, TKeys, TableKey

(* The entries of one PTE less, when no other PTE has its address.         *)
LEMMA KeysLess ==
  ASSUME NEW home, NEW a, NEW A, \A b \in A : Addr(home, b) = Addr(home, a) => b = a
  PROVE  Keys(home, A \ {a}) = Keys(home, A) \ {LeafKey(Addr(home, a))}
  BY DEF Keys, LeafKey

(* The entry of a table is locked, unlocked or removed.                    *)
LEMMA HeldTable ==
  ASSUME NEW s \in VmStates, NEW home, NEW L, NEW V, NEW Q, NEW W, Held(s, home, L, V, Q, W),
         NEW p
  PROVE  /\ WslLockEntry(s, TableKey(p)).panic = NoPanic =>
              Held(WslLockEntry(s, TableKey(p)), home, L, V, Q, W \ {p})
         /\ WslUnlockEntry(s, TableKey(p)).panic = NoPanic =>
              Held(WslUnlockEntry(s, TableKey(p)), home, L, V, Q, W \cup {p})
         /\ WslRemove(s, TableKey(p)).panic = NoPanic =>
              Held(WslRemove(s, TableKey(p)), home, L, V, Q \ {p}, W \ {p})
<1> DEFINE k == TableKey(p)
           T == Keys(home, L) \cup TKeys(Q)
           E == Keys(home, V) \cup TKeys(W)
<1>1. WslIs(s, T, E)
  BY DEF Held
<1>2. /\ T \ {k} = Keys(home, L) \cup TKeys(Q \ {p})
      /\ E \ {k} = Keys(home, V) \cup TKeys(W \ {p})
      /\ E \cup {k} = Keys(home, V) \cup TKeys(W \cup {p})
  <2>1. k \notin Keys(home, L) /\ k \notin Keys(home, V)
    BY KeyKinds
  <2>2. /\ TKeys(Q \ {p}) = TKeys(Q) \ {k} /\ TKeys(W \ {p}) = TKeys(W) \ {k}
        /\ TKeys(W \cup {p}) = TKeys(W) \cup {k}
    BY KeysMore
  <2> HIDE DEF k
  <2> QED
    BY <2>1, <2>2
<1> HIDE DEF T, E, k
<1>3. /\ WslLockEntry(s, k).panic = NoPanic => WslIs(WslLockEntry(s, k), T, E \ {k})
      /\ WslUnlockEntry(s, k).panic = NoPanic => WslIs(WslUnlockEntry(s, k), T, E \cup {k})
      /\ WslRemove(s, k).panic = NoPanic => WslIs(WslRemove(s, k), T \ {k}, E \ {k})
  BY <1>1, LockList, UnlockList, RemoveList
<1>4. T = Keys(home, L) \cup TKeys(Q)
  BY DEF T
<1> QED
  BY <1>2, <1>3, <1>4 DEF Held, k

(* The entry of a mapped page is unlocked.                                 *)
LEMMA HeldUnlock ==
  ASSUME NEW s \in VmStates, NEW home, NEW L, NEW V, NEW Q, NEW W, Held(s, home, L, V, Q, W),
         NEW a, NEW v, v = Addr(home, a), WslUnlockEntry(s, LeafKey(v)).panic = NoPanic
  PROVE  Held(WslUnlockEntry(s, LeafKey(v)), home, L, V \cup {a}, Q, W)
<1> DEFINE k == LeafKey(v)
           T == Keys(home, L) \cup TKeys(Q)
           E == Keys(home, V) \cup TKeys(W)
<1>1. WslIs(s, T, E)
  BY DEF Held
<1>2. E \cup {k} = Keys(home, V \cup {a}) \cup TKeys(W)
  BY KeysMore
<1> HIDE DEF E, k
<1>3. WslIs(WslUnlockEntry(s, k), T, E \cup {k})
  BY <1>1, UnlockList DEF k
<1> QED
  BY <1>2, <1>3 DEF Held, k

(* The entry a trim removes is that of the PTE it makes a transition PTE.  *)
TrimmedTo(home, L, V, Q, W, v, a) ==
  /\ a \in V
  /\ (Keys(home, L) \cup TKeys(Q)) \ {LeafKey(v)} = Keys(home, L \ {a}) \cup TKeys(Q)
  /\ (Keys(home, V) \cup TKeys(W)) \ {LeafKey(v)} = Keys(home, V \ {a}) \cup TKeys(W)

(* The entry that wsl_trim_1() evicts is that of one mapped PTE: addresses *)
(* tell PTEs apart.                                                        *)
LEMMA TrimmedKeys ==
  ASSUME NEW s \in VmStates, NEW home, NEW y, Forest(s, home, y),
         NEW L, NEW V, NEW Q, NEW W, LowPtes(s, y, L), V \subseteq L,
         NEW v \in VAddr, LeafKey(v) \in Keys(home, V) \cup TKeys(W)
  PROVE  TrimmedTo(home, L, V, Q, W, v, << FetchPte(s, v), v[1] >>)
<1> DEFINE a == << FetchPte(s, v), v[1] >>
           k == LeafKey(v)
<1>1. PICK b \in V : Addr(home, b) = v
  BY KeyKinds
<1>2. b \in L /\ b \in PteAddr /\ b[1] # y /\ s.page[b[1]].use = "PML1"
  BY DEF LowPtes
<1>3. FetchPte(s, v) = b[1]
  BY <1>1, <1>2, AddrWalk
<1>4. v[1] = b[2]
  BY <1>1, VmAssumption DEF Addr
<1>5. a = b
  BY <1>2, <1>3, <1>4, AddrParts
<1>6. \A c \in L : Addr(home, c) = Addr(home, b) => c = b
  BY <1>2, AddrOnce DEF LowPtes
<1>7. /\ Keys(home, L \ {b}) = Keys(home, L) \ {k}
      /\ Keys(home, V \ {b}) = Keys(home, V) \ {k}
  BY <1>1, <1>6, KeysLess
<1> HIDE DEF a
<1>8. TrimmedTo(home, L, V, Q, W, v, a)
  BY <1>5, <1>7, KeyKinds DEF TrimmedTo
<1> QED
  BY <1>8 DEF a

(* What an insertion leaves: the PTE b that lost its page, if there is one, *)
(* is out of the list.                                                     *)
MadeRoom(s, t, home, k, locked, L, V, Q, W, b) ==
  /\ EvictedAt(s, t, b)
  /\ WslIs(t, (Keys(home, L \ {b}) \cup TKeys(Q)) \cup {k},
           Queued(Keys(home, V \ {b}) \cup TKeys(W), k, locked))

(* The same of the eviction that makes room for a new entry.               *)
LEMMA TrimmedRoom ==
  ASSUME NEW s \in VmStates, NEW home, NEW y, Forest(s, home, y),
         NEW L, NEW V, NEW Q, NEW W, LowPtes(s, y, L), V \subseteq L,
         NEW k, NEW locked, NEW t, NEW v \in VAddr,
         Replaced(s, t, k, locked, Keys(home, L) \cup TKeys(Q), Keys(home, V) \cup TKeys(W), v)
  PROVE  \E b \in V : MadeRoom(s, t, home, k, locked, L, V, Q, W, b)
<1> DEFINE b == << FetchPte(s, v), v[1] >>
           T == Keys(home, L) \cup TKeys(Q)
           E == Keys(home, V) \cup TKeys(W)
<1>1. /\ LeafKey(v) \in E /\ EvictedAt(s, t, b)
      /\ WslIs(t, (T \ {LeafKey(v)}) \cup {k}, Queued(E \ {LeafKey(v)}, k, locked))
  BY DEF Replaced
<1>2. TrimmedTo(home, L, V, Q, W, v, b)
  BY <1>1, TrimmedKeys
<1> HIDE DEF b
<1>3. MadeRoom(s, t, home, k, locked, L, V, Q, W, b)
  BY <1>1, <1>2 DEF MadeRoom, TrimmedTo
<1> QED
  BY <1>2, <1>3 DEF TrimmedTo

(* vmp_wsl_insert() on a list that mirrors the page tables.                *)
LEMMA InsertHeld ==
  ASSUME NEW s \in VmStates, NEW home, NEW y, Forest(s, home, y),
         NEW L, NEW V, NEW Q, NEW W, Held(s, home, L, V, Q, W), LowPtes(s, y, L), V \subseteq L,
         NEW k \in WsKey, NEW locked \in BOOLEAN, WslInsert(s, k, locked).panic = NoPanic
  PROVE  \/ Inserted(s, WslInsert(s, k, locked), k, locked,
                     Keys(home, L) \cup TKeys(Q), Keys(home, V) \cup TKeys(W))
         \/ \E b \in V : MadeRoom(s, WslInsert(s, k, locked), home, k, locked, L, V, Q, W, b)
<1> DEFINE T == Keys(home, L) \cup TKeys(Q)
           E == Keys(home, V) \cup TKeys(W)
<1>1. WslIs(s, T, E)
  BY DEF Held
<1> HIDE DEF T, E
<1>2. \/ Inserted(s, WslInsert(s, k, locked), k, locked, T, E)
      \/ \E v \in VAddr : Replaced(s, WslInsert(s, k, locked), k, locked, T, E, v)
  BY <1>1, InsertList
<1>3. ASSUME NEW v \in VAddr, Replaced(s, WslInsert(s, k, locked), k, locked, T, E, v)
      PROVE  \E b \in V : MadeRoom(s, WslInsert(s, k, locked), home, k, locked, L, V, Q, W, b)
  BY <1>3, TrimmedRoom DEF T, E
<1> QED
  BY <1>2, <1>3 DEF T, E

-----------------------------------------------------------------------------
(***************************************************************************)
(* What the list should hold: the mapped PTEs of the lowest level, those   *)
(* that are valid, the page tables and those without a nonswap PTE.  Not   *)
(* the PTEs N, which are set but not entered yet, nor the table x.         *)
(***************************************************************************)
Leaves(s)   == {a \in PteAddr : s.page[a[1]].use = "PML1" /\ Entry(s, a).kind \in Kinds}
Valids(s)   == {a \in Leaves(s) : Entry(s, a).kind = "Valid"}
Tabs(s, x)  == {q \in Pages \ {Root, x} : IsTable(s, q)}
Spare(s, x) == {q \in Tabs(s, x) : s.page[q].nonswap = 0}

Good(s, home, N, x) ==
  /\ Held(s, home, Leaves(s) \ N, Valids(s) \ N, Tabs(s, x), Spare(s, x))
  /\ \A a \in Leaves(s) \ N : Addr(home, a) \in VAddrs

(* The PTEs of the lowest level are as they were.                          *)
SameLeaves(s, t) == Leaves(t) = Leaves(s) /\ Valids(t) = Valids(s)

(* What is mapped depends on the uses of pages and on the PTEs alone.      *)
LEMMA LeavesKept ==
  ASSUME NEW s, NEW t, \A q \in Pages : t.page[q].use = s.page[q].use
  PROVE  /\ \A x : Tabs(t, x) = Tabs(s, x)
         /\ (\A a \in PteAddr : s.page[a[1]].use = "PML1" => Entry(t, a) = Entry(s, a)) =>
              SameLeaves(s, t)
<1>1. \A a \in PteAddr : a[1] \in Pages
  BY AddrParts
<1>2. \A x : Tabs(t, x) = Tabs(s, x)
  BY DEF Tabs, IsTable
<1>3. ASSUME \A a \in PteAddr : s.page[a[1]].use = "PML1" => Entry(t, a) = Entry(s, a)
      PROVE  SameLeaves(s, t)
  <2>1. Leaves(t) = Leaves(s)
    BY <1>1, <1>3 DEF Leaves
  <2>2. \A a \in Leaves(s) : Entry(t, a) = Entry(s, a)
    BY <1>3 DEF Leaves
  <2> QED
    BY <2>1, <2>2 DEF SameLeaves, Valids
<1> QED
  BY <1>2, <1>3

(* A step of a section that touches neither the list nor what it shows.    *)
LEMMA GoodKept ==
  ASSUME NEW s, NEW t, NEW home, NEW N, NEW x, Good(s, home, N, x), t.wsl = s.wsl,
         SameLeaves(s, t), Tabs(t, x) = Tabs(s, x), Spare(t, x) = Spare(s, x)
  PROVE  Good(t, home, N, x)
  BY DEF Good, SameLeaves, Held, WslIs

(* The counts of one page change.                                          *)
LEMMA AdjustedSets ==
  ASSUME NEW s \in VmStates, NEW t, NEW p \in Pages, NEW r, NEW n, NEW m,
         Adjusted(s, t, p, r, n, m)
  PROVE  /\ SameLeaves(s, t)
         /\ \A x : /\ Tabs(t, x) = Tabs(s, x)
                   /\ Spare(t, x) \ {p} = Spare(s, x) \ {p}
                   /\ p \in Spare(t, x) <=> p \in Tabs(s, x) /\ s.page[p].nonswap + m = 0
<1>1. \A q \in Pages : t.page[q].use = s.page[q].use
  BY DEF Adjusted, SameRec
<1>2. \A a \in PteAddr : Entry(t, a) = Entry(s, a)
  BY DEF Adjusted, Entry
<1>3. SameLeaves(s, t) /\ \A x : Tabs(t, x) = Tabs(s, x)
  BY <1>1, <1>2, LeavesKept
<1>4. /\ \A q \in Pages \ {p} : t.page[q].nonswap = s.page[q].nonswap
      /\ t.page[p].nonswap = s.page[p].nonswap + m
  BY DEF Adjusted, SameRec
<1>5. \A x : Tabs(s, x) \subseteq Pages
  BY DEF Tabs
<1> QED
  BY <1>3, <1>4, <1>5 DEF Spare

(* References and nonzero PTEs are no matter to the list.                  *)
LEMMA AdjustedSpare ==
  ASSUME NEW s \in VmStates, NEW t, NEW p \in Pages, NEW r, NEW n, Adjusted(s, t, p, r, n, 0)
  PROVE  SameLeaves(s, t) /\ \A x : Tabs(t, x) = Tabs(s, x) /\ Spare(t, x) = Spare(s, x)
<1>1. s.page[p].nonswap + 0 = s.page[p].nonswap
  BY PagePart
<1>2. \A x : p \in Spare(t, x) <=> p \in Spare(s, x)
  BY <1>1, AdjustedSets DEF Spare
<1> QED
  BY <1>2, AdjustedSets

(* A section that leaves uses and tables alone keeps the tree.             *)
LEMMA ForestKept ==
  ASSUME NEW s \in VmStates, NEW t, NEW home, NEW y, Forest(s, home, y),
         \A q \in Pages : t.page[q].use = s.page[q].use,
         \A a \in PteAddr : a[1] = y \/ s.page[a[1]].use # "PML1" => Entry(t, a) = Entry(s, a)
  PROVE  Forest(t, home, y)
<1>1. \A a \in PteAddr : a[1] \in Pages
  BY AddrParts
<1>2. Root \in Pages /\ home \in [Pages -> PteAddr]
  BY ConstantTypes DEF Forest
<1>3. \A q \in Pages : IsTable(t, q) <=> IsTable(s, q)
  BY DEF IsTable
<1>4. ASSUME NEW a \in PteAddr, Entry(t, a).kind = "Valid", IsTable(t, a[1]),
             t.page[a[1]].use # "PML1"
      PROVE  /\ home[Entry(t, a).page] = a
             /\ t.page[Entry(t, a).page].use = Below(t.page[a[1]].use)
  <2>1. Entry(t, a) = Entry(s, a) /\ IsTable(s, a[1]) /\ s.page[a[1]].use # "PML1"
    BY <1>1, <1>3, <1>4
  <2>2. Entry(s, a).page \in Pages
    BY EntryPart
  <2> QED
    BY <1>1, <1>4, <2>1, <2>2 DEF Forest
<1>5. ASSUME NEW q \in Pages \ {Root, y}, IsTable(t, q)
      PROVE  /\ Entry(t, home[q]).kind = "Valid" /\ Entry(t, home[q]).page = q
             /\ IsTable(t, home[q][1]) /\ t.page[q].use = Below(t.page[home[q][1]].use)
  <2>1. home[q] \in PteAddr /\ home[q][1] \in Pages
    BY <1>1, <1>2
  <2>2. /\ Entry(s, home[q]).kind = "Valid" /\ Entry(s, home[q]).page = q
        /\ IsTable(s, home[q][1]) /\ s.page[q].use = Below(s.page[home[q][1]].use)
    BY <1>3, <1>5 DEF Forest
  <2>3. s.page[home[q][1]].use # "PML1"
    BY <1>3, <1>5, <2>2 DEF Below, IsTable, TableUses
  <2> QED
    BY <1>3, <2>1, <2>2, <2>3
<1> QED
  BY <1>1, <1>2, <1>4, <1>5 DEF Forest

(* Nor does an entry that is locked, unlocked or inserted change a page.   *)
LEMMA EqualSets ==
  ASSUME NEW s \in VmStates, NEW t, t.table = s.table, \A q \in Pages : SameRec(s, t, q)
  PROVE  SameLeaves(s, t) /\ \A x : Tabs(t, x) = Tabs(s, x) /\ Spare(t, x) = Spare(s, x)
<1>1. \A q \in Pages : t.page[q].use = s.page[q].use /\ t.page[q].nonswap = s.page[q].nonswap
  BY DEF SameRec
<1>2. \A a \in PteAddr : Entry(t, a) = Entry(s, a)
  BY DEF Entry
<1>3. SameLeaves(s, t) /\ \A x : Tabs(t, x) = Tabs(s, x)
  BY <1>1, <1>2, LeavesKept
<1> QED
  BY <1>1, <1>3 DEF Spare, Tabs

(* vmp_page_retain() and vmp_page_release().                               *)
LEMMA RetainGood ==
  ASSUME NEW s \in VmStates, NEW p \in Pages, PageRetain(s, p).panic = NoPanic,
         NEW home, NEW N, NEW x, Good(s, home, N, x)
  PROVE  Good(PageRetain(s, p), home, N, x)
<1>1. Adjusted(s, PageRetain(s, p), p, 1, 0, 0)
  BY PageRetainEffect, RefdAdjusted
<1> QED
  BY <1>1, AdjustedSpare, WslKept, GoodKept

LEMMA ReleaseGood ==
  ASSUME NEW s \in VmStates, NEW p \in Pages, PageRelease(s, p).panic = NoPanic,
         s.page[p].use # "Deleted", NEW home, NEW N, NEW x, Good(s, home, N, x)
  PROVE  Good(PageRelease(s, p), home, N, x)
<1>1. Adjusted(s, PageRelease(s, p), p, -1, 0, 0)
  BY PageReleaseEffect, RefdAdjusted, -1 \in Int
<1> QED
  BY <1>1, AdjustedSpare, WslKept, GoodKept

(* The first nonswap PTE of a table locks its entry, ...                   *)
LEMMA CreatedGood ==
  ASSUME NEW s \in VmStates, NEW p \in Pages, NEW isNew \in BOOLEAN,
         NonswapPteCreated(s, p, isNew).panic = NoPanic,
         s.page[p].nonswap >= 0, IsRootTable(s, p) <=> p = Root,
         NEW home, NEW N, NEW x, Good(s, home, N, x)
  PROVE  Good(NonswapPteCreated(s, p, isNew), home, N, x)
<1> DEFINE r == PageRetain(s, p)
           a == IF isNew THEN r.page[p].nonzero + 1 ELSE r.page[p].nonzero
           b == r.page[p].nonswap + 1
           t == [r EXCEPT !.page[p].nonzero = a, !.page[p].nonswap = b]
           w == WslLockEntry(t, TableKey(p))
           u == IF r.page[p].nonswap = 0 /\ ~IsRootTable(r, p) THEN w ELSE t
           n == IF isNew THEN 1 ELSE 0
           v == NonswapPteCreated(s, p, isNew)
<1>1. r \in VmStates
  BY PageRetainType
<1>2. v = Then(r, u)
  BY DEF NonswapPteCreated
<1>3. Adjusted(s, v, p, 1, n, 1)
  BY NonswapPteCreatedEffect
<1>4. r.wsl = s.wsl
  BY WslKept
<1> HIDE DEF r
<1>5. a \in Int /\ b \in Int
  BY <1>1, PagePart, SMTT(60)
<1>6. t \in VmStates /\ t.wsl = r.wsl
  <2> HIDE DEF a, b
  <2>1. r.page[p].use \in PageUse /\ r.page[p].referent \in PteAddr
    BY <1>1, PagePart
  <2>2. t.wsl = r.wsl
    BY <1>1 DEF VmStates
  <2> QED
    BY <1>1, <1>5, <2>1, <2>2, TwoFieldsType, Zenon
<1> HIDE DEF t, a, b, n, u, v
<1>7. r.panic = NoPanic /\ v = u /\ u.panic = NoPanic
  BY <1>2 DEF Then, v
<1>8. r.page[p].nonswap = s.page[p].nonswap /\ r.page[p].use = s.page[p].use
  BY <1>7, PageRetainEffect DEF r, Refd
<1>9. u = IF s.page[p].nonswap = 0 /\ p # Root THEN w ELSE t
  BY <1>8 DEF u, IsRootTable
<1> HIDE DEF w
<1>10. SameLeaves(s, v) /\ Tabs(v, x) = Tabs(s, x) /\ Spare(v, x) \ {p} = Spare(s, x) \ {p}
       /\ (p \in Spare(v, x) <=> p \in Tabs(s, x) /\ s.page[p].nonswap + 1 = 0)
  BY <1>3, AdjustedSets
<1>11. s.page[p].nonswap \in Int /\ s.page[p].nonswap + 1 # 0
  BY PagePart
<1>12. Spare(v, x) = Spare(s, x) \ {p}
  BY <1>10, <1>11
<1>13. Held(s, home, Leaves(s) \ N, Valids(s) \ N, Tabs(s, x), Spare(s, x))
  BY DEF Good
<1>14. Held(v, home, Leaves(s) \ N, Valids(s) \ N, Tabs(s, x), Spare(s, x) \ {p})
  <2>1. Held(t, home, Leaves(s) \ N, Valids(s) \ N, Tabs(s, x), Spare(s, x))
    BY <1>4, <1>6, <1>13 DEF Held, WslIs
  <2>2. CASE s.page[p].nonswap = 0 /\ p # Root
    BY <1>6, <1>7, <1>9, <2>1, <2>2, HeldTable DEF w
  <2>3. CASE ~(s.page[p].nonswap = 0 /\ p # Root)
    <3>1. p \notin Spare(s, x)
      BY <2>3 DEF Spare, Tabs
    <3>2. Spare(s, x) \ {p} = Spare(s, x)
      BY <3>1
    <3> QED
      BY <1>7, <1>9, <2>1, <2>3, <3>2
  <2> QED
    BY <2>2, <2>3
<1> QED
  BY <1>10, <1>12, <1>14 DEF Good, SameLeaves, v

(* ... and the last one that goes unlocks it.                              *)
LEMMA GoneGood ==
  ASSUME NEW s \in VmStates, NEW p \in Pages, NonswapPteGone(s, p).panic = NoPanic,
         s.page[p].nonswap >= 1, IsTable(s, p), IsRootTable(s, p) <=> p = Root,
         NEW home, NEW N, NEW x, p # x, Good(s, home, N, x)
  PROVE  Good(NonswapPteGone(s, p), home, N, x)
<1> DEFINE t == [s EXCEPT !.page[p].nonswap = @ - 1]
           w == WslUnlockEntry(t, TableKey(p))
           u == IF s.page[p].nonswap = 1 /\ ~IsRootTable(s, p) THEN w ELSE t
           v == NonswapPteGone(s, p)
<1>1. t \in VmStates /\ t.wsl = s.wsl
  <2>1. s.page[p].nonswap - 1 \in Int
    BY PagePart
  <2>2. t.wsl = s.wsl
    BY DEF VmStates
  <2> QED
    BY <2>1, <2>2, SetFieldType
<1>2. v = Then(s, u)
  BY DEF NonswapPteGone
<1>3. Adjusted(s, v, p, 0, 0, -1)
  BY NonswapPteGoneEffect
<1> HIDE DEF t, w, v
<1>4. v = u /\ u.panic = NoPanic
  BY <1>2 DEF Then, v
<1>5. SameLeaves(s, v) /\ Tabs(v, x) = Tabs(s, x) /\ Spare(v, x) \ {p} = Spare(s, x) \ {p}
      /\ (p \in Spare(v, x) <=> p \in Tabs(s, x) /\ s.page[p].nonswap + (-1) = 0)
  BY <1>3, AdjustedSets
<1>6. s.page[p].nonswap \in Int /\ (s.page[p].nonswap + (-1) = 0 <=> s.page[p].nonswap = 1)
  BY PagePart
<1>7. p \notin Spare(s, x) /\ (p \in Tabs(s, x) <=> p # Root)
  BY DEF Spare, Tabs
<1>8. Held(t, home, Leaves(s) \ N, Valids(s) \ N, Tabs(s, x), Spare(s, x))
  BY <1>1 DEF Good, Held, WslIs
<1>9. CASE s.page[p].nonswap = 1 /\ p # Root
  <2>1. Spare(v, x) = Spare(s, x) \cup {p} /\ v = w
    BY <1>4, <1>5, <1>6, <1>7, <1>9
  <2>2. WslUnlockEntry(t, TableKey(p)).panic = NoPanic
    BY <1>4, <2>1 DEF w
  <2>3. Held(w, home, Leaves(s) \ N, Valids(s) \ N, Tabs(s, x), Spare(s, x) \cup {p})
    BY <1>1, <1>8, <2>2, HeldTable DEF w
  <2> QED
    BY <1>5, <2>1, <2>3 DEF Good, SameLeaves, v
<1>10. CASE ~(s.page[p].nonswap = 1 /\ p # Root)
  <2>1. Spare(v, x) = Spare(s, x) /\ v = t
    BY <1>4, <1>5, <1>6, <1>7, <1>10
  <2> QED
    BY <1>5, <1>8, <2>1 DEF Good, SameLeaves, v
<1> QED
  BY <1>9, <1>10

(* A PTE of the table became a swap PTE, or is gone.                       *)
LEMMA BecameSwapGood ==
  ASSUME NEW s \in VmStates, NEW p \in Pages, PteBecameSwap(s, p).panic = NoPanic,
         s.page[p].nonswap >= 1, IsTable(s, p), IsRootTable(s, p) <=> p = Root,
         NEW home, NEW N, NEW x, p # x, Good(s, home, N, x)
  PROVE  Good(PteBecameSwap(s, p), home, N, x)
<1> DEFINE g == NonswapPteGone(s, p)
           r == PageRelease(g, p)
<1>1. g \in VmStates
  BY NonswapPteGoneType
<1>2. r.panic = NoPanic /\ PteBecameSwap(s, p) = r
  BY DEF PteBecameSwap
<1>3. g.panic = NoPanic
  BY <1>2 DEF PageRelease, Kassert, Then
<1>4. g.page[p].use # "Deleted"
  <2>1. Adjusted(s, g, p, 0, 0, -1)
    BY <1>3, NonswapPteGoneEffect
  <2>2. s.page[p].use # "Deleted"
    BY DEF IsTable, TableUses
  <2> QED
    BY <2>1, <2>2 DEF Adjusted
<1>5. Good(g, home, N, x)
  BY <1>3, GoneGood
<1> HIDE DEF g
<1> QED
  BY <1>1, <1>2, <1>4, <1>5, ReleaseGood

(* vmp_pagetable_page_pte_deleted() of a PTE that is not the last one.     *)
LEMMA UncountedGood ==
  ASSUME NEW s \in VmStates, NEW p \in Pages, PteUncounted(s, p).panic = NoPanic,
         s.page[p].nonswap >= 1, IsTable(s, p), IsRootTable(s, p) <=> p = Root,
         NEW home, NEW N, NEW x, p # x, Good(s, home, N, x)
  PROVE  Good(PteUncounted(s, p), home, N, x)
<1> DEFINE t == [s EXCEPT !.page[p].nonzero = @ - 1]
<1>1. t \in VmStates
  BY NonzeroLowered
<1>2. Adjusted(s, t, p, 0, -1, 0) /\ t.wsl = s.wsl
  BY PagePart DEF VmStates, PageDb, PageRec, SameRec, Adjusted
<1>3. PteUncounted(s, p) = PteBecameSwap(t, p)
  BY DEF PteUncounted, PteBecameSwap
<1> HIDE DEF t
<1>4. t.page[p].use = s.page[p].use /\ t.page[p].nonswap = s.page[p].nonswap
  BY <1>2, PagePart DEF Adjusted
<1>5. IsTable(t, p) /\ (IsRootTable(t, p) <=> p = Root)
  BY <1>4 DEF IsTable, IsRootTable
<1>6. Good(t, home, N, x)
  BY <1>2, AdjustedSpare, GoodKept
<1> QED
  BY <1>1, <1>3, <1>4, <1>5, <1>6, BecameSwapGood

-----------------------------------------------------------------------------
(* A PTE changes.                                                          *)
OnePte(s, t, a, e) ==
  /\ \A q \in Pages : t.page[q].use = s.page[q].use /\ t.page[q].nonswap = s.page[q].nonswap
  /\ \A b \in PteAddr : Entry(t, b) = IF b = a THEN e ELSE Entry(s, b)

(* a is mapped now, to a page or to one that is being read.                *)
NewLeaf(s, t, a, valid) ==
  /\ Leaves(t) \ {a} = Leaves(s) /\ Valids(t) \ {a} = Valids(s) /\ a \in Leaves(t)
  /\ a \in Valids(t) <=> valid

(* A PTE does not tell which pages are tables.                             *)
LEMMA OnePteTabs ==
  ASSUME NEW s, NEW t, NEW a, NEW e, OnePte(s, t, a, e)
  PROVE  \A x : Tabs(t, x) = Tabs(s, x) /\ Spare(t, x) = Spare(s, x)
<1>1. \A x : Tabs(t, x) = Tabs(s, x)
  BY DEF OnePte, Tabs, IsTable
<1> QED
  BY <1>1 DEF OnePte, Spare, Tabs

OneDiffers(s, t, a, e) ==
  /\ \A b \in PteAddr \ {a} : /\ b \in Leaves(t) <=> b \in Leaves(s)
                              /\ b \in Valids(t) <=> b \in Valids(s)
  /\ a \in Leaves(t) <=> s.page[a[1]].use = "PML1" /\ e.kind \in Kinds
  /\ a \in Valids(t) <=> s.page[a[1]].use = "PML1" /\ e.kind = "Valid"
  /\ a \in Leaves(s) <=> s.page[a[1]].use = "PML1" /\ Entry(s, a).kind \in Kinds
  /\ a \in Valids(s) <=> s.page[a[1]].use = "PML1" /\ Entry(s, a).kind = "Valid"
  /\ Leaves(s) \subseteq PteAddr /\ Leaves(t) \subseteq PteAddr
  /\ Valids(s) \subseteq PteAddr /\ Valids(t) \subseteq PteAddr

(* What is mapped by another PTE stays mapped by it.                       *)
LEMMA OnePteMembers ==
  ASSUME NEW s, NEW t, NEW a \in PteAddr, NEW e, OnePte(s, t, a, e)
  PROVE  OneDiffers(s, t, a, e)
<1>1. \A b \in PteAddr : b[1] \in Pages
  BY AddrParts
<1>2. \A b \in PteAddr : /\ t.page[b[1]].use = s.page[b[1]].use
                         /\ b # a => Entry(t, b) = Entry(s, b)
  BY <1>1 DEF OnePte
<1>3. Entry(t, a) = e
  BY DEF OnePte
<1>4. \A b \in PteAddr \ {a} : /\ b \in Leaves(t) <=> b \in Leaves(s)
                               /\ b \in Valids(t) <=> b \in Valids(s)
  BY <1>2 DEF Leaves, Valids
<1>5. /\ a \in Leaves(t) <=> s.page[a[1]].use = "PML1" /\ e.kind \in Kinds
      /\ a \in Valids(t) <=> s.page[a[1]].use = "PML1" /\ e.kind = "Valid"
      /\ a \in Leaves(s) <=> s.page[a[1]].use = "PML1" /\ Entry(s, a).kind \in Kinds
      /\ a \in Valids(s) <=> s.page[a[1]].use = "PML1" /\ Entry(s, a).kind = "Valid"
  BY <1>2, <1>3 DEF Leaves, Valids, Kinds
<1>6. /\ Leaves(s) \subseteq PteAddr /\ Leaves(t) \subseteq PteAddr
      /\ Valids(s) \subseteq PteAddr /\ Valids(t) \subseteq PteAddr
  BY DEF Leaves, Valids
<1> QED
  BY <1>4, <1>5, <1>6 DEF OneDiffers

(* A PTE of a directory, or one whose page stays mapped or unmapped.       *)
LEMMA OnePteSame ==
  ASSUME NEW s, NEW t, NEW a \in PteAddr, NEW e, OnePte(s, t, a, e),
         \/ s.page[a[1]].use # "PML1"
         \/ Entry(s, a).kind \notin Kinds /\ e.kind \notin Kinds
         \/ Entry(s, a).kind = "Valid" /\ e.kind = "Valid"
  PROVE  SameLeaves(s, t)
<1>1. "Valid" \in Kinds /\ "Busy" \in Kinds /\ "Busy" # "Valid"
  BY DEF Kinds
<1>2. OneDiffers(s, t, a, e)
  BY <1>1, OnePteMembers
<1> QED
  BY <1>1, <1>2 DEF OneDiffers, SameLeaves

(* A PTE that comes to map a page.                                         *)
LEMMA OnePteNew ==
  ASSUME NEW s, NEW t, NEW a \in PteAddr, NEW e, OnePte(s, t, a, e),
         s.page[a[1]].use = "PML1", Entry(s, a).kind \notin Kinds, e.kind \in Kinds
  PROVE  NewLeaf(s, t, a, e.kind = "Valid")
<1>1. "Valid" \in Kinds
  BY DEF Kinds
<1>2. OneDiffers(s, t, a, e)
  BY <1>1, OnePteMembers
<1> QED
  BY <1>1, <1>2 DEF OneDiffers, NewLeaf

(* A busy PTE whose page has been read.                                    *)
LEMMA OnePteRead ==
  ASSUME NEW s, NEW t, NEW a \in Leaves(s), NEW e, OnePte(s, t, a, e), e.kind = "Valid"
  PROVE  Leaves(t) = Leaves(s) /\ Valids(t) = Valids(s) \cup {a}
<1>1. "Valid" \in Kinds /\ a \in PteAddr
  BY DEF Kinds, Leaves
<1>2. OneDiffers(s, t, a, e)
  BY <1>1, OnePteMembers
<1> QED
  BY <1>1, <1>2 DEF OneDiffers

(* A PTE that no longer maps its page.                                     *)
LEMMA OnePteGone ==
  ASSUME NEW s, NEW t, NEW a \in Leaves(s), NEW e, OnePte(s, t, a, e), e.kind \notin Kinds
  PROVE  Leaves(t) = Leaves(s) \ {a} /\ Valids(t) = Valids(s) \ {a}
<1>1. "Valid" \in Kinds /\ a \in PteAddr
  BY DEF Kinds, Leaves
<1>2. OneDiffers(s, t, a, e)
  BY <1>1, OnePteMembers
<1> QED
  BY <1>1, <1>2 DEF OneDiffers

(* *pte = e changes one PTE.                                               *)
LEMMA SetPteOne ==
  ASSUME NEW s \in VmStates, NEW a \in PteAddr, NEW e, SetPte(s, a, e).panic = NoPanic
  PROVE  OnePte(s, SetPte(s, a, e), a, e)
  BY SetPteEffect DEF OnePte, Entered, SameRec

(* *pte = e of a directory, or of a page that stays mapped or unmapped.    *)
LEMMA SetPteGood ==
  ASSUME NEW s \in VmStates, NEW a \in PteAddr, NEW e, SetPte(s, a, e).panic = NoPanic,
         \/ s.page[a[1]].use # "PML1"
         \/ Entry(s, a).kind \notin Kinds /\ e.kind \notin Kinds
         \/ Entry(s, a).kind = "Valid" /\ e.kind = "Valid",
         NEW home, NEW N, NEW x, Good(s, home, N, x)
  PROVE  Good(SetPte(s, a, e), home, N, x)
<1> DEFINE t == SetPte(s, a, e)
<1>1. OnePte(s, t, a, e)
  BY SetPteOne
<1>2. t.wsl = s.wsl
  BY WslKept, ConstantTypes
<1> HIDE DEF t
<1>3. SameLeaves(s, t) /\ Tabs(t, x) = Tabs(s, x) /\ Spare(t, x) = Spare(s, x)
  BY <1>1, OnePteSame, OnePteTabs
<1>4. Good(t, home, N, x)
  BY <1>2, <1>3, GoodKept
<1> QED
  BY <1>4 DEF t

(* A page is mapped: its entry is still missing.                           *)
LEMMA MapPteGood ==
  ASSUME NEW s \in VmStates, NEW a \in PteAddr, NEW e, SetPte(s, a, e).panic = NoPanic,
         s.page[a[1]].use = "PML1", Entry(s, a).kind \notin Kinds, e.kind \in Kinds,
         NEW home, NEW x, Good(s, home, {}, x)
  PROVE  LET t == SetPte(s, a, e)
         IN  /\ Good(t, home, {a}, x) /\ a \in Leaves(t)
             /\ a \in Valids(t) <=> e.kind = "Valid"
<1> DEFINE t == SetPte(s, a, e)
<1>1. OnePte(s, t, a, e)
  BY SetPteOne
<1>2. t.wsl = s.wsl
  BY WslKept, ConstantTypes
<1> HIDE DEF t
<1>3. /\ Tabs(t, x) = Tabs(s, x) /\ Spare(t, x) = Spare(s, x)
      /\ Leaves(t) \ {a} = Leaves(s) /\ Valids(t) \ {a} = Valids(s)
      /\ a \in Leaves(t)
      /\ a \in Valids(t) <=> e.kind = "Valid"
  <2>1. Tabs(t, x) = Tabs(s, x) /\ Spare(t, x) = Spare(s, x)
    BY <1>1, OnePteTabs
  <2>2. NewLeaf(s, t, a, e.kind = "Valid")
    BY <1>1, OnePteNew
  <2> QED
    BY <2>1, <2>2 DEF NewLeaf
<1>4. Good(t, home, {a}, x)
  <2>1. Leaves(t) \ {a} = Leaves(s) \ {} /\ Valids(t) \ {a} = Valids(s) \ {}
    BY <1>3
  <2> QED
    BY <1>2, <1>3, <2>1 DEF Good, Held, WslIs
<1> QED
  BY <1>3, <1>4 DEF t

-----------------------------------------------------------------------------
(* An entry goes in, and that of the PTE b may have gone out for it.       *)
LeafIn(s, t, home, L, V, Q, W, a, locked) ==
  \/ Same(s, t) /\ Held(t, home, L \cup {a}, Queued(V, a, locked), Q, W)
  \/ \E b \in V : /\ EvictedAt(s, t, b)
                  /\ Held(t, home, (L \ {b}) \cup {a}, Queued(V \ {b}, a, locked), Q, W)

TableIn(s, t, home, L, V, Q, W, p) ==
  \/ Same(s, t) /\ Held(t, home, L, V, Q \cup {p}, W)
  \/ \E b \in V : EvictedAt(s, t, b) /\ Held(t, home, L \ {b}, V \ {b}, Q \cup {p}, W)

(* vmp_wsl_insert() of the entry of a PTE.                                 *)
LEMMA InsertLeafHeld ==
  ASSUME NEW s \in VmStates, NEW home, NEW y, Forest(s, home, y),
         NEW L, NEW V, NEW Q, NEW W, Held(s, home, L, V, Q, W), LowPtes(s, y, L), V \subseteq L,
         NEW a, LeafKey(Addr(home, a)) \in WsKey, NEW locked \in BOOLEAN,
         NEW t, t = WslInsert(s, LeafKey(Addr(home, a)), locked), t.panic = NoPanic
  PROVE  LeafIn(s, t, home, L, V, Q, W, a, locked)
<1> DEFINE k == LeafKey(Addr(home, a))
<1>1. ASSUME NEW A, NEW B
      PROVE  /\ (Keys(home, A) \cup TKeys(Q)) \cup {k} = Keys(home, A \cup {a}) \cup TKeys(Q)
             /\ Queued(Keys(home, B) \cup TKeys(W), k, locked)
                  = Keys(home, Queued(B, a, locked)) \cup TKeys(W)
  <2>1. /\ Keys(home, A \cup {a}) = Keys(home, A) \cup {k}
        /\ Keys(home, B \cup {a}) = Keys(home, B) \cup {k}
    BY KeysMore
  <2> QED
    BY <2>1 DEF Queued
<1>2. \/ Inserted(s, t, k, locked, Keys(home, L) \cup TKeys(Q), Keys(home, V) \cup TKeys(W))
      \/ \E b \in V : MadeRoom(s, t, home, k, locked, L, V, Q, W, b)
  BY InsertHeld
<1> HIDE DEF k
<1>3. CASE Inserted(s, t, k, locked, Keys(home, L) \cup TKeys(Q), Keys(home, V) \cup TKeys(W))
  <2>1. Same(s, t)
    BY <1>3 DEF Inserted
  <2>2. Held(t, home, L \cup {a}, Queued(V, a, locked), Q, W)
    BY <1>1, <1>3 DEF Inserted, Held
  <2> QED
    BY <2>1, <2>2 DEF LeafIn
<1>4. ASSUME NEW b \in V, MadeRoom(s, t, home, k, locked, L, V, Q, W, b)
      PROVE  /\ EvictedAt(s, t, b)
             /\ Held(t, home, (L \ {b}) \cup {a}, Queued(V \ {b}, a, locked), Q, W)
  <2>1. EvictedAt(s, t, b)
    BY <1>4 DEF MadeRoom
  <2>2. Held(t, home, (L \ {b}) \cup {a}, Queued(V \ {b}, a, locked), Q, W)
    BY <1>1, <1>4 DEF MadeRoom, Held
  <2> QED
    BY <2>1, <2>2
<1> QED
  BY <1>2, <1>3, <1>4 DEF LeafIn

(* vmp_wsl_insert() of the entry of a table, which is locked.              *)
LEMMA InsertTableHeld ==
  ASSUME NEW s \in VmStates, NEW home, NEW y, Forest(s, home, y),
         NEW L, NEW V, NEW Q, NEW W, Held(s, home, L, V, Q, W), LowPtes(s, y, L), V \subseteq L,
         NEW p, TableKey(p) \in WsKey,
         NEW t, t = WslInsert(s, TableKey(p), TRUE), t.panic = NoPanic
  PROVE  TableIn(s, t, home, L, V, Q, W, p)
<1> DEFINE k == TableKey(p)
<1>1. ASSUME NEW A, NEW B
      PROVE  /\ (Keys(home, A) \cup TKeys(Q)) \cup {k} = Keys(home, A) \cup TKeys(Q \cup {p})
             /\ Queued(B, k, TRUE) = B
  BY KeysMore DEF Queued
<1>2. TRUE \in BOOLEAN
  OBVIOUS
<1>3. \/ Inserted(s, t, k, TRUE, Keys(home, L) \cup TKeys(Q), Keys(home, V) \cup TKeys(W))
      \/ \E b \in V : MadeRoom(s, t, home, k, TRUE, L, V, Q, W, b)
  BY <1>2, InsertHeld
<1> HIDE DEF k
<1>4. CASE Inserted(s, t, k, TRUE, Keys(home, L) \cup TKeys(Q), Keys(home, V) \cup TKeys(W))
  <2>1. Same(s, t)
    BY <1>4 DEF Inserted
  <2>2. Held(t, home, L, V, Q \cup {p}, W)
    BY <1>1, <1>4 DEF Inserted, Held
  <2> QED
    BY <2>1, <2>2 DEF TableIn
<1>5. ASSUME NEW b \in V, MadeRoom(s, t, home, k, TRUE, L, V, Q, W, b)
      PROVE  EvictedAt(s, t, b) /\ Held(t, home, L \ {b}, V \ {b}, Q \cup {p}, W)
  <2>1. EvictedAt(s, t, b)
    BY <1>5 DEF MadeRoom
  <2>2. Held(t, home, L \ {b}, V \ {b}, Q \cup {p}, W)
    BY <1>1, <1>5 DEF MadeRoom, Held
  <2> QED
    BY <2>1, <2>2
<1> QED
  BY <1>3, <1>4, <1>5 DEF TableIn

(* What an eviction does to the sets.                                      *)
LEMMA EvictedSets ==
  ASSUME NEW s \in VmStates, NEW t, NEW b \in Leaves(s), EvictedAt(s, t, b)
  PROVE  /\ Leaves(t) = Leaves(s) \ {b} /\ Valids(t) = Valids(s) \ {b}
         /\ \A x : Tabs(t, x) = Tabs(s, x) /\ Spare(t, x) = Spare(s, x)
<1> DEFINE q == Entry(s, b).page
<1>1. b \in PteAddr /\ q \in Pages
  BY EntryPart DEF Leaves
<1>2. \A r \in Pages : t.page[r].use = s.page[r].use /\ t.page[r].nonswap = s.page[r].nonswap
  BY DEF EvictedAt, SameRec
<1>3. \A c \in PteAddr : Entry(t, c) = IF c = b THEN TransPte(q) ELSE Entry(s, c)
  BY DEF EvictedAt
<1> HIDE DEF q
<1>4. OnePte(s, t, b, TransPte(q))
  BY <1>2, <1>3 DEF OnePte
<1>5. TransPte(q).kind \notin Kinds
  BY DEF TransPte, ZeroPte, Kinds
<1>6. Leaves(t) = Leaves(s) \ {b} /\ Valids(t) = Valids(s) \ {b}
  BY <1>1, <1>4, <1>5, OnePteGone
<1>7. \A x : Tabs(t, x) = Tabs(s, x) /\ Spare(t, x) = Spare(s, x)
  BY <1>4, OnePteTabs
<1> QED
  BY <1>6, <1>7

(* The list is sound whether or not an entry had to go.                    *)
LEMMA InsertLeafGood ==
  ASSUME NEW s \in VmStates, NEW home, NEW y, Forest(s, home, y),
         NEW a, NEW x, Good(s, home, {a}, x), a \in Leaves(s),
         NEW v, v = Addr(home, a), v \in VAddrs, NEW locked \in BOOLEAN,
         locked <=> a \notin Valids(s), WslInsert(s, LeafKey(v), locked).panic = NoPanic
  PROVE  Good(WslInsert(s, LeafKey(v), locked), home, {}, x)
<1> DEFINE t == WslInsert(s, LeafKey(v), locked)
           L == Leaves(s) \ {a}
           V == Valids(s) \ {a}
           Q == Tabs(s, x)
           W == Spare(s, x)
<1>1. Held(s, home, L, V, Q, W) /\ \A c \in L : Addr(home, c) \in VAddrs
  BY DEF Good
<1>2. LowPtes(s, y, L) /\ V \subseteq L
  BY DEF LowPtes, Leaves, Valids, Forest
<1>3. LeafKey(v) \in WsKey
  BY VmmAssumption DEF LeafKey, WsKey
<1>4. L \cup {a} = Leaves(s) /\ Queued(V, a, locked) = Valids(s)
  BY DEF Queued, Valids
<1>5. ASSUME NEW b \in V
      PROVE  /\ b \in Leaves(s) /\ (L \ {b}) \cup {a} = Leaves(s) \ {b}
             /\ Queued(V \ {b}, a, locked) = Valids(s) \ {b}
  BY DEF Queued, Valids
<1>6. \A c \in Leaves(s) : Addr(home, c) \in VAddrs
  BY <1>1
<1> HIDE DEF L, V, Q, W, t
<1>7. LeafIn(s, t, home, L, V, Q, W, a, locked)
  BY <1>1, <1>2, <1>3, InsertLeafHeld DEF t
<1>8. CASE Same(s, t) /\ Held(t, home, L \cup {a}, Queued(V, a, locked), Q, W)
  <2>1. SameLeaves(s, t) /\ Tabs(t, x) = Q /\ Spare(t, x) = W
    BY <1>8, EqualSets DEF Same, Q, W
  <2>2. Leaves(t) \ {} = L \cup {a} /\ Valids(t) \ {} = Queued(V, a, locked)
    BY <1>4, <2>1 DEF SameLeaves
  <2> QED
    BY <1>4, <1>6, <1>8, <2>1, <2>2 DEF Good, t
<1>9. CASE \E b \in V :
             /\ EvictedAt(s, t, b)
             /\ Held(t, home, (L \ {b}) \cup {a}, Queued(V \ {b}, a, locked), Q, W)
  <2>1. PICK b \in V :
             /\ EvictedAt(s, t, b)
             /\ Held(t, home, (L \ {b}) \cup {a}, Queued(V \ {b}, a, locked), Q, W)
    BY <1>9
  <2>2. /\ Leaves(t) = Leaves(s) \ {b} /\ Valids(t) = Valids(s) \ {b}
        /\ Tabs(t, x) = Q /\ Spare(t, x) = W
    BY <1>5, <2>1, EvictedSets DEF Q, W
  <2>3. Leaves(t) \ {} = (L \ {b}) \cup {a} /\ Valids(t) \ {} = Queued(V \ {b}, a, locked)
    BY <1>5, <2>2
  <2>4. \A c \in Leaves(t) \ {} : Addr(home, c) \in VAddrs
    BY <1>6, <2>2
  <2> QED
    BY <2>1, <2>2, <2>3, <2>4 DEF Good, t
<1> QED
  BY <1>7, <1>8, <1>9 DEF LeafIn

(* An eviction keeps the tree.                                             *)
LEMMA TrimmedForest ==
  ASSUME NEW s \in VmStates, NEW t, Trimmed(s, t), NEW home, NEW y, Forest(s, home, y)
  PROVE  Forest(t, home, y)
<1>1. CASE Same(s, t)
  <2>1. /\ \A q \in Pages : t.page[q].use = s.page[q].use
        /\ \A a : Entry(t, a) = Entry(s, a)
    BY <1>1 DEF Same, SameRec, Entry
  <2> QED
    BY <2>1, ForestKept
<1>2. ASSUME NEW b \in PteAddr, EvictedAt(s, t, b)
      PROVE  Forest(t, home, y)
  <2> DEFINE p == Entry(s, b).page
  <2>1. p \in Pages /\ \A a \in PteAddr : a[1] \in Pages
    BY EntryPart
  <2>2. /\ Entry(s, b).kind = "Valid" /\ IsAnon(s, p)
        /\ \A a \in PteAddr : Entry(t, a) = IF a = b THEN TransPte(p) ELSE Entry(s, a)
        /\ \A q \in Pages : t.page[q].use = s.page[q].use
    BY <1>2 DEF EvictedAt, SameRec
  <2>3. TransPte(p).kind = "Trans"
    BY DEF TransPte, ZeroPte
  <2>4. Root \in Pages /\ home \in [Pages -> PteAddr]
    BY ConstantTypes DEF Forest
  <2>5. \A q \in Pages : IsTable(t, q) <=> IsTable(s, q)
    BY <2>2 DEF IsTable
  <2>6. ASSUME NEW a \in PteAddr, Entry(t, a).kind = "Valid", IsTable(t, a[1]),
               t.page[a[1]].use # "PML1"
        PROVE  /\ home[Entry(t, a).page] = a
               /\ t.page[Entry(t, a).page].use = Below(t.page[a[1]].use)
    <3>1. Entry(t, a) = Entry(s, a) /\ IsTable(s, a[1]) /\ s.page[a[1]].use # "PML1"
      BY <2>1, <2>2, <2>3, <2>5, <2>6
    <3>2. Entry(s, a).page \in Pages
      BY EntryPart
    <3> QED
      BY <2>1, <2>2, <2>6, <3>1, <3>2 DEF Forest
  <2>7. ASSUME NEW q \in Pages \ {Root, y}, IsTable(t, q)
        PROVE  /\ Entry(t, home[q]).kind = "Valid" /\ Entry(t, home[q]).page = q
               /\ IsTable(t, home[q][1]) /\ t.page[q].use = Below(t.page[home[q][1]].use)
    <3>1. home[q] \in PteAddr /\ home[q][1] \in Pages
      BY <2>1, <2>4
    <3>2. /\ Entry(s, home[q]).kind = "Valid" /\ Entry(s, home[q]).page = q
          /\ IsTable(s, home[q][1]) /\ s.page[q].use = Below(s.page[home[q][1]].use)
      BY <2>5, <2>7 DEF Forest
    <3>3. home[q] # b
      BY <2>2, <2>5, <2>7, <3>2 DEF IsAnon, IsTable, TableUses
    <3> QED
      BY <2>2, <2>5, <3>1, <3>2, <3>3
  <2>8. \A a \in PteAddr : a[1] = y => Entry(t, a).kind \notin Kinds
    BY <2>2, <2>3 DEF Forest, Kinds
  <2>9. t.page[Root].use = TableUse[Levels]
    BY <2>2, <2>4 DEF Forest
  <2> HIDE DEF p
  <2> QED
    BY <2>4, <2>6, <2>7, <2>8, <2>9 DEF Forest
<1> QED
  BY <1>1, <1>2 DEF Trimmed

(* A table is entered, locked.                                             *)
LEMMA InsertTableGood ==
  ASSUME NEW s \in VmStates, NEW home, NEW p \in Pages \ {Root}, Forest(s, home, p),
         IsTable(s, p), s.page[p].nonswap # 0, Good(s, home, {}, p),
         WslInsert(s, TableKey(p), TRUE).panic = NoPanic
  PROVE  Good(WslInsert(s, TableKey(p), TRUE), home, {}, NoPage)
<1> DEFINE t == WslInsert(s, TableKey(p), TRUE)
           L == Leaves(s)
           V == Valids(s)
           Q == Tabs(s, p)
           W == Spare(s, p)
<1>1. Held(s, home, L, V, Q, W) /\ \A c \in L : Addr(home, c) \in VAddrs
  <2>1. Leaves(s) \ {} = Leaves(s) /\ Valids(s) \ {} = Valids(s)
    OBVIOUS
  <2> QED
    BY <2>1 DEF Good
<1>2. LowPtes(s, p, L) /\ V \subseteq L
  BY DEF LowPtes, Leaves, Valids, Forest
<1>3. TableKey(p) \in WsKey
  BY DEF TableKey, WsKey
<1>4. Q \cup {p} = Tabs(s, NoPage) /\ W = Spare(s, NoPage)
  <2>1. NoPage \notin Pages
    BY DEF NoPage, Pages
  <2> QED
    BY <2>1 DEF Tabs, Spare
<1> HIDE DEF L, V, Q, W, t
<1>5. TableIn(s, t, home, L, V, Q, W, p)
  BY <1>1, <1>2, <1>3, InsertTableHeld DEF t
<1>6. CASE Same(s, t) /\ Held(t, home, L, V, Q \cup {p}, W)
  <2>1. SameLeaves(s, t) /\ Tabs(t, NoPage) = Q \cup {p} /\ Spare(t, NoPage) = W
    BY <1>4, <1>6, EqualSets DEF Same
  <2>2. Leaves(t) \ {} = L /\ Valids(t) \ {} = V
    BY <2>1 DEF SameLeaves, L, V
  <2> QED
    BY <1>1, <1>6, <2>1, <2>2 DEF Good, t
<1>7. CASE \E b \in V : EvictedAt(s, t, b) /\ Held(t, home, L \ {b}, V \ {b}, Q \cup {p}, W)
  <2>1. PICK b \in V : EvictedAt(s, t, b) /\ Held(t, home, L \ {b}, V \ {b}, Q \cup {p}, W)
    BY <1>7
  <2>2. b \in Leaves(s)
    BY <1>2 DEF L
  <2>3. /\ Leaves(t) = L \ {b} /\ Valids(t) = V \ {b}
        /\ Tabs(t, NoPage) = Q \cup {p} /\ Spare(t, NoPage) = W
    BY <1>4, <2>1, <2>2, EvictedSets DEF L, V
  <2>4. Leaves(t) \ {} = L \ {b} /\ Valids(t) \ {} = V \ {b}
    BY <2>3
  <2> QED
    BY <1>1, <2>1, <2>3, <2>4 DEF Good, t
<1> QED
  BY <1>5, <1>6, <1>7 DEF TableIn

-----------------------------------------------------------------------------
(* A page that is taken is no table, and its PTEs are zero.                *)
LEMMA TakenGood ==
  ASSUME NEW s \in VmStates, NEW t, NEW p \in Pages, NEW use, Taken(s, t, p, use),
         ~IsTable(s, p), t.wsl = s.wsl, NEW home, Good(s, home, {}, NoPage)
  PROVE  Good(t, home, {}, p)
<1>1. \A a \in PteAddr : a[1] \in Pages
  BY AddrParts
<1>2. /\ \A q \in Pages \ {p} : /\ t.page[q].use = s.page[q].use
                                 /\ t.page[q].nonswap = s.page[q].nonswap
      /\ \A b \in PteAddr : Entry(t, b) = IF b[1] = p THEN ZeroPte ELSE Entry(s, b)
  BY DEF Taken, SameRec
<1>3. /\ ZeroPte.kind \notin Kinds /\ "Valid" \in Kinds /\ s.page[p].use # "PML1"
      /\ NoPage \notin Pages
  BY DEF ZeroPte, Kinds, IsTable, TableUses, NoPage, Pages
<1>4. \A a \in PteAddr : /\ (a \in Leaves(t) <=> a \in Leaves(s))
                          /\ (a \in Valids(t) <=> a \in Valids(s))
  BY <1>1, <1>2, <1>3 DEF Leaves, Valids
<1>5. /\ Leaves(s) \subseteq PteAddr /\ Leaves(t) \subseteq PteAddr
      /\ Valids(s) \subseteq PteAddr /\ Valids(t) \subseteq PteAddr
  BY DEF Leaves, Valids
<1>6. Leaves(t) = Leaves(s) /\ Valids(t) = Valids(s)
  BY <1>4, <1>5
<1>7. Tabs(t, p) = Tabs(s, NoPage)
  BY <1>2, <1>3 DEF Tabs, IsTable
<1>8. Spare(t, p) = Spare(s, NoPage)
  BY <1>2, <1>7 DEF Spare, Tabs
<1> QED
  BY <1>6, <1>7, <1>8 DEF Good, Held, WslIs

(* Such a page starts as an empty table.                                   *)
Blank(t, p) == \A b \in PteAddr : b[1] = p => Entry(t, b).kind = "Zero"

(* vmp_page_alloc_locked() clears the page.                                *)
LEMMA TakenBlank ==
  ASSUME NEW s, NEW t, NEW p, NEW use, Taken(s, t, p, use)
  PROVE  Blank(t, p)
  BY DEF Taken, Blank, ZeroPte

(* A page without a reference that holds data has a transition PTE.        *)
LEMMA StandbyTrans ==
  ASSUME NEW s \in VmStates, NEW busy, NEW pins \in Ledger, NEW uses, NEW refs \in Ledger,
         \A q \in Pages : pins[q] >= 0, \A q \in Pages : refs[q] >= 0,
         Maps(s, Home(s), NoPage, busy, pins, uses, refs),
         NEW p \in Pages, s.page[p].use = "AnonPrivate", s.page[p].refcnt = 0
  PROVE  LET ref == s.page[p].referent
         IN  /\ ref \in PteAddr /\ ref[1] \in Pages /\ ref[2] \in Idx
             /\ Entry(s, ref).kind = "Trans" /\ IsTable(s, ref[1]) /\ s.page[ref[1]].nonswap >= 1
<1> DEFINE ref == s.page[p].referent
           home == Home(s)
           d == ref[1]
<1>1. ref \in PteAddr /\ d \in Pages /\ ref[2] \in Idx
  BY PagePart
<1>2. home[p] = ref
  BY DEF Home
<1> HIDE DEF ref, home
<1>3. /\ PagesLinked(s, home, NoPage, busy) /\ BusyLinked(s, home, NoPage, busy)
      /\ PtesLinked(s, home, NoPage) /\ s.page[Root].use = TableUse[Levels]
      /\ Counted(s, pins, uses)
  BY DEF Maps, Linked, home
<1>4. NoPage \notin Pages /\ p # Root
  BY <1>3, UseFacts DEF IsAnon
<1>5. \/ Entry(s, ref).kind \in {"Valid", "Trans"} /\ Entry(s, ref).page = p
      \/ << ref, p >> \in busy
  BY <1>2, <1>3, <1>4 DEF PagesLinked, IsAnon
<1>6. << ref, p >> \in busy => Entry(s, ref).kind = "Busy"
  BY <1>1, <1>3 DEF BusyLinked
<1>7. 0 = refs[p] + Base(s, home, NoPage, p) /\ refs[p] >= 0 /\ refs[p] \in Int
  BY PlusAt, 0 \in Int DEF Maps, Referenced, home
<1>8. ~Mapped(s, home, NoPage, p)
  BY <1>7 DEF Base, IsAnon
<1>9. Entry(s, ref).kind \notin {"Valid", "Busy"}
  BY <1>2, <1>4, <1>8 DEF Mapped
<1>10. Entry(s, ref).kind = "Trans" /\ Entry(s, ref).page = p
  BY <1>5, <1>6, <1>9
<1>11. IsTable(s, d)
  BY <1>1, <1>3, <1>10 DEF PtesLinked
<1>12. s.page[d].nonswap >= 1
  <2>1. IsFiniteSet(InCoreSet(s.table[d])) /\ NumIn(s, d) \in Nat
    BY CountsType
  <2>2. ref[2] \in InCoreSet(s.table[d])
    BY <1>1, <1>10 DEF InCoreSet, Entry
  <2>3. NumIn(s, d) # 0
    BY <2>1, <2>2, FS_EmptySet DEF NumIn
  <2>4. s.page[d].nonswap = pins[d] + NumIn(s, d) /\ pins[d] \in Int /\ pins[d] >= 0
    BY <1>1, <1>3, <1>11, PlusAt, 0 \in Int DEF Counted
  <2> QED
    BY <2>1, <2>3, <2>4
<1> QED
  BY <1>1, <1>10, <1>11, <1>12 DEF ref

(* The root is the only table of its level.                                *)
LEMMA RootOnly ==
  ASSUME NEW s \in VmStates, NEW home, NEW y, Forest(s, home, y), NEW d \in Pages \ {y}
  PROVE  IsRootTable(s, d) <=> d = Root
<1>1. Levels \in 1 .. 4 /\ ~(Levels < Levels)
  BY VmAssumption
<1>2. s.page[Root].use = TableUse[Levels]
  BY DEF Forest
<1>3. d # Root => ~IsRootTable(s, d)
  BY <1>1, RootHighest DEF IsRootTable
<1> QED
  BY <1>2, <1>3 DEF IsRootTable

(* vmp_page_alloc_locked(): of the free queue, ...                         *)
LEMMA TakeFreeGood ==
  ASSUME NEW s \in VmStates, NEW use \in TableUses \cup {"AnonPrivate"}, s.free # << >>,
         Placed(s, NoPage), TakeFree(s, use).panic = NoPanic,
         NEW home, Good(s, home, {}, NoPage)
  PROVE  /\ Good(TakeFree(s, use), home, {}, Head(s.free)) /\ TakeFree(s, use).wsl = s.wsl
         /\ Blank(TakeFree(s, use), Head(s.free))
<1> DEFINE p == Head(s.free)
           v == TakePage(s, p, use)
           u == [v EXCEPT !.free = Tail(@), !.stat.nfree = @ - 1]
           ok == s.page[p].refcnt = 0 /\ s.page[p].nonzero = 0
           k == Kassert(s, s.page[p].referent = NullRef, "resident.c:124", u)
           k2 == Kassert(s, ok, "resident.c:122", k)
<1>1. use \in PageUse
  BY DEF TableUses, PageUse
<1>2. p \in Pages /\ s.page[p].use = "Free"
  <2>1. s.free \in Seq(Pages)
    BY Parts DEF Queue
  <2>2. Lists(s.free, FreeSet(s))
    BY DEF Placed
  <2>3. p \in FreeSet(s)
    BY ONLY <2>1, <2>2, s.free # << >>, ListsTail
  <2> QED
    BY <2>3 DEF FreeSet
<1>3. TakeFree(s, use) = k2
  BY DEF TakeFree
<1> HIDE DEF p
<1>4. v \in VmStates /\ v.wsl = s.wsl
  BY <1>1, <1>2, TakePageType, WslKept
<1>5. u.page = v.page /\ u.table = v.table /\ u.wsl = v.wsl
  BY <1>4 DEF VmStates
<1> HIDE DEF v, u
<1>6. k.panic = NoPanic => k = u
  BY PanicSeen DEF Kassert, Then, NoPanic
<1> HIDE DEF k
<1>7. k2.panic = NoPanic => k2 = k
  BY PanicSeen DEF Kassert, Then, NoPanic
<1> HIDE DEF k2
<1>8. TakeFree(s, use) = u
  BY <1>3, <1>6, <1>7
<1>9. Taken(s, u, p, use)
  BY <1>1, <1>2, <1>5, TakePageEffect DEF v
<1>10. ~IsTable(s, p)
  BY <1>2 DEF IsTable, TableUses
<1>11. Blank(u, p)
  BY <1>9, TakenBlank
<1> QED
  BY <1>2, <1>4, <1>5, <1>8, <1>9, <1>10, <1>11, TakenGood DEF p

(* ... or of the standby queue, whose PTE becomes a swap PTE.              *)
LEMMA StealPageGood ==
  ASSUME NEW s \in VmStates, NEW use \in TableUses \cup {"AnonPrivate"}, s.standby # << >>,
         Placed(s, NoPage), StealPage(s, use).panic = NoPanic,
         NEW busy, NEW pins \in Ledger, NEW uses, NEW refs \in Ledger,
         \A q \in Pages : pins[q] >= 0, \A q \in Pages : refs[q] >= 0,
         Maps(s, Home(s), NoPage, busy, pins, uses, refs), Forest(s, Home(s), NoPage),
         NEW home, Good(s, home, {}, NoPage)
  PROVE  /\ Good(StealPage(s, use), home, {}, Head(s.standby))
         /\ Blank(StealPage(s, use), Head(s.standby))
<1> DEFINE p   == Head(s.standby)
           ref == s.page[p].referent
           x   == SwapPte(s.page[p].drumslot)
           b   == [s EXCEPT !.standby = Tail(@), !.table[ref[1]][ref[2]] = x]
           t   == PteBecameSwap(b, ref[1])
           v   == TakePage(t, p, use)
           u   == [v EXCEPT !.stat.nstandby = @ - 1]
           ok  == t.page[p].refcnt = 0 /\ t.page[p].nonzero = 0
           a   == Kassert(t, ok, "resident.c:81", u)
           k   == Kassert(s, s.page[p].use = "AnonPrivate", "resident.c:78", a)
<1>1. use \in PageUse
  BY DEF TableUses, PageUse
<1>2. p \in Pages /\ s.page[p].use = "AnonPrivate" /\ s.page[p].refcnt = 0
  <2>1. s.standby \in Seq(Pages)
    BY Parts DEF Queue
  <2>2. Lists(s.standby, StandbySet(s) \ {NoPage})
    BY DEF Placed
  <2> DEFINE S == StandbySet(s) \ {NoPage}
  <2> HIDE DEF S
  <2>3. Lists(s.standby, S)
    BY <2>2 DEF S
  <2>4. p \in S
    BY ONLY <2>1, <2>3, s.standby # << >>, ListsTail
  <2>5. p \in StandbySet(s) \ {NoPage}
    BY <2>4 DEF S
  <2> QED
    BY <2>5 DEF StandbySet
<1> HIDE DEF p
<1>3. /\ ref \in PteAddr /\ ref[1] \in Pages /\ ref[2] \in Idx
      /\ Entry(s, ref).kind = "Trans" /\ IsTable(s, ref[1]) /\ s.page[ref[1]].nonswap >= 1
  BY <1>2, StandbyTrans
<1> HIDE DEF ref
<1>4. x \in Pte /\ x.kind \in {"Zero", "Swap"}
  <2>1. s.page[p].drumslot \in Nat \cup {NoSlot}
    BY <1>2, PagePart
  <2>2. x \in Pte
    BY <1>2, <2>1, PteTypes
  <2> QED
    BY <2>2 DEF SwapPte, ZeroPte
<1> HIDE DEF x
<1>5. b \in VmStates
  <2>1. Tail(s.standby) \in Queue
    BY Parts DEF Queue
  <2>2. [s.table EXCEPT ![ref[1]][ref[2]] = x] \in TableMem
    BY <1>3, <1>4, Parts DEF TableMem
  <2> QED
    BY <2>1, <2>2 DEF VmStates
<1>6. OnePte(s, b, ref, x) /\ b.page = s.page /\ b.wsl = s.wsl
  <2>1. /\ b.page = s.page /\ b.table = [s.table EXCEPT ![ref[1]][ref[2]] = x]
        /\ s.table \in TableMem /\ b.wsl = s.wsl
    BY Parts DEF VmStates
  <2> HIDE DEF b
  <2>2. \A e \in Pages, j \in Idx :
          b.table[e][j] = IF e = ref[1] /\ j = ref[2] THEN x ELSE s.table[e][j]
    BY <1>3, <2>1 DEF TableMem
  <2>3. \A c \in PteAddr : Entry(b, c) = IF c = ref THEN x ELSE Entry(s, c)
    BY <1>3, <2>2, AddrParts DEF Entry
  <2> QED
    BY <2>1, <2>3 DEF OnePte
<1> HIDE DEF b
<1>7. t \in VmStates
  BY <1>3, <1>5, PteBecameSwapType
<1>8. v \in VmStates /\ v.wsl = t.wsl
  BY <1>1, <1>2, <1>7, TakePageType, WslKept
<1>9. u.page = v.page /\ u.table = v.table /\ u.wsl = v.wsl
  BY <1>8 DEF VmStates
<1> HIDE DEF v, u, t
<1>10. a.panic = NoPanic => t.panic = NoPanic /\ a = u
  BY <1>7, PanicSeen DEF Kassert, Then, NoPanic
<1> HIDE DEF a
<1>11. k.panic = NoPanic => k = a
  BY PanicSeen, SMTT(60) DEF Kassert, Then, NoPanic
<1> HIDE DEF k, ok
<1>12. StealPage(s, use) = k
  BY Zenon DEF StealPage, k, a, ok, u, v, t, b, x, ref, p
<1>13. t.panic = NoPanic /\ StealPage(s, use) = u
  BY <1>10, <1>11, <1>12
<1>14. Good(b, home, {}, NoPage)
  <2>1. Entry(s, ref).kind \notin Kinds /\ x.kind \notin Kinds
    BY <1>3, <1>4 DEF Kinds
  <2>2. SameLeaves(s, b)
    BY <1>3, <1>6, <2>1, OnePteSame
  <2>3. Tabs(b, NoPage) = Tabs(s, NoPage) /\ Spare(b, NoPage) = Spare(s, NoPage)
    BY <1>6, OnePteTabs
  <2> QED
    BY <1>6, <2>2, <2>3, GoodKept
<1>15. NoPage \notin Pages
  BY DEF NoPage, Pages
<1>16. /\ IsTable(b, ref[1]) /\ b.page[ref[1]].nonswap >= 1
       /\ (IsRootTable(b, ref[1]) <=> ref[1] = Root)
  <2>1. IsRootTable(s, ref[1]) <=> ref[1] = Root
    BY <1>3, <1>15, RootOnly
  <2> QED
    BY <1>3, <1>6, <2>1 DEF IsTable, IsRootTable
<1>17. Good(t, home, {}, NoPage)
  BY <1>3, <1>5, <1>13, <1>14, <1>15, <1>16, BecameSwapGood DEF t
<1>18. Taken(t, u, p, use)
  BY <1>1, <1>2, <1>7, <1>9, TakePageEffect DEF v
<1>19. ~IsTable(t, p)
  <2>1. Adjusted(b, t, ref[1], -1, 0, -1)
    <3>1. b.page[ref[1]].use # "Deleted"
      BY <1>16 DEF IsTable, TableUses
    <3> QED
      BY <1>3, <1>5, <1>13, <3>1, PteBecameSwapEffect DEF t
  <2>2. t.page[p].use = s.page[p].use
    BY <1>2, <1>6, <2>1 DEF Adjusted, SameRec
  <2> QED
    BY <1>2, <2>2 DEF IsTable, TableUses
<1>20. Blank(u, p)
  BY <1>18, TakenBlank
<1> QED
  BY <1>2, <1>7, <1>8, <1>9, <1>13, <1>17, <1>18, <1>19, <1>20, TakenGood DEF p

(* vmp_page_alloc_locked(): a stolen page was mapped by no PTE, so it had  *)
(* no entry.                                                               *)
LEMMA PageAllocGood ==
  ASSUME NEW s \in VmStates, NEW use \in TableUses \cup {"AnonPrivate"}, CanAlloc(s),
         Placed(s, NoPage), PageAlloc(s, use).panic = NoPanic,
         NEW busy, NEW pins \in Ledger, NEW uses, NEW refs \in Ledger,
         \A q \in Pages : pins[q] >= 0, \A q \in Pages : refs[q] >= 0,
         Maps(s, Home(s), NoPage, busy, pins, uses, refs), Forest(s, Home(s), NoPage),
         NEW home, Good(s, home, {}, NoPage)
  PROVE  /\ Good(PageAlloc(s, use), home, {}, AllocatedPage(s))
         /\ Blank(PageAlloc(s, use), AllocatedPage(s))
<1>1. PageAlloc(s, use) = IF s.free # << >> THEN TakeFree(s, use) ELSE StealPage(s, use)
  BY DEF PageAlloc, Then
<1>2. CASE s.free # << >>
  <2>1. PageAlloc(s, use) = TakeFree(s, use) /\ AllocatedPage(s) = Head(s.free)
    BY <1>1, <1>2 DEF AllocatedPage
  <2> QED
    BY <1>2, <2>1, TakeFreeGood
<1>3. CASE s.free = << >>
  <2>1. PageAlloc(s, use) = StealPage(s, use) /\ AllocatedPage(s) = Head(s.standby)
    BY <1>1, <1>3 DEF AllocatedPage
  <2>2. s.standby # << >>
    BY <1>3 DEF CanAlloc
  <2> QED
    BY <2>1, <2>2, StealPageGood
<1> QED
  BY <1>2, <1>3

-----------------------------------------------------------------------------
(***************************************************************************)
(* What a critical section leaves: the list is sound for the addresses of  *)
(* the new state, and the tables and the PTEs that were mapped keep theirs.*)
(***************************************************************************)
Frozen(s, t) ==
  \A q \in Pages : IsTable(s, q) /\ IsTable(t, q) => t.page[q].referent = s.page[q].referent

SameAddrs(s, t) == \A a \in Leaves(s) : Addr(Home(t), a) = Addr(Home(s), a)

Sound(s, t) == Good(t, Home(t), {}, NoPage) /\ Frozen(s, t) /\ SameAddrs(s, t)

(* The list depends on the addresses of what is mapped alone.              *)
LEMMA GoodHome ==
  ASSUME NEW s, NEW home, NEW home2, NEW N, NEW x, Good(s, home, N, x),
         \A a \in Leaves(s) : Addr(home2, a) = Addr(home, a)
  PROVE  Good(s, home2, N, x)
<1>1. Valids(s) \subseteq Leaves(s)
  BY DEF Valids
<1>2. /\ Keys(home2, Leaves(s) \ N) = Keys(home, Leaves(s) \ N)
      /\ Keys(home2, Valids(s) \ N) = Keys(home, Valids(s) \ N)
  BY <1>1 DEF Keys
<1>3. \A a \in Leaves(s) \ N : Addr(home2, a) \in VAddrs
  BY DEF Good
<1> QED
  BY <1>2, <1>3 DEF Good, Held

(* No referent has changed.                                                *)
LEMMA SteadySound ==
  ASSUME NEW s, NEW t, Steady(s, t), Good(t, Home(s), {}, NoPage)
  PROVE  Sound(s, t)
<1>1. Home(t) = Home(s)
  BY SteadyHome
<1>2. Frozen(s, t)
  BY DEF Steady, Frozen
<1>3. SameAddrs(s, t)
  BY <1>1 DEF SameAddrs
<1> QED
  BY <1>1, <1>2, <1>3 DEF Sound

(* Only that of p has, which was no table.  The state r is one in which no *)
(* address leads through p.                                                *)
LEMMA MovedSound ==
  ASSUME NEW s, NEW r \in VmStates, NEW t, NEW p \in Pages, Forest(r, Home(s), p), ~IsTable(s, p),
         \A q \in Pages \ {p} : r.page[q].use = s.page[q].use /\ t.page[q].use = s.page[q].use,
         \A q \in Pages \ {p} : t.page[q].referent = s.page[q].referent,
         Good(t, Home(s), {}, NoPage), \A a \in Leaves(t) : a[1] # p
  PROVE  Sound(s, t)
<1>1. \A a \in PteAddr : a[1] \in Pages
  BY AddrParts
<1>2. \A q \in Pages \ {p} : Home(t)[q] = Home(s)[q]
  BY DEF Home
<1>3. ASSUME NEW a \in PteAddr, a[1] # p, r.page[a[1]].use = "PML1"
      PROVE  Addr(Home(t), a) = Addr(Home(s), a)
  <2> DEFINE home == Home(s)
             home2 == Home(t)
  <2>1. Forest(r, home, p) /\ \A q \in Pages \ {p} : IsTable(r, q) => home2[q] = home[q]
    BY <1>2
  <2> HIDE DEF home, home2
  <2>2. Addr(home2, a) = Addr(home, a)
    BY <1>3, <2>1, SameAddr
  <2> QED
    BY <2>2 DEF home, home2
<1>4. \A a \in Leaves(s) : a \in PteAddr /\ a[1] # p /\ r.page[a[1]].use = "PML1"
  BY <1>1 DEF Leaves, IsTable, TableUses
<1>5. \A a \in Leaves(t) : a \in PteAddr /\ a[1] # p /\ r.page[a[1]].use = "PML1"
  BY <1>1 DEF Leaves
<1>6. Good(t, Home(t), {}, NoPage)
  <2> DEFINE home == Home(s)
             home2 == Home(t)
  <2>1. Good(t, home, {}, NoPage) /\ \A a \in Leaves(t) : Addr(home2, a) = Addr(home, a)
    BY <1>3, <1>5
  <2> HIDE DEF home, home2
  <2>2. Good(t, home2, {}, NoPage)
    BY <2>1, GoodHome
  <2> QED
    BY <2>2 DEF home2
<1>7. SameAddrs(s, t)
  BY <1>3, <1>4 DEF SameAddrs
<1>8. Frozen(s, t)
  BY DEF Frozen
<1> QED
  BY <1>6, <1>7, <1>8 DEF Sound

-----------------------------------------------------------------------------
(* Between two critical sections: some have to give something back, the    *)
(* pages are on the right queues, and the list is sound.                   *)
Owed(s, busy, pins, uses, refs) ==
  /\ pins \in Ledger /\ uses \in Ledger /\ refs \in Ledger
  /\ (\A q \in Pages : pins[q] >= 0 /\ refs[q] >= 0)
  /\ Placed(s, NoPage) /\ Maps(s, Home(s), NoPage, busy, pins, uses, refs)
  /\ Good(s, Home(s), {}, NoPage)

Orderly(s) == \E busy, pins, uses, refs : Owed(s, busy, pins, uses, refs)

Counts(s) == \A q \in Pages : IsTable(s, q) => s.page[q].nonswap >= 0

(* A table counts at least the PTEs that are wired.                        *)
LEMMA CountsHold ==
  ASSUME NEW s \in VmStates, NEW pins \in Ledger, \A q \in Pages : pins[q] >= 0,
         NEW home, NEW hole, NEW busy, NEW uses, NEW refs,
         Maps(s, home, hole, busy, pins, uses, refs)
  PROVE  Counts(s)
<1> SUFFICES ASSUME NEW q \in Pages, IsTable(s, q)
             PROVE  s.page[q].nonswap >= 0
  BY DEF Counts
<1>1. s.page[q].nonswap = pins[q] + NumIn(s, q)
  BY DEF Maps, Counted
<1>2. pins[q] \in Int /\ NumIn(s, q) \in Nat
  BY CountsType DEF Ledger
<1> QED
  BY <1>1, <1>2

(* The tables form a tree under the root.                                  *)
LEMMA OrderlyForest ==
  ASSUME NEW s \in VmStates, Orderly(s)
  PROVE  Forest(s, Home(s), NoPage) /\ Counts(s)
<1>1. PICK busy, pins, uses, refs : Owed(s, busy, pins, uses, refs)
  BY DEF Orderly
<1>2. Home(s) \in [Pages -> PteAddr]
  BY PagePart DEF Home
<1>3. \A a \in PteAddr : a[1] # NoPage
  BY AddrParts DEF NoPage, Pages
<1>4. Maps(s, Home(s), NoPage, busy, pins, uses, refs)
  BY <1>1 DEF Owed
<1>5. Forest(s, Home(s), NoPage)
  BY <1>2, <1>3, <1>4, MapsForest
<1>6. pins \in Ledger /\ \A q \in Pages : pins[q] >= 0
  BY <1>1 DEF Owed
<1>7. Counts(s)
  BY <1>4, <1>6, CountsHold
<1> QED
  BY <1>5, <1>7

(* What vmp_page_alloc_locked() hands out is no table, and no address      *)
(* leads through it.                                                       *)
Ready(s, t, p, use) ==
  /\ p \in Pages \ {Root} /\ ~IsTable(s, p) /\ Allocated(s, t, p, use)
  /\ Forest(t, Home(s), p) /\ Good(t, Home(s), {}, p) /\ Blank(t, p) /\ Counts(t)

(* The page that vmp_page_alloc_locked() finds is ready for use.           *)
LEMMA PageAllocReady ==
  ASSUME NEW s \in VmStates, Orderly(s), NEW use \in TableUses \cup {"AnonPrivate"}, CanAlloc(s),
         PageAlloc(s, use).panic = NoPanic
  PROVE  PageAlloc(s, use) \in VmStates /\ Ready(s, PageAlloc(s, use), AllocatedPage(s), use)
<1> DEFINE p == AllocatedPage(s)
           t == PageAlloc(s, use)
           home == Home(s)
<1>1. PICK busy, pins, uses, refs : Owed(s, busy, pins, uses, refs)
  BY DEF Orderly
<1>2. /\ pins \in Ledger /\ uses \in Ledger /\ refs \in Ledger
      /\ (\A q \in Pages : pins[q] >= 0) /\ \A q \in Pages : refs[q] >= 0
      /\ Placed(s, NoPage) /\ Maps(s, home, NoPage, busy, pins, uses, refs)
      /\ Good(s, home, {}, NoPage)
  BY <1>1 DEF Owed
<1>3. Forest(s, home, NoPage)
  BY OrderlyForest
<1>4. use \in PageUse
  BY DEF TableUses, PageUse
<1>5. t \in VmStates
  BY <1>4, PageAllocType
<1>6. /\ p \in Pages /\ ~IsTable(s, p) /\ Allocated(s, t, p, use)
      /\ Maps(t, home, p, busy, pins, uses, Plus(refs, p, IF use = "AnonPrivate" THEN 1 ELSE 0))
  BY <1>2, PageAllocMaps
<1>7. Good(t, home, {}, p) /\ Blank(t, p)
  BY <1>2, <1>3, PageAllocGood
<1> HIDE DEF p, t
<1>8. home \in [Pages -> PteAddr]
  BY PagePart DEF Home
<1>9. \A a \in PteAddr : a[1] = p => Entry(t, a).kind \notin Kinds
  BY <1>7 DEF Blank, Kinds
<1> HIDE DEF home
<1>10. Forest(t, home, p)
  BY <1>5, <1>6, <1>8, <1>9, MapsForest
<1>11. Counts(t)
  BY <1>2, <1>5, <1>6, CountsHold
<1>12. p # Root
  BY <1>2, <1>6, UseFacts DEF Maps, Linked
<1> QED
  BY <1>5, <1>6, <1>7, <1>10, <1>11, <1>12 DEF Ready, p, t, home

(* A table that takes part in a section has its root test decided and its  *)
(* count of nonswap PTEs sound.                                            *)
LEMMA DirFacts ==
  ASSUME NEW s \in VmStates, NEW home, NEW y, Forest(s, home, y), Counts(s),
         NEW d \in Pages \ {y}, IsTable(s, d)
  PROVE  s.page[d].nonswap >= 0 /\ (IsRootTable(s, d) <=> d = Root)
  BY RootOnly DEF Counts

(* The steps of a section that keep every use and every referent.          *)
LEMMA SteadySteps ==
  ASSUME NEW s \in VmStates, NEW t
  PROVE  /\ \A p, r, n, m : Adjusted(s, t, p, r, n, m) =>
              Steady(s, t) /\ \A b \in PteAddr : Entry(t, b) = Entry(s, b)
         /\ \A a, x : Entered(s, t, a, x) => Steady(s, t)
         /\ Trimmed(s, t) => Steady(s, t)
<1>1. ASSUME NEW p, NEW r, NEW n, NEW m, Adjusted(s, t, p, r, n, m)
      PROVE  Steady(s, t) /\ \A b \in PteAddr : Entry(t, b) = Entry(s, b)
  <2>1. \A q \in Pages : t.page[q].use = s.page[q].use /\ t.page[q].referent = s.page[q].referent
    BY <1>1, Zenon DEF Adjusted, SameRec
  <2> QED
    BY <1>1, <2>1, Zenon DEF Steady, Adjusted, Entry
<1>2. ASSUME NEW a, NEW x, Entered(s, t, a, x)
      PROVE  Steady(s, t)
  BY <1>2 DEF Entered, SameRec, Steady
<1>3. ASSUME Trimmed(s, t)
      PROVE  Steady(s, t)
  BY <1>3, ZenonT(60) DEF Trimmed, Same, SameRec, EvictedAt, Steady
<1> QED
  BY <1>1, <1>2, <1>3

(* Two steps that leave uses and referents alone.                          *)
LEMMA SteadyThen ==
  ASSUME NEW s, NEW t, NEW u, Steady(s, t), Steady(t, u)
  PROVE  Steady(s, u)
  BY DEF Steady

(* The page is given its referent.                                         *)
LEMMA SetReferentGood ==
  ASSUME NEW s \in VmStates, NEW p \in Pages, NEW a, SetReferent(s, p, a).panic = NoPanic,
         NEW home, NEW N, NEW x, Good(s, home, N, x)
  PROVE  /\ Good(SetReferent(s, p, a), home, N, x)
         /\ \A q \in Pages : SetReferent(s, p, a).page[q].use = s.page[q].use
         /\ \A q \in Pages \ {p} : SetReferent(s, p, a).page[q].referent = s.page[q].referent
<1> DEFINE t == SetReferent(s, p, a)
<1>1. Referred(s, t, p, a)
  BY SetReferentEffect
<1>2. t.wsl = s.wsl
  BY WslKept
<1> HIDE DEF t
<1>3. /\ \A q \in Pages : t.page[q].use = s.page[q].use
      /\ \A q \in Pages : t.page[q].nonswap = s.page[q].nonswap
      /\ \A q \in Pages \ {p} : t.page[q].referent = s.page[q].referent
      /\ \A b \in PteAddr : Entry(t, b) = Entry(s, b)
  BY <1>1, Zenon DEF Referred, SameRec, Entry
<1>4. SameLeaves(s, t) /\ Tabs(t, x) = Tabs(s, x)
  BY <1>3, LeavesKept
<1>5. Spare(t, x) = Spare(s, x)
  BY <1>3, <1>4 DEF Spare, Tabs
<1>6. Good(t, home, N, x)
  BY <1>2, <1>4, <1>5, GoodKept
<1> QED
  BY <1>3, <1>6 DEF t

(* A demand-zero fault.                                                    *)
LEMMA ZeroFillSound ==
  ASSUME NEW s \in VmStates, Orderly(s), CanAlloc(s), NEW a \in PteAddr, NEW w \in BOOLEAN,
         Entry(s, a).kind = "Zero", s.page[a[1]].use = "PML1",
         NEW v, v = Addr(Home(s), a), v \in VAddrs,
         ZeroFill(s, a, LeafKey(v), w).panic = NoPanic
  PROVE  Sound(s, ZeroFill(s, a, LeafKey(v), w))
<1> DEFINE p  == AllocatedPage(s)
           x  == HwPte(p, w)
           k  == LeafKey(v)
           s1 == PageAlloc(s, "AnonPrivate")
           s2 == SetPte(s1, a, x)
           s3 == NonswapPteCreated(s2, a[1], TRUE)
           s4 == WslInsert(s3, k, FALSE)
           s5 == SetReferent(s4, p, a)
           home == Home(s)
           d == a[1]
<1>1. s5 = ZeroFill(s, a, k, w)
  BY DEF ZeroFill
<1>2. d \in Pages /\ IsTable(s, d) /\ k \in WsKey
  BY AddrParts, VmmAssumption DEF IsTable, TableUses, LeafKey, WsKey
<1>3. "AnonPrivate" \in PageUse /\ "AnonPrivate" \in TableUses \cup {"AnonPrivate"}
  BY DEF PageUse
<1>4. s1 \in VmStates /\ p \in Pages
  BY <1>3, PageAllocType
<1>5. x \in Pte /\ x.kind = "Valid"
  <2>1. 0 \in Nat \cup {NoSlot}
    OBVIOUS
  <2>2. x \in Pte
    BY ONLY <1>4, <2>1, w \in BOOLEAN, PteTypes
  <2> QED
    BY <2>2 DEF HwPte, ZeroPte
<1> HIDE DEF x, k
<1>6. s2 \in VmStates
  BY <1>4, <1>5, SetPteType
<1>7. s3 \in VmStates
  BY <1>2, <1>6, TRUE \in BOOLEAN, NonswapPteCreatedType
<1>8. s4 \in VmStates
  BY <1>2, <1>7, FALSE \in BOOLEAN, WslInsertType
<1>9. s5.panic = NoPanic => s4.panic = NoPanic /\ Referred(s4, s5, p, a)
  BY <1>4, <1>8, SetReferentEffect
<1>10. s4.panic = NoPanic => s3.panic = NoPanic /\ Trimmed(s3, s4)
  BY <1>2, <1>7, FALSE \in BOOLEAN, WslInsertEffect
<1>11. s3.panic = NoPanic => s2.panic = NoPanic /\ Adjusted(s2, s3, d, 1, 1, 1)
  BY <1>2, <1>6, TRUE \in BOOLEAN, NonswapPteCreatedEffect
<1>12. s2.panic = NoPanic => s1.panic = NoPanic /\ Entered(s1, s2, a, x)
  BY <1>4, SetPteEffect
<1>13. /\ s1.panic = NoPanic /\ s2.panic = NoPanic /\ s3.panic = NoPanic /\ s4.panic = NoPanic
       /\ s5.panic = NoPanic
  BY <1>1, <1>9, <1>10, <1>11, <1>12 DEF k
<1>14. Ready(s, s1, p, "AnonPrivate")
  BY <1>3, <1>13, PageAllocReady
<1> HIDE DEF p
<1>15. /\ p # Root /\ ~IsTable(s, p) /\ s1.page[p].use = "AnonPrivate"
       /\ \A q \in Pages \ {p} : /\ s1.page[q].use = s.page[q].use
                                 /\ s1.page[q].referent = s.page[q].referent
       /\ Forest(s1, home, p) /\ Good(s1, home, {}, p) /\ Counts(s1)
       /\ d # p /\ Entry(s1, a) = Entry(s, a) /\ s1.page[d].use = "PML1"
  <2>1. d # p
    BY <1>2, <1>14 DEF Ready
  <2> QED
    BY <1>2, <1>14, <2>1 DEF Ready, Allocated
<1>16. Good(s1, home, {}, NoPage)
  <2>1. Tabs(s1, p) = Tabs(s1, NoPage) /\ Spare(s1, p) = Spare(s1, NoPage)
    BY <1>15 DEF Tabs, Spare, IsTable, TableUses, NoPage, Pages
  <2> QED
    BY <1>15, <2>1 DEF Good
<1> HIDE DEF home
<1>17. /\ Good(s2, home, {a}, NoPage) /\ a \in Leaves(s2)
       /\ a \in Valids(s2)
  BY <1>4, <1>5, <1>13, <1>15, <1>16, MapPteGood DEF Kinds
<1>18. \A q \in Pages : SameRec(s1, s2, q)
  BY <1>12, <1>13 DEF Entered
<1>19. \A b \in PteAddr : Entry(s2, b) = IF b = a THEN x ELSE Entry(s1, b)
  BY <1>12, <1>13 DEF Entered
<1>20. Forest(s2, home, p)
  <2>1. \A q \in Pages : s2.page[q].use = s1.page[q].use
    BY <1>18 DEF SameRec
  <2>2. \A b \in PteAddr : b[1] = p \/ s1.page[b[1]].use # "PML1" => Entry(s2, b) = Entry(s1, b)
    BY <1>15, <1>19
  <2> QED
    BY <1>4, <1>15, <2>1, <2>2, ForestKept
<1>21. s2.page[d].nonswap >= 0 /\ (IsRootTable(s2, d) <=> d = Root)
  <2>1. IsTable(s1, d)
    BY <1>15 DEF IsTable, TableUses
  <2>2. s1.page[d].nonswap >= 0 /\ (IsRootTable(s1, d) <=> d = Root)
    BY <1>2, <1>4, <1>15, <2>1, DirFacts
  <2> QED
    BY <1>2, <1>18, <2>2 DEF SameRec, IsRootTable
<1>22. Good(s3, home, {a}, NoPage)
  BY <1>2, <1>6, <1>13, <1>17, <1>21, TRUE \in BOOLEAN, CreatedGood
<1>23. SameLeaves(s2, s3)
  BY <1>2, <1>6, <1>11, <1>13, AdjustedSets
<1>24. Steady(s1, s2) /\ Steady(s2, s3) /\ Steady(s3, s4)
       /\ \A b \in PteAddr : Entry(s3, b) = Entry(s2, b)
  BY <1>4, <1>6, <1>7, <1>10, <1>11, <1>12, <1>13, SteadySteps
<1>25. Forest(s3, home, p)
  BY <1>6, <1>20, <1>24, ForestKept DEF Steady
<1>26. Good(s4, home, {}, NoPage)
  <2>1. a \in Leaves(s3) /\ a \in Valids(s3)
    BY <1>17, <1>23 DEF SameLeaves
  <2> QED
    BY <1>7, <1>13, <1>22, <1>25, <2>1, FALSE \in BOOLEAN, InsertLeafGood DEF home, k
<1> HIDE DEF s4
<1>27. /\ Good(s5, home, {}, NoPage)
       /\ \A q \in Pages : s5.page[q].use = s4.page[q].use
       /\ \A q \in Pages \ {p} : s5.page[q].referent = s4.page[q].referent
  BY <1>4, <1>8, <1>13, <1>26, SetReferentGood
<1> HIDE DEF s1, s2, s3, s4, s5
<1>28. Steady(s1, s4)
  BY <1>24, SteadyThen
<1>29. /\ \A q \in Pages : s5.page[q].use = s1.page[q].use
       /\ \A q \in Pages \ {p} : s5.page[q].referent = s.page[q].referent
  BY <1>15, <1>27, <1>28 DEF Steady
<1>30. \A b \in Leaves(s5) : b[1] # p
  BY <1>4, <1>15, <1>29 DEF Leaves
<1>31. Sound(s, s5)
  BY <1>4, <1>15, <1>27, <1>29, <1>30, MovedSound DEF home
<1> QED
  BY <1>1, <1>31 DEF k

(* The first half of a swap-in: the entry is locked.                       *)
LEMMA StartReadSound ==
  ASSUME NEW s \in VmStates, Orderly(s), CanAlloc(s), NEW a \in PteAddr,
         Entry(s, a).kind = "Swap", s.page[a[1]].use = "PML1",
         NEW v, v = Addr(Home(s), a), v \in VAddrs,
         StartRead(s, a, LeafKey(v)).panic = NoPanic
  PROVE  Sound(s, StartRead(s, a, LeafKey(v)))
<1> DEFINE p  == AllocatedPage(s)
           k  == LeafKey(v)
           s1 == PageAlloc(s, "AnonPrivate")
           s2 == SetReferent(s1, p, a)
           s3 == SetPte(s2, a, BusyPte)
           s4 == NonswapPteCreated(s3, a[1], FALSE)
           s5 == WslInsert(s4, k, TRUE)
           home == Home(s)
           d == a[1]
<1>1. s5 = StartRead(s, a, k)
  BY DEF StartRead
<1>2. d \in Pages /\ IsTable(s, d) /\ k \in WsKey
  BY AddrParts, VmmAssumption DEF IsTable, TableUses, LeafKey, WsKey
<1>3. "AnonPrivate" \in PageUse /\ "AnonPrivate" \in TableUses \cup {"AnonPrivate"}
  BY DEF PageUse
<1>4. s1 \in VmStates /\ p \in Pages
  BY <1>3, PageAllocType
<1> HIDE DEF k
<1>5. s2 \in VmStates
  BY <1>4, SetReferentType
<1>6. s3 \in VmStates
  <2>1. 0 \in Nat \cup {NoSlot} /\ FALSE \in BOOLEAN
    OBVIOUS
  <2>2. BusyPte \in Pte
    BY ONLY <1>4, <2>1, PteTypes
  <2> QED
    BY <1>5, <2>2, SetPteType
<1>7. s4 \in VmStates
  BY <1>2, <1>6, FALSE \in BOOLEAN, NonswapPteCreatedType
<1>8. s5.panic = NoPanic => s4.panic = NoPanic /\ Trimmed(s4, s5)
  BY <1>2, <1>7, TRUE \in BOOLEAN, WslInsertEffect
<1>9. s4.panic = NoPanic => s3.panic = NoPanic /\ Adjusted(s3, s4, d, 1, 0, 1)
  BY <1>2, <1>6, FALSE \in BOOLEAN, NonswapPteCreatedEffect
<1>10. s3.panic = NoPanic => s2.panic = NoPanic /\ Entered(s2, s3, a, BusyPte)
  BY <1>5, SetPteEffect
<1>11. s2.panic = NoPanic => s1.panic = NoPanic /\ Referred(s1, s2, p, a)
  BY <1>4, SetReferentEffect
<1>12. /\ s1.panic = NoPanic /\ s2.panic = NoPanic /\ s3.panic = NoPanic /\ s4.panic = NoPanic
       /\ s5.panic = NoPanic
  BY <1>1, <1>8, <1>9, <1>10, <1>11 DEF k
<1>13. Ready(s, s1, p, "AnonPrivate")
  BY <1>3, <1>12, PageAllocReady
<1> HIDE DEF p
<1>14. /\ p # Root /\ ~IsTable(s, p) /\ s1.page[p].use = "AnonPrivate"
       /\ \A q \in Pages \ {p} : /\ s1.page[q].use = s.page[q].use
                                 /\ s1.page[q].referent = s.page[q].referent
       /\ Forest(s1, home, p) /\ Good(s1, home, {}, p) /\ Counts(s1)
       /\ d # p /\ Entry(s1, a) = Entry(s, a) /\ s1.page[d].use = "PML1"
  <2>1. d # p
    BY <1>2, <1>13 DEF Ready
  <2> QED
    BY <1>2, <1>13, <2>1 DEF Ready, Allocated
<1>15. Good(s1, home, {}, NoPage)
  <2>1. Tabs(s1, p) = Tabs(s1, NoPage) /\ Spare(s1, p) = Spare(s1, NoPage)
    BY <1>14 DEF Tabs, Spare, IsTable, TableUses, NoPage, Pages
  <2> QED
    BY <1>14, <2>1 DEF Good
<1> HIDE DEF home, s1
<1>16. /\ Good(s2, home, {}, NoPage)
       /\ \A q \in Pages : s2.page[q].use = s1.page[q].use
       /\ \A q \in Pages \ {p} : s2.page[q].referent = s1.page[q].referent
  BY <1>4, <1>12, <1>15, SetReferentGood
<1>17. /\ \A q \in Pages : s2.page[q].nonswap = s1.page[q].nonswap
       /\ \A b \in PteAddr : Entry(s2, b) = Entry(s1, b)
  BY <1>11, <1>12, Zenon DEF Referred, SameRec, Entry
<1> HIDE DEF s2
<1>18. Forest(s2, home, p) /\ s2.page[d].use = "PML1" /\ Entry(s2, a).kind = "Swap" /\ Counts(s2)
  <2>1. Forest(s2, home, p)
    BY <1>4, <1>14, <1>16, <1>17, ForestKept
  <2> QED
    BY <1>2, <1>14, <1>16, <1>17, <2>1 DEF Counts, IsTable
<1>19. BusyPte.kind = "Busy"
  BY DEF BusyPte, ZeroPte
<1>20. Good(s3, home, {a}, NoPage) /\ a \in Leaves(s3) /\ a \notin Valids(s3)
  BY <1>5, <1>12, <1>16, <1>18, <1>19, MapPteGood DEF Kinds
<1>21. Steady(s2, s3) /\ Steady(s3, s4) /\ Steady(s4, s5)
       /\ \A b \in PteAddr : Entry(s4, b) = Entry(s3, b)
  BY <1>5, <1>6, <1>7, <1>8, <1>9, <1>10, <1>12, SteadySteps
<1>22. \A b \in PteAddr : Entry(s3, b) = IF b = a THEN BusyPte ELSE Entry(s2, b)
  BY <1>10, <1>12 DEF Entered
<1>23. \A q \in Pages : SameRec(s2, s3, q)
  BY <1>10, <1>12 DEF Entered
<1> HIDE DEF s3
<1>24. Forest(s3, home, p)
  <2>1. \A b \in PteAddr : b[1] = p \/ s2.page[b[1]].use # "PML1" => Entry(s3, b) = Entry(s2, b)
    BY <1>14, <1>18, <1>22
  <2> QED
    BY <1>5, <1>18, <1>21, <2>1, ForestKept DEF Steady
<1>25. s3.page[d].nonswap >= 0 /\ (IsRootTable(s3, d) <=> d = Root)
  <2>1. IsTable(s2, d)
    BY <1>18 DEF IsTable, TableUses
  <2>2. s2.page[d].nonswap >= 0 /\ (IsRootTable(s2, d) <=> d = Root)
    BY <1>2, <1>5, <1>14, <1>18, <2>1, DirFacts
  <2> QED
    BY <1>2, <1>23, <2>2 DEF SameRec, IsRootTable
<1>26. Good(s4, home, {a}, NoPage)
  BY <1>2, <1>6, <1>12, <1>20, <1>25, FALSE \in BOOLEAN, CreatedGood
<1>27. SameLeaves(s3, s4)
  BY <1>2, <1>6, <1>9, <1>12, AdjustedSets
<1> HIDE DEF s4
<1>28. Forest(s4, home, p)
  BY <1>6, <1>21, <1>24, ForestKept DEF Steady
<1>29. Good(s5, home, {}, NoPage)
  <2>1. a \in Leaves(s4) /\ a \notin Valids(s4)
    BY <1>20, <1>27 DEF SameLeaves
  <2> QED
    BY <1>7, <1>12, <1>26, <1>28, <2>1, TRUE \in BOOLEAN, InsertLeafGood DEF home, k
<1> HIDE DEF s5
<1>30. Steady(s2, s5)
  BY <1>21, SteadyThen
<1>31. /\ \A q \in Pages : s5.page[q].use = s1.page[q].use
       /\ \A q \in Pages \ {p} : s5.page[q].referent = s.page[q].referent
  BY <1>14, <1>16, <1>30 DEF Steady
<1>32. \A b \in Leaves(s5) : b[1] # p
  BY <1>4, <1>14, <1>31 DEF Leaves
<1>33. Sound(s, s5)
  BY <1>4, <1>14, <1>29, <1>31, <1>32, MovedSound DEF home
<1> QED
  BY <1>1, <1>33 DEF k

(* A transition fault.                                                     *)
LEMMA ReclaimSound ==
  ASSUME NEW s \in VmStates, Orderly(s), NEW a \in PteAddr, NEW p \in Pages,
         Entry(s, a).kind = "Trans", Entry(s, a).page = p, s.page[a[1]].use = "PML1",
         NEW v, v = Addr(Home(s), a), v \in VAddrs,
         Reclaim(s, a, LeafKey(v), p).panic = NoPanic
  PROVE  Sound(s, Reclaim(s, a, LeafKey(v), p))
<1> DEFINE x  == HwPte(p, FALSE)
           k  == LeafKey(v)
           s1 == PageRetain(s, p)
           s2 == SetPte(s1, a, x)
           s3 == WslInsert(s2, k, FALSE)
           home == Home(s)
           d == a[1]
<1>1. s3 = Reclaim(s, a, k, p)
  BY DEF Reclaim
<1>2. d \in Pages /\ k \in WsKey
  BY AddrParts, VmmAssumption DEF LeafKey, WsKey
<1>3. x \in Pte /\ x.kind = "Valid"
  <2>1. 0 \in Nat \cup {NoSlot} /\ FALSE \in BOOLEAN
    OBVIOUS
  <2>2. x \in Pte
    BY ONLY <2>1, p \in Pages, PteTypes
  <2> QED
    BY <2>2 DEF HwPte, ZeroPte
<1> HIDE DEF x, k
<1>4. s1 \in VmStates
  BY PageRetainType
<1>5. s2 \in VmStates
  BY <1>3, <1>4, SetPteType
<1>6. s3.panic = NoPanic => s2.panic = NoPanic /\ Trimmed(s2, s3)
  BY <1>2, <1>5, FALSE \in BOOLEAN, WslInsertEffect
<1>7. s2.panic = NoPanic => s1.panic = NoPanic /\ Entered(s1, s2, a, x)
  BY <1>4, SetPteEffect
<1>8. s1.panic = NoPanic => Refd(s, s1, p, 1)
  BY PageRetainEffect
<1>9. s1.panic = NoPanic /\ s2.panic = NoPanic /\ s3.panic = NoPanic /\ Refd(s, s1, p, 1)
  BY <1>1, <1>6, <1>7, <1>8 DEF k
<1>10. Forest(s, home, NoPage) /\ Good(s, home, {}, NoPage)
  BY OrderlyForest DEF Orderly, Owed
<1> HIDE DEF home
<1>11. Good(s1, home, {}, NoPage)
  BY <1>9, <1>10, RetainGood
<1>12. Steady(s, s1) /\ \A b \in PteAddr : Entry(s1, b) = Entry(s, b)
  <2>1. Adjusted(s, s1, p, 1, 0, 0)
    BY <1>9, RefdAdjusted, 1 \in Int
  <2> QED
    BY <2>1, SteadySteps
<1> HIDE DEF s1
<1>13. Forest(s1, home, NoPage) /\ s1.page[d].use = "PML1" /\ Entry(s1, a).kind = "Trans"
  <2>1. Forest(s1, home, NoPage)
    BY <1>10, <1>12, ForestKept DEF Steady
  <2> QED
    BY <1>2, <1>12, <2>1 DEF Steady
<1>14. Good(s2, home, {a}, NoPage) /\ a \in Leaves(s2) /\ a \in Valids(s2)
  BY <1>3, <1>4, <1>9, <1>11, <1>13, MapPteGood DEF Kinds
<1>15. Steady(s1, s2) /\ Steady(s2, s3)
  BY <1>4, <1>5, <1>6, <1>7, <1>9, SteadySteps
<1>16. \A b \in PteAddr : Entry(s2, b) = IF b = a THEN x ELSE Entry(s1, b)
  BY <1>7, <1>9 DEF Entered
<1> HIDE DEF s2
<1>17. Forest(s2, home, NoPage)
  <2>1. \A b \in PteAddr : b[1] = NoPage \/ s1.page[b[1]].use # "PML1" =>
                              Entry(s2, b) = Entry(s1, b)
    BY <1>2, <1>13, <1>16 DEF NoPage, Pages
  <2> QED
    BY <1>4, <1>13, <1>15, <2>1, ForestKept DEF Steady
<1>18. Good(s3, home, {}, NoPage)
  BY <1>5, <1>9, <1>14, <1>17, FALSE \in BOOLEAN, InsertLeafGood DEF home, k
<1> HIDE DEF s3
<1>19. Steady(s, s3)
  BY <1>12, <1>15, SteadyThen
<1> QED
  BY <1>1, <1>18, <1>19, SteadySound DEF k, home

-----------------------------------------------------------------------------
(* A table is counted, entered and pointed to.                             *)
LEMMA EnterTableGood ==
  ASSUME NEW s \in VmStates, NEW dir \in Pages, NEW i \in Idx, NEW p \in Pages \ {Root},
         NewEntry(s, dir, i, p).panic = NoPanic, NEW a, Enterable(s, dir, i, a, p),
         NEW home, Forest(s, home, p), Good(s, home, {}, p), Counts(s), Blank(s, p)
  PROVE  /\ Good(NewEntry(s, dir, i, p), home, {}, NoPage)
         /\ Blank(NewEntry(s, dir, i, p), p) /\ Steady(s, NewEntry(s, dir, i, p))
         /\ Entry(NewEntry(s, dir, i, p), a).kind = "Valid"
<1> DEFINE x  == HwPte(p, TRUE)
           c  == OneWiring(s, p)
           s1 == Then(s, c)
           k  == TableKey(p)
           s2 == WslInsert(s1, k, TRUE)
           s3 == NonswapPteCreated(s2, dir, TRUE)
           s4 == SetPte(s3, a, x)
<1>1. /\ IsTable(s, p) /\ IsTable(s, dir) /\ s.page[p].use = Below(s.page[dir].use)
      /\ Entry(s, a).kind = "Zero" /\ a = << dir, i >> /\ dir # p
  BY DEF Enterable
<1>2. s4 = NewEntry(s, dir, i, p)
  BY <1>1 DEF NewEntry, EnterTable, OneWiring
<1>3. a \in PteAddr /\ a[1] = dir /\ k \in WsKey
  BY <1>1, TableKeyType DEF PteAddr
<1>4. x \in Pte /\ x.kind = "Valid" /\ x.page = p
  <2>1. 0 \in Nat \cup {NoSlot} /\ TRUE \in BOOLEAN
    OBVIOUS
  <2>2. x \in Pte
    BY ONLY <2>1, p \in Pages, PteTypes
  <2> QED
    BY <2>2 DEF HwPte, ZeroPte
<1> HIDE DEF x
<1>5. c \in VmStates /\ Adjusted(s, c, p, 0, 1, 1) /\ c.wsl = s.wsl
  <2>1. c.wsl = s.wsl
    BY DEF OneWiring, VmStates
  <2> QED
    BY <2>1, TableCounted
<1> HIDE DEF c
<1>6. s1 \in VmStates
  BY <1>5 DEF Then
<1>7. s2 \in VmStates
  BY <1>3, <1>6, TRUE \in BOOLEAN, WslInsertType
<1>8. s3 \in VmStates
  BY <1>7, TRUE \in BOOLEAN, NonswapPteCreatedType
<1>9. s4.panic = NoPanic => s3.panic = NoPanic /\ Entered(s3, s4, a, x)
  BY <1>3, <1>8, SetPteEffect
<1>10. s3.panic = NoPanic => s2.panic = NoPanic /\ Adjusted(s2, s3, dir, 1, 1, 1)
  BY <1>7, TRUE \in BOOLEAN, NonswapPteCreatedEffect
<1>11. s2.panic = NoPanic => s1.panic = NoPanic /\ Trimmed(s1, s2)
  BY <1>3, <1>6, TRUE \in BOOLEAN, WslInsertEffect
<1>12. s1.panic = NoPanic => s1 = c
  BY ThenPassed
<1>13. /\ s2.panic = NoPanic /\ s3.panic = NoPanic /\ s4.panic = NoPanic /\ s1 = c
       /\ Entered(s3, s4, a, x) /\ Adjusted(s2, s3, dir, 1, 1, 1) /\ Trimmed(s1, s2)
       /\ Adjusted(s, s1, p, 0, 1, 1)
  BY <1>2, <1>5, <1>9, <1>10, <1>11, <1>12
<1> HIDE DEF k, s1
<1>14. Steady(s, s1) /\ \A b \in PteAddr : Entry(s1, b) = Entry(s, b)
  BY <1>13, SteadySteps
<1>15. Good(s1, home, {}, p)
  <2>1. /\ SameLeaves(s, s1) /\ Tabs(s1, p) = Tabs(s, p)
        /\ Spare(s1, p) \ {p} = Spare(s, p) \ {p}
    BY <1>13, AdjustedSets
  <2>2. p \notin Spare(s1, p) /\ p \notin Spare(s, p)
    BY DEF Spare, Tabs
  <2>3. Spare(s1, p) = Spare(s, p)
    BY <2>1, <2>2
  <2> QED
    BY <1>5, <1>13, <2>1, <2>3, GoodKept
<1>16. /\ Forest(s1, home, p) /\ IsTable(s1, p) /\ s1.page[p].nonswap # 0
       /\ Blank(s1, p) /\ Counts(s1)
  <2>1. Forest(s1, home, p)
    BY <1>14, ForestKept DEF Steady
  <2>2. s1.page[p].nonswap = s.page[p].nonswap + 1
        /\ \A q \in Pages \ {p} : s1.page[q].nonswap = s.page[q].nonswap
    BY <1>13, Zenon DEF Adjusted, SameRec
  <2>3. s.page[p].nonswap >= 0 /\ s.page[p].nonswap \in Int
    BY <1>1, PagePart DEF Counts
  <2>4. Counts(s1)
    BY <1>14, <2>2, <2>3 DEF Counts, Steady, IsTable
  <2>5. IsTable(s1, p) /\ Blank(s1, p)
    BY <1>1, <1>14 DEF Blank, IsTable, Steady
  <2> QED
    BY <2>1, <2>2, <2>3, <2>4, <2>5
<1>17. Good(s2, home, {}, NoPage)
  BY <1>6, <1>13, <1>15, <1>16, InsertTableGood DEF k
<1> HIDE DEF s2
<1>18. /\ Forest(s2, home, p) /\ Blank(s2, p) /\ Counts(s2) /\ Steady(s1, s2)
  <2>1. Forest(s2, home, p)
    BY <1>6, <1>13, <1>16, TrimmedForest
  <2>2. Steady(s1, s2)
    BY <1>6, <1>13, SteadySteps
  <2>3. \A q \in Pages : s2.page[q].nonswap = s1.page[q].nonswap
    BY <1>13, ZenonT(60) DEF Trimmed, Same, SameRec, EvictedAt
  <2>4. \A b \in PteAddr : Entry(s1, b).kind # "Valid" => Entry(s2, b) = Entry(s1, b)
    <3>1. ASSUME NEW b \in PteAddr, Same(s1, s2)
          PROVE  Entry(s2, b) = Entry(s1, b)
      BY <3>1 DEF Same, Entry
    <3>2. ASSUME NEW b \in PteAddr, NEW e, EvictedAt(s1, s2, e), Entry(s1, b).kind # "Valid"
          PROVE  Entry(s2, b) = Entry(s1, b)
      BY <3>2 DEF EvictedAt
    <3> QED
      BY <1>13, <3>1, <3>2 DEF Trimmed
  <2> QED
    BY <1>16, <2>1, <2>2, <2>3, <2>4 DEF Blank, Counts, Steady, IsTable
<1>19. IsTable(s2, dir) /\ s2.page[dir].use # "PML1"
  <2>1. s.page[dir].use # "PML1"
    BY <1>1 DEF Below, IsTable, TableUses
  <2> QED
    BY <1>1, <1>14, <1>18, <2>1 DEF Steady, IsTable
<1>20. s2.page[dir].nonswap >= 0 /\ (IsRootTable(s2, dir) <=> dir = Root)
  BY <1>1, <1>7, <1>18, <1>19, DirFacts
<1>21. Good(s3, home, {}, NoPage)
  BY <1>7, <1>13, <1>17, <1>20, TRUE \in BOOLEAN, CreatedGood
<1>22. Steady(s2, s3) /\ Steady(s3, s4) /\ \A b \in PteAddr : Entry(s3, b) = Entry(s2, b)
  BY <1>7, <1>8, <1>13, SteadySteps
<1>23. \A b \in PteAddr : Entry(s4, b) = IF b = a THEN x ELSE Entry(s3, b)
  BY <1>13 DEF Entered
<1> HIDE DEF s3
<1>24. s3.page[a[1]].use # "PML1"
  BY <1>3, <1>19, <1>22 DEF Steady
<1>25. Good(s4, home, {}, NoPage)
  BY <1>3, <1>8, <1>13, <1>21, <1>24, SetPteGood
<1>26. Blank(s4, p) /\ Entry(s4, a).kind = "Valid"
  BY <1>1, <1>3, <1>4, <1>18, <1>22, <1>23 DEF Blank
<1>27. Steady(s, s4)
  BY <1>14, <1>18, <1>22, SteadyThen
<1> QED
  BY <1>2, <1>25, <1>26, <1>27

(* A table is made.                                                        *)
LEMMA NewTableSound ==
  ASSUME NEW s \in VmStates, Orderly(s), NEW dir \in Pages, NEW i \in Idx, NEW use \in TableUses,
         NewTable(s, dir, i, use).panic = NoPanic, NEW a, a = << dir, i >>,
         Entry(s, a).kind = "Zero", IsTable(s, dir), use = Below(s.page[dir].use)
  PROVE  Sound(s, NewTable(s, dir, i, use)) /\ Entry(NewTable(s, dir, i, use), a).kind = "Valid"
<1> DEFINE p  == AllocatedPage(s)
           s1 == PageAlloc(s, use)
           s2 == PageRetain(s1, p)
           s3 == SetReferent(s2, p, a)
           s4 == NewEntry(s3, dir, i, p)
           home  == Home(s)
           r == NewTable(s, dir, i, use)
<1>1. r = Kassert(s, CanAlloc(s), "tables.c:226", s4)
  BY DEF NewTable, NewEntry
<1> HIDE DEF s4
<1>2. s.panic = NoPanic /\ CanAlloc(s) /\ r = s4
  BY <1>1, PanicSeen DEF Kassert, Then, NoPanic
<1> HIDE DEF r
<1>3. use \in PageUse /\ use \in TableUses \cup {"AnonPrivate"}
  BY DEF PageUse, TableUses
<1>4. s1 \in VmStates /\ p \in Pages /\ a \in PteAddr
  BY <1>2, <1>3, PageAllocType DEF PteAddr
<1> HIDE DEF p
<1>5. s2 \in VmStates
  BY <1>4, PageRetainType
<1>6. s3 \in VmStates
  BY <1>4, <1>5, SetReferentType
<1>7. s4.panic = NoPanic => s3.panic = NoPanic
  <2> DEFINE c == OneWiring(s3, p)
             t1 == Then(s3, c)
             t2 == WslInsert(t1, TableKey(p), TRUE)
             t3 == NonswapPteCreated(t2, dir, TRUE)
             t4 == SetPte(t3, << dir, i >>, HwPte(p, TRUE))
  <2>1. t4 = s4
    BY DEF NewEntry, EnterTable, OneWiring, s4
  <2> HIDE DEF s3
  <2>2. c \in VmStates
    BY <1>4, <1>6, TableCounted
  <2> HIDE DEF c
  <2>3. t1 \in VmStates
    BY <1>6, <2>2 DEF Then
  <2>4. t2 \in VmStates /\ TableKey(p) \in WsKey
    BY <1>4, <2>3, TableKeyType, WslInsertType
  <2>5. t4.panic = NoPanic => t3.panic = NoPanic
    BY DEF SetPte, Then
  <2>6. t3.panic = NoPanic => t2.panic = NoPanic
    BY <2>4, NonswapPteCreatedEffect
  <2>7. t2.panic = NoPanic => t1.panic = NoPanic
    BY <2>3, <2>4, WslInsertEffect
  <2>8. t1.panic = NoPanic => s3.panic = NoPanic
    BY ThenPassed
  <2> QED
    BY <2>1, <2>5, <2>6, <2>7, <2>8
<1>8. s3.panic = NoPanic => s2.panic = NoPanic /\ Referred(s2, s3, p, a)
  BY <1>4, <1>5, SetReferentEffect
<1>9. s2.panic = NoPanic => s1.panic = NoPanic /\ Refd(s1, s2, p, 1)
  BY <1>4, PageRetainEffect
<1>10. /\ s1.panic = NoPanic /\ s2.panic = NoPanic /\ s3.panic = NoPanic /\ s4.panic = NoPanic
       /\ Refd(s1, s2, p, 1) /\ Referred(s2, s3, p, a)
  BY <1>2, <1>7, <1>8, <1>9 DEF r
<1>11. Ready(s, s1, p, use)
  BY <1>2, <1>3, <1>10, PageAllocReady DEF p
<1>12. s4 = NewEntry(s3, dir, i, p)
  BY Zenon DEF s4
<1>13. /\ p \in Pages \ {Root} /\ ~IsTable(s, p) /\ s1.page[p].use = use
       /\ \A q \in Pages \ {p} : /\ s1.page[q].use = s.page[q].use
                                 /\ s1.page[q].referent = s.page[q].referent
       /\ Forest(s1, home, p) /\ Good(s1, home, {}, p) /\ Counts(s1) /\ Blank(s1, p)
       /\ dir # p /\ Entry(s1, a).kind = "Zero"
  <2>1. dir # p /\ a[1] # p
    BY <1>11 DEF Ready
  <2>2. Entry(s1, a) = Entry(s, a)
    BY <1>4, <1>11, <2>1, Zenon DEF Ready, Allocated
  <2>3. /\ p \in Pages \ {Root} /\ ~IsTable(s, p) /\ Forest(s1, home, p)
        /\ Good(s1, home, {}, p) /\ Counts(s1) /\ Blank(s1, p)
    BY <1>11 DEF Ready
  <2>4. /\ s1.page[p].use = use
        /\ \A q \in Pages \ {p} : /\ s1.page[q].use = s.page[q].use
                                  /\ s1.page[q].referent = s.page[q].referent
    BY <1>11, Zenon DEF Ready, Allocated
  <2> QED
    BY <2>1, <2>2, <2>3, <2>4
<1> HIDE DEF s1, home
<1>14. Good(s2, home, {}, p)
  BY <1>4, <1>10, <1>13, RetainGood
<1>15. /\ Steady(s1, s2) /\ \A b \in PteAddr : Entry(s2, b) = Entry(s1, b)
       /\ \A q \in Pages : s2.page[q].nonswap = s1.page[q].nonswap
  <2>1. Adjusted(s1, s2, p, 1, 0, 0)
    BY <1>4, <1>10, RefdAdjusted, 1 \in Int
  <2> QED
    BY <1>4, <1>10, <2>1, SteadySteps DEF Refd, SameRec
<1> HIDE DEF s2
<1>16. /\ Good(s3, home, {}, p)
       /\ \A q \in Pages : s3.page[q].use = s2.page[q].use
       /\ \A q \in Pages \ {p} : s3.page[q].referent = s2.page[q].referent
  BY <1>4, <1>5, <1>10, <1>14, SetReferentGood
<1>17. /\ \A b \in PteAddr : Entry(s3, b) = Entry(s2, b)
       /\ \A q \in Pages : s3.page[q].nonswap = s2.page[q].nonswap
  BY <1>10, Zenon DEF Referred, SameRec, Entry
<1> HIDE DEF s3
<1>18. /\ \A q \in Pages : s3.page[q].use = s1.page[q].use
       /\ \A b \in PteAddr : Entry(s3, b) = Entry(s1, b)
       /\ \A q \in Pages : s3.page[q].nonswap = s1.page[q].nonswap
       /\ \A q \in Pages \ {p} : s3.page[q].referent = s.page[q].referent
  BY <1>13, <1>15, <1>16, <1>17 DEF Steady
<1>19. Forest(s3, home, p) /\ Counts(s3) /\ Blank(s3, p)
  <2>1. Forest(s3, home, p)
    BY <1>4, <1>13, <1>18, ForestKept
  <2> QED
    BY <1>13, <1>18, <2>1 DEF Counts, Blank, IsTable
<1>20. Enterable(s3, dir, i, a, p)
  <2>1. s3.page[dir].use = s.page[dir].use /\ s3.page[p].use = use
    BY <1>13, <1>18
  <2>2. Entry(s3, a).kind = "Zero"
    BY <1>4, <1>13, <1>18
  <2> QED
    BY <1>13, <2>1, <2>2 DEF Enterable, IsTable
<1>21. Good(s4, home, {}, NoPage) /\ Blank(s4, p) /\ Steady(s3, s4) /\ Entry(s4, a).kind = "Valid"
  BY <1>6, <1>10, <1>12, <1>13, <1>16, <1>19, <1>20, EnterTableGood
<1>22. /\ \A q \in Pages \ {p} : s1.page[q].use = s.page[q].use /\ s4.page[q].use = s.page[q].use
       /\ \A q \in Pages \ {p} : s4.page[q].referent = s.page[q].referent
  BY <1>13, <1>18, <1>21 DEF Steady
<1>23. \A b \in Leaves(s4) : b[1] # p
  BY <1>21 DEF Leaves, Blank, Kinds
<1>24. Sound(s, s4)
  BY <1>4, <1>13, <1>21, <1>22, <1>23, MovedSound DEF home
<1> QED
  BY <1>2, <1>21, <1>24 DEF r

(* A table that is in core is wired.                                       *)
LEMMA WiredSound ==
  ASSUME NEW s \in VmStates, Orderly(s), NEW p \in Pages, IsTable(s, p),
         NonswapPteCreated(s, p, TRUE).panic = NoPanic
  PROVE  /\ Sound(s, NonswapPteCreated(s, p, TRUE))
         /\ \A b \in PteAddr : Entry(NonswapPteCreated(s, p, TRUE), b) = Entry(s, b)
<1> DEFINE t == NonswapPteCreated(s, p, TRUE)
           home == Home(s)
<1>1. Adjusted(s, t, p, 1, 1, 1)
  BY TRUE \in BOOLEAN, NonswapPteCreatedEffect
<1>2. Good(s, home, {}, NoPage) /\ Forest(s, home, NoPage) /\ Counts(s)
  BY OrderlyForest DEF Orderly, Owed
<1>3. p \in Pages \ {NoPage}
  BY DEF NoPage, Pages
<1> HIDE DEF home
<1>4. s.page[p].nonswap >= 0 /\ (IsRootTable(s, p) <=> p = Root)
  BY <1>2, <1>3, DirFacts
<1>5. Good(t, home, {}, NoPage)
  BY <1>2, <1>4, TRUE \in BOOLEAN, CreatedGood
<1> HIDE DEF t
<1>6. Steady(s, t) /\ \A b \in PteAddr : Entry(t, b) = Entry(s, b)
  BY <1>1, SteadySteps
<1> QED
  BY <1>5, <1>6, SteadySound DEF t, home

(* vmp_wire_pte(), one level.                                              *)
LEMMA WireTableSound ==
  ASSUME NEW s \in VmStates, Orderly(s), NEW dir \in Pages, NEW i \in Idx, NEW use \in TableUses,
         WireTable(s, dir, i, use).panic = NoPanic,
         IsTable(s, dir), use = Below(s.page[dir].use)
  PROVE  /\ Sound(s, WireTable(s, dir, i, use))
         /\ Entry(WireTable(s, dir, i, use), << dir, i >>).kind = "Valid"
<1> DEFINE a == << dir, i >>
           p == Entry(s, a).page
           t == WireTable(s, dir, i, use)
<1>1. a \in PteAddr /\ a[1] = dir /\ Entry(s, a) = s.table[dir][i]
  BY DEF PteAddr, Entry
<1>2. p \in Pages /\ Entry(s, a).kind \in PteKind
  BY <1>1, EntryPart
<1>3. Entry(s, a).kind \in {"Valid", "Trans"} =>
        s.page[p].use = use /\ (Entry(s, a).kind = "Trans" => s.page[dir].use = "PML1")
  BY <1>1, Zenon DEF Orderly, Owed, Maps, Linked, PtesLinked
<1>4. CASE Entry(s, a).kind = "Valid"
  <2>1. t = NonswapPteCreated(s, p, TRUE)
    BY <1>1, <1>4 DEF WireTable
  <2>2. IsTable(s, p)
    BY <1>3, <1>4 DEF IsTable
  <2> HIDE DEF p, t
  <2>3. Sound(s, t) /\ Entry(t, a) = Entry(s, a)
    BY <1>1, <1>2, <2>1, <2>2, WiredSound DEF t
  <2> QED
    BY <1>4, <2>3 DEF t
<1>5. CASE Entry(s, a).kind = "Trans"
  <2>1. use = "AnonPrivate"
    BY <1>3, <1>5 DEF Below
  <2> QED
    BY <2>1 DEF TableUses
<1>6. CASE Entry(s, a).kind = "Zero"
  <2>1. t = NewTable(s, dir, i, use)
    BY <1>1, <1>6 DEF WireTable
  <2> QED
    BY <1>6, <2>1, NewTableSound
<1>7. CASE Entry(s, a).kind \in {"Busy", "Swap"}
  <2>1. t = Kfatal(s, "tables.c:203") \/ t = Kfatal(s, "tables.c:216")
    BY <1>1, <1>7 DEF WireTable
  <2> QED
    BY <2>1, KfatalPassed DEF NoPanic
<1> QED
  BY <1>2, <1>4, <1>5, <1>6, <1>7 DEF PteKind

-----------------------------------------------------------------------------
(* The entry of a directory for a table that is going away is zeroed: the  *)
(* leaves are what they were, and the directory is unlocked with its last  *)
(* wiring.                                                                 *)
LEMMA PointersGood ==
  ASSUME NEW s \in VmStates, NEW p \in Pages, DeleteTablePointers(s, p).panic = NoPanic,
         NEW a, a = s.page[p].referent, NEW dir, dir = a[1],
         IsTable(s, dir), s.page[dir].use # "PML1", s.page[dir].nonswap >= 1,
         IsRootTable(s, dir) <=> dir = Root,
         NEW home, NEW N, NEW x, dir # x, Good(s, home, N, x)
  PROVE  Good(DeleteTablePointers(s, p), home, N, x)
<1> DEFINE i   == a[2]
           t   == [s EXCEPT !.table[dir][i] = ZeroPte]
           z   == SetPte(s, a, ZeroPte)
           u   == PteUncounted(t, dir)
           c   == Kassert(s, ~LastPte(s, dir), "tables.c:97", u)
           ok  == s.table[dir][i].kind \in {"Valid", "Trans"}
           d   == Kassert(s, ok, "tables.c:94", c)
           e   == Kassert(s, i = 0, "resident.c:207", d)
<1>1. a \in PteAddr /\ dir \in Pages /\ i \in Idx
  BY PagePart
<1>2. t \in VmStates /\ t.panic = s.panic
  <2>1. ZeroPte \in Pte
    BY ConstantTypes DEF Pte, PteKind, ZeroPte
  <2> HIDE DEF i
  <2> QED
    BY <1>1, <2>1, SetTableType DEF VmStates
<1> HIDE DEF i, t, u
<1>3. c.panic = NoPanic => s.panic = NoPanic /\ c = u
  BY PanicSeen, SMTT(30) DEF Kassert, Then, NoPanic
<1> HIDE DEF c
<1>4. d.panic = NoPanic => s.panic = NoPanic /\ ok /\ d = c
  BY PanicSeen DEF Kassert, Then, NoPanic
<1> HIDE DEF d, ok
<1>5. e.panic = NoPanic => s.panic = NoPanic /\ e = d
  BY PanicSeen, Zenon DEF Kassert, Then, NoPanic
<1> HIDE DEF e
<1>6. e = DeleteTablePointers(s, p)
  BY Zenon DEF DeleteTablePointers, i, t, u, c, ok, d, e
<1>7. s.panic = NoPanic /\ DeleteTablePointers(s, p) = u /\ u.panic = NoPanic
  BY <1>6, <1>3, <1>4, <1>5
<1>8. z = t
  BY <1>7 DEF SetPte, Then, t, i
<1>9. Entered(s, t, a, ZeroPte)
  BY <1>1, <1>2, <1>7, <1>8, SetPteEffect
<1>10. Good(t, home, N, x)
  BY <1>1, <1>2, <1>7, <1>8, SetPteGood
<1>11. SameRec(s, t, dir)
  BY <1>1, <1>9 DEF Entered
<1>12. IsTable(t, dir) /\ t.page[dir].nonswap >= 1 /\ (IsRootTable(t, dir) <=> dir = Root)
  BY <1>11 DEF SameRec, IsTable, IsRootTable
<1>13. Good(u, home, N, x)
  BY <1>1, <1>2, <1>7, <1>10, <1>12, UncountedGood DEF u
<1> QED
  BY <1>7, <1>13

(* A table page that is deleted, with its wiring and no PTE in it, leaves  *)
(* the list: its entry is unlocked and removed.                            *)
ForgetFrom(s, d, p) ==
  /\ d.wsl = s.wsl /\ d.table = s.table /\ d.page[p].nonswap = 1 /\ ~IsTable(d, p)
  /\ d.page[p].use # "PML1"
  /\ \A q \in Pages \ {p} : SameRec(s, d, q)

(* vmp_pagetable_page_pte_deleted() of the last PTE takes the table out of *)
(* the list.                                                               *)
LEMMA ForgetGood ==
  ASSUME NEW s \in VmStates, NEW d \in VmStates, NEW p \in Pages, ForgetFrom(s, d, p),
         p # Root, IsTable(s, p), s.page[p].nonswap = 1, Blank(s, p),
         ForgetTable(d, p).panic = NoPanic, NEW home, Good(s, home, {}, NoPage)
  PROVE  Good(ForgetTable(d, p), home, {}, NoPage)
<1> DEFINE e == WslUnlockEntry(d, TableKey(p))
           g == WslRemove(e, TableKey(p))
           L == Leaves(s)
           V == Valids(s)
           Q == Tabs(s, NoPage)
           W == Spare(s, NoPage)
<1>1. ForgetTable(d, p) = g
  BY DEF ForgetTable, ForgetFrom
<1>2. e \in VmStates /\ g \in VmStates
  BY TableKeyType, WslUnlockEntryType, WslRemoveType
<1>3. (g.panic = NoPanic => e.panic = NoPanic /\ Same(e, g))
      /\ (e.panic = NoPanic => Same(d, e))
  BY <1>2, WslEntryEffect
<1> HIDE DEF g, e
<1>4. Same(d, e) /\ Same(e, g) /\ e.panic = NoPanic /\ g.panic = NoPanic
  BY <1>1, <1>3
<1>5. Same(d, g)
  BY <1>4, SameThen
<1>6. Held(d, home, L, V, Q, W) /\ \A a \in L : Addr(home, a) \in VAddrs
  <2>1. L \ {} = L /\ V \ {} = V
    OBVIOUS
  <2>2. Held(s, home, L, V, Q, W) /\ \A a \in L : Addr(home, a) \in VAddrs
    BY <2>1 DEF Good
  <2> HIDE DEF L, V, Q, W
  <2> QED
    BY <2>2 DEF Held, WslIs, ForgetFrom
<1> HIDE DEF L, V, Q, W
<1>7. Held(e, home, L, V, Q, W \cup {p})
  BY <1>4, <1>6, HeldTable DEF e
<1>8. Held(g, home, L, V, Q \ {p}, (W \cup {p}) \ {p})
  BY <1>2, <1>4, <1>7, HeldTable DEF g
<1>9. /\ g.table = s.table /\ g.page[p].use # "PML1" /\ ~IsTable(g, p)
      /\ \A q \in Pages \ {p} : /\ g.page[q].use = s.page[q].use
                                /\ g.page[q].nonswap = s.page[q].nonswap
  BY <1>5 DEF Same, SameRec, ForgetFrom, IsTable
<1>10. \A a \in PteAddr : Entry(g, a) = Entry(s, a) /\ a[1] \in Pages
  BY <1>9, AddrParts DEF Entry
<1>11. \A a \in PteAddr : a[1] = p => Entry(s, a).kind \notin Kinds
  BY DEF Blank, Kinds
<1>12. Leaves(g) = L
  BY <1>9, <1>10, <1>11 DEF Leaves, L
<1>13. Valids(g) = V
  BY <1>10, <1>12 DEF Valids, Leaves, V, L
<1>14. Tabs(g, NoPage) = Q \ {p}
  BY <1>9 DEF Tabs, IsTable, Q
<1>15. p \notin W
  BY DEF W, Spare
<1>16. Spare(g, NoPage) = W
  <2>1. \A q \in Q \ {p} : g.page[q].nonswap = s.page[q].nonswap
    BY <1>9 DEF Q, Tabs
  <2>2. Spare(g, NoPage) = {q \in Q \ {p} : g.page[q].nonswap = 0}
    BY <1>14 DEF Spare
  <2>3. W = {q \in Q : s.page[q].nonswap = 0}
    BY DEF W, Spare, Q
  <2> QED
    BY <1>15, <2>1, <2>2, <2>3
<1>17. (W \cup {p}) \ {p} = W /\ L \ {} = L /\ V \ {} = V
  BY <1>15
<1>18. Held(g, home, L, V, Q \ {p}, W)
  BY <1>8, <1>17
<1>19. Good(g, home, {}, NoPage)
  BY <1>6, <1>12, <1>13, <1>14, <1>16, <1>17, <1>18 DEF Good
<1> QED
  BY <1>1, <1>19

(* A page leaves the queues and the tables: nothing of the list changes.   *)
LEMMA UntabledGood ==
  ASSUME NEW s, NEW t, NEW p, NEW home, Good(s, home, {}, NoPage), t.wsl = s.wsl,
         \A b \in PteAddr : Entry(t, b) = Entry(s, b),
         \A q \in Pages \ {p} : SameRec(s, t, q),
         s.page[p].use \in {"Deleted", "Free"}, t.page[p].use \in {"Deleted", "Free"}
  PROVE  Good(t, home, {}, NoPage)
<1>1. \A q \in Pages \ {p} : t.page[q].use = s.page[q].use /\ t.page[q].nonswap = s.page[q].nonswap
  BY DEF SameRec
<1>2. /\ ~IsTable(s, p) /\ ~IsTable(t, p) /\ s.page[p].use # "PML1" /\ t.page[p].use # "PML1"
  BY DEF IsTable, TableUses
<1>3. \A b \in PteAddr : b[1] \in Pages
  BY AddrParts
<1>4. Leaves(t) = Leaves(s)
  BY <1>1, <1>2, <1>3 DEF Leaves
<1>5. Valids(t) = Valids(s)
  BY <1>4 DEF Valids, Leaves
<1>6. Tabs(t, NoPage) = Tabs(s, NoPage)
  BY <1>1, <1>2 DEF Tabs, IsTable
<1>7. \A q \in Tabs(s, NoPage) : t.page[q].nonswap = s.page[q].nonswap
  BY <1>1, <1>2 DEF Tabs
<1>8. Spare(t, NoPage) = Spare(s, NoPage)
  BY <1>6, <1>7 DEF Spare
<1> QED
  BY <1>4, <1>5, <1>6, <1>8, GoodKept DEF SameLeaves

(* vmp_pagetable_page_pte_deleted() of the last PTE of p: p leaves the     *)
(* list, and the directory that names it loses a wiring.                   *)
LEMMA FreeTableGood ==
  ASSUME NEW s \in VmStates, NEW p \in Pages, FreeTable(s, p).panic = NoPanic,
         p # Root, IsTable(s, p), s.page[p].nonswap = 1, Blank(s, p), s.page[p].refcnt = 2,
         NEW ref, ref = s.page[p].referent, NEW dir, dir = ref[1], dir # p,
         IsTable(s, dir), s.page[dir].use # "PML1", s.page[dir].nonswap >= 1,
         IsRootTable(s, dir) <=> dir = Root, NEW home, Good(s, home, {}, NoPage)
  PROVE  Good(FreeTable(s, p), home, {}, NoPage)
<1> DEFINE d == [s EXCEPT !.page[p].nonzero = @ - 1, !.page[p].use = "Deleted"]
           g == ForgetTable(d, p)
           t == DeleteTablePointers(g, p)
           n == [t EXCEPT !.page[p].nonswap = 0, !.page[p].referent = NullRef]
           u == Then(t, n)
           v == PageRelease(u, p)
           w == PageRelease(v, p)
<1>1. ref \in PteAddr /\ dir \in Pages
  BY PagePart, AddrParts
<1>2. d \in VmStates
  <2>1. s.page[p].nonzero - 1 \in Int
    BY PagePart
  <2>2. [s.page[p] EXCEPT !.nonzero = @ - 1, !.use = "Deleted"] \in PageRec
    BY <2>1, PagePart, PageRecUpdate2, Zenon DEF PageUse
  <2>3. [s.page EXCEPT ![p].nonzero = @ - 1, ![p].use = "Deleted"] \in PageDb
    BY <2>2, Parts DEF PageDb
  <2> QED
    BY <2>3 DEF VmStates
<1>3. /\ d.table = s.table /\ d.panic = s.panic /\ d.wsl = s.wsl
      /\ \A q \in Pages \ {p} : SameRec(s, d, q)
      /\ d.page[p].use = "Deleted" /\ d.page[p].refcnt = 2 /\ d.page[p].referent = ref
      /\ d.page[p].nonswap = 1
  BY DEF VmStates, PageDb, PageRec, SameRec
<1> HIDE DEF d
<1>4. g \in VmStates
  BY <1>2, ForgetTableType
<1>5. g.panic = NoPanic => d.panic = NoPanic /\ Same(d, g)
  BY <1>2, ForgetTableEffect, Zenon
<1> HIDE DEF g
<1>6. t \in VmStates
  BY <1>4, DeleteTablePointersType
<1>7. g.panic # NoPanic => t.panic # NoPanic
  BY Zenon DEF DeleteTablePointers, Kassert, Then
<1> HIDE DEF t
<1>8. /\ n \in VmStates /\ n.table = t.table /\ n.panic = t.panic /\ n.wsl = t.wsl
      /\ \A q \in Pages \ {p} : SameRec(t, n, q)
      /\ n.page[p].use = t.page[p].use /\ n.page[p].refcnt = t.page[p].refcnt
  <2>1. NullRef \in PteAddr
    BY ConstantTypes, Zenon
  <2>2. [t.page[p] EXCEPT !.nonswap = 0, !.referent = NullRef] \in PageRec
    <3>1. t.page[p] \in PageRec /\ 0 \in Int
      BY <1>6, PagePart
    <3> HIDE DEF NullRef
    <3> QED
      BY <2>1, <3>1, PageRecUpdate2, Zenon
  <2>3. [t.page EXCEPT ![p].nonswap = 0, ![p].referent = NullRef] \in PageDb
    BY <1>6, <2>2, Parts DEF PageDb
  <2>4. n \in VmStates
    BY <1>6, <2>3 DEF VmStates
  <2> QED
    BY <1>6, <2>4 DEF VmStates, PageDb, PageRec, SameRec
<1> HIDE DEF n
<1>9. u \in VmStates /\ (u.panic = NoPanic => t.panic = NoPanic /\ u = n)
  BY <1>6, <1>8 DEF Then
<1> HIDE DEF u
<1>10. v \in VmStates /\ (v.panic = NoPanic => u.panic = NoPanic)
  BY <1>9, PageReleaseType, Zenon DEF PageRelease, Kassert, Then
<1>11. w.panic = NoPanic => v.panic = NoPanic
  BY ZenonT(60) DEF PageRelease, Kassert, Then
<1>12. w = FreeTable(s, p)
  BY Zenon DEF FreeTable, d, g, t, n, u
<1>13. /\ w.panic = NoPanic /\ v.panic = NoPanic /\ u = n /\ u.panic = NoPanic
       /\ t.panic = NoPanic /\ g.panic = NoPanic /\ d.panic = NoPanic /\ Same(d, g)
  BY <1>5, <1>7, <1>9, <1>10, <1>11, <1>12
<1>14. Good(g, home, {}, NoPage)
  <2>1. ForgetFrom(s, d, p)
    BY <1>3 DEF ForgetFrom, IsTable, TableUses
  <2> QED
    BY <1>2, <1>13, <2>1, ForgetGood DEF g
<1>15. SameRec(s, d, dir) /\ SameRec(d, g, dir) /\ SameRec(d, g, p)
  BY <1>1, <1>3, <1>13 DEF Same
<1>16. /\ g.page[p].referent = ref /\ g.page[p].use = "Deleted" /\ g.page[p].refcnt = 2
       /\ IsTable(g, dir) /\ g.page[dir].use # "PML1" /\ g.page[dir].nonswap >= 1
       /\ (IsRootTable(g, dir) <=> dir = Root)
  <2>1. g.page[p].referent = ref /\ g.page[p].use = "Deleted" /\ g.page[p].refcnt = 2
    BY <1>3, <1>15, Zenon DEF SameRec
  <2>2. g.page[dir].use = s.page[dir].use /\ g.page[dir].nonswap = s.page[dir].nonswap
    BY <1>15, Zenon DEF SameRec
  <2> QED
    BY <2>1, <2>2, Zenon DEF IsTable, IsRootTable
<1>17. dir # NoPage
  BY <1>1 DEF NoPage, Pages
<1>18. Good(t, home, {}, NoPage)
  BY <1>4, <1>13, <1>14, <1>16, <1>17, PointersGood DEF t
<1>19. t.page[p].use = "Deleted" /\ t.page[p].refcnt = 2
  <2>1. g.page[g.page[p].referent[1]].use # "Deleted"
    BY <1>16 DEF IsTable, TableUses
  <2>2. Unmapped(g, t, g.page[p].referent)
    BY <1>4, <1>13, <2>1, DeleteTablePointersEffect DEF t
  <2>3. Unmapped(g, t, ref) /\ p \in Pages \ {ref[1]}
    BY <1>16, <2>2
  <2>4. SameRec(g, t, p)
    BY <2>3, Zenon DEF Unmapped
  <2> QED
    BY <1>16, <2>4 DEF SameRec
<1>20. u.page[p].use = "Deleted" /\ u.page[p].refcnt = 2
  BY <1>8, <1>13, <1>19
<1>21. /\ v.table = u.table /\ \A q \in Pages \ {p} : SameRec(u, v, q)
       /\ v.page[p].use = "Deleted" /\ v.page[p].refcnt = 1
  <2>1. 2 # 1 /\ 2 - 1 = 1
    OBVIOUS
  <2> QED
    BY <1>9, <1>13, <1>20, <2>1, ReleaseDeletedEffect
<1>22. v.wsl = u.wsl
  BY <1>9, WslKept
<1> HIDE DEF v
<1>23. /\ w.table = v.table /\ \A q \in Pages \ {p} : SameRec(v, w, q)
       /\ w.page[p].use = "Free"
  BY <1>10, <1>13, <1>21, ReleaseDeletedEffect, 1 - 1 = 0
<1>24. w.wsl = v.wsl
  BY <1>10, WslKept
<1> HIDE DEF w
<1>25. \A q \in Pages \ {p} : SameRec(t, w, q)
  BY <1>8, <1>13, <1>21, <1>23 DEF SameRec
<1>26. \A b \in PteAddr : Entry(w, b) = Entry(t, b)
  BY <1>8, <1>13, <1>21, <1>23, Zenon DEF Entry
<1>27. w.wsl = t.wsl
  BY <1>8, <1>13, <1>22, <1>24
<1>28. Good(w, home, {}, NoPage)
  BY <1>18, <1>19, <1>23, <1>25, <1>26, <1>27, UntabledGood
<1> QED
  BY <1>12, <1>28

(* A table with a PTE in core has a wiring.                                *)
LEMMA WiringOfPte ==
  ASSUME NEW s \in VmStates, NEW pins \in Ledger, \A q \in Pages : pins[q] >= 0, NEW uses,
         Counted(s, pins, uses), NEW d \in Pages, IsTable(s, d),
         pins[d] >= 1 \/ \E i \in Idx : s.table[d][i].kind \in {"Valid", "Trans", "Busy"}
  PROVE  s.page[d].nonswap >= 1
<1>1. IsFiniteSet(InCoreSet(s.table[d])) /\ NumIn(s, d) \in Nat
  BY CountsType
<1>2. s.page[d].nonswap = pins[d] + NumIn(s, d) /\ pins[d] \in Int /\ pins[d] >= 0
  BY PlusAt, 0 \in Int DEF Counted
<1>3. CASE pins[d] >= 1
  BY <1>1, <1>2, <1>3
<1>4. CASE \E i \in Idx : s.table[d][i].kind \in {"Valid", "Trans", "Busy"}
  <2>1. PICK i \in Idx : i \in InCoreSet(s.table[d])
    BY <1>4 DEF InCoreSet
  <2>2. NumIn(s, d) # 0
    BY <1>1, <2>1, FS_EmptySet DEF NumIn
  <2> QED
    BY <1>1, <1>2, <2>2
<1> QED
  BY <1>3, <1>4

(* The tables without the empty one p, whose entry goes.                   *)
LEMMA EmptyForest ==
  ASSUME NEW s \in VmStates, NEW home, NEW p, Forest(s, home, NoPage), Blank(s, p)
  PROVE  Forest(s, home, p)
<1>1. \A q \in Pages \ {Root, p} : q \in Pages \ {Root, NoPage}
  BY DEF NoPage, Pages
<1>2. \A a \in PteAddr : a[1] = p => Entry(s, a).kind \notin Kinds
  BY DEF Blank, Kinds
<1> QED
  BY <1>1, <1>2, Zenon DEF Forest

(* The list after a table has been freed: nothing was mapped through it.   *)
LEMMA RetiredSound ==
  ASSUME NEW s \in VmStates, NEW t, NEW p \in Pages, IsTable(s, p), Blank(s, p),
         NEW a \in PteAddr, a[1] # p, Retired(s, t, p, a),
         Forest(s, Home(s), NoPage), Good(t, Home(s), {}, NoPage)
  PROVE  Sound(s, t)
<1>1. \A b \in PteAddr : b[1] \in Pages
  BY AddrParts
<1>2. \A q \in Pages \ {p} : /\ t.page[q].use = s.page[q].use
                             /\ t.page[q].referent = s.page[q].referent
  <2> TAKE q \in Pages \ {p}
  <2>1. CASE q = a[1]
    BY <2>1 DEF Retired
  <2>2. CASE q # a[1]
    <3>1. SameRec(s, t, q)
      BY <2>2 DEF Retired
    <3> QED
      BY <3>1 DEF SameRec
  <2> QED
    BY <2>1, <2>2
<1>3. t.page[p].use = "Free" /\ ~IsTable(t, p) /\ t.page[p].use # "PML1"
  BY DEF Retired, IsTable, TableUses
<1>4. \A q \in Pages \ {p} : Home(t)[q] = Home(s)[q]
  BY <1>2 DEF Home
<1>5. Forest(s, Home(s), p)
  BY EmptyForest
<1>6. \A b \in Leaves(s) : b \in PteAddr /\ b[1] # p /\ s.page[b[1]].use = "PML1"
  BY DEF Leaves, Blank, Kinds
<1>7. \A b \in Leaves(t) : b \in Leaves(s)
  <2> SUFFICES ASSUME NEW b \in Leaves(t)
               PROVE  b \in Leaves(s)
    OBVIOUS
  <2>1. b \in PteAddr /\ t.page[b[1]].use = "PML1" /\ Entry(t, b).kind \in Kinds
    BY DEF Leaves
  <2>2. b[1] # p /\ s.page[b[1]].use = "PML1"
    BY <1>1, <1>2, <1>3, <2>1
  <2>3. Entry(t, b) = ZeroPte \/ Entry(t, b) = Entry(s, b)
    BY <2>1 DEF Retired
  <2>4. Entry(s, b).kind \in Kinds
    BY <2>1, <2>3 DEF ZeroPte, Kinds
  <2> QED
    BY <2>1, <2>2, <2>4 DEF Leaves
<1>8. ASSUME NEW b \in Leaves(s)
      PROVE  Addr(Home(t), b) = Addr(Home(s), b)
  <2> DEFINE home == Home(s)
             home2 == Home(t)
  <2>1. Forest(s, home, p) /\ \A q \in Pages \ {p} : IsTable(s, q) => home2[q] = home[q]
    BY <1>4, <1>5
  <2> HIDE DEF home, home2
  <2>2. Addr(home2, b) = Addr(home, b)
    BY <1>6, <2>1, SameAddr
  <2> QED
    BY <2>2 DEF home, home2
<1>9. Good(t, Home(t), {}, NoPage)
  <2> DEFINE home == Home(s)
             home2 == Home(t)
  <2>1. Good(t, home, {}, NoPage) /\ \A b \in Leaves(t) : Addr(home2, b) = Addr(home, b)
    BY <1>7, <1>8
  <2> HIDE DEF home, home2
  <2>2. Good(t, home2, {}, NoPage)
    BY <2>1, GoodHome
  <2> QED
    BY <2>2 DEF home2
<1>10. Frozen(s, t)
  BY <1>2, <1>3 DEF Frozen
<1> QED
  BY <1>8, <1>9, <1>10 DEF Sound, SameAddrs

(* vmp_pagetable_page_pte_deleted() of a table that the thread has wired.  *)
LEMMA PteDeletedSound ==
  ASSUME NEW s \in VmStates, NEW p \in Pages, IsTable(s, p), PteDeleted(s, p).panic = NoPanic,
         NEW wired \in Ledger, wired[p] >= 1, NEW refs \in Ledger, NEW busy,
         \A q \in Pages : wired[q] >= 0,
         \A q \in Pages : refs[q] >= 0, \A q \in Pages : refs[q] > 0 => IsAnon(s, q),
         Maps(s, Home(s), NoPage, busy, wired, wired, refs),
         Placed(s, NoPage), Good(s, Home(s), {}, NoPage)
  PROVE  Sound(s, PteDeleted(s, p))
<1> DEFINE home == Home(s)
<1>1. Owed(s, busy, wired, wired, refs)
  BY Zenon DEF Owed
<1>2. Forest(s, home, NoPage) /\ Counts(s)
  BY <1>1, OrderlyForest DEF Orderly
<1>3. Counted(s, wired, wired) /\ PtesLinked(s, home, NoPage)
  BY DEF Maps, Linked
<1>4. \A q \in Pages : q \in Pages \ {NoPage}
  BY DEF NoPage, Pages
<1>5. s.panic = NoPanic
  BY DEF PteDeleted, Then
<1>6. s.page[p].nonswap >= 1
  BY <1>3, WiringOfPte
<1>7. CASE LastPte(s, p)
  <2> DEFINE ref == s.page[p].referent
             dir == ref[1]
             t   == FreeTable(s, p)
  <2>1. PteDeleted(s, p) = t
    BY <1>5, <1>7 DEF PteDeleted, Then
  <2>2. /\ p # Root /\ s.page[p].refcnt = 2 /\ s.page[p].nonzero = 1
        /\ ref \in PteAddr /\ dir \in Pages /\ dir # p /\ IsTable(s, dir)
        /\ Entry(s, ref).kind \in {"Valid", "Trans"} /\ Entry(s, ref).page = p
    BY <1>7, LastTable
  <2>3. s.page[p].nonswap = 1 /\ \A j \in Idx : s.table[p][j].kind = "Zero"
    BY <1>3, <2>2, LastWiring
  <2> HIDE DEF t, ref, dir
  <2>4. Blank(s, p)
    BY <2>3, AddrParts DEF Blank, Entry
  <2>5. s.page[p].use = Below(s.page[dir].use)
    BY <1>3, <2>2 DEF PtesLinked, dir
  <2>6. s.page[dir].use # "PML1"
    BY <2>5 DEF IsTable, TableUses, Below
  <2>7. s.page[dir].nonswap >= 1
    <3>1. ref[2] \in Idx /\ s.table[dir][ref[2]].kind \in {"Valid", "Trans", "Busy"}
      BY <2>2, AddrParts DEF Entry, dir
    <3> QED
      BY <1>3, <2>2, <3>1, WiringOfPte
  <2>8. IsRootTable(s, dir) <=> dir = Root
    BY <1>2, <1>4, <2>2, DirFacts
  <2>9. Good(t, home, {}, NoPage)
    BY <2>1, <2>2, <2>3, <2>4, <2>6, <2>7, <2>8, FreeTableGood DEF t, ref, dir
  <2>10. Retired(s, t, p, ref)
    <3>1. s.page[dir].use # "Deleted"
      BY <2>2 DEF IsTable, TableUses
    <3> QED
      BY <2>1, <2>2, <3>1, FreeTableEffect DEF t, ref, dir
  <2>11. Sound(s, t)
    BY <1>2, <2>2, <2>4, <2>9, <2>10, RetiredSound DEF dir
  <2> QED
    BY <2>1, <2>11
<1>8. CASE ~LastPte(s, p)
  <2> DEFINE t == PteUncounted(s, p)
  <2>1. PteDeleted(s, p) = t
    BY <1>5, <1>8 DEF PteDeleted, Then
  <2>2. s.page[p].use # "Deleted"
    BY DEF IsTable, TableUses
  <2>3. Adjusted(s, t, p, -1, -1, -1)
    BY <2>1, <2>2, PteUncountedEffect
  <2>4. IsRootTable(s, p) <=> p = Root
    BY <1>2, <1>4, DirFacts
  <2>5. Good(t, home, {}, NoPage)
    BY <1>4, <1>6, <2>1, <2>4, UncountedGood
  <2> HIDE DEF t
  <2>6. Steady(s, t)
    BY <2>3, SteadySteps
  <2>7. Sound(s, t)
    BY <2>5, <2>6, SteadySound, SMTT(30)
  <2> QED
    BY <2>1, <2>7
<1> QED
  BY <1>7, <1>8

-----------------------------------------------------------------------------
(* The threads.  The tables that a thread has wired are those on the way   *)
(* to its address, and the PTE it reads a page for is that of its address. *)
Chain(s, x) ==
  \A k \in 1 .. Levels - 1 :
    x.pages[k] \in Pages => s.page[x.pages[k]].referent = << x.pages[k + 1], x.va[k + 1] >>

Walks(s, c, x) ==
  /\ c # "user" => x.va \in VAddrs
  /\ Chain(s, x)
  /\ x.page \in Pages => Addr(Home(s), x.pte) = x.va

Listed(s, c, x) ==
  /\ Good(s, Home(s), {}, NoPage)
  /\ s.panic = NoPanic => \A f \in Faulters : Walks(s, c[f], x[f])

WslInv == MapInv /\ Listed(vm, pc, flt)

(* Thread locals with no table that the others do not have.                *)
Rewalks(x, y) ==
  /\ y.va = x.va
  /\ \A k \in 1 .. Levels - 1 :
       y.pages[k] \in Pages => y.pages[k] = x.pages[k] /\ y.pages[k + 1] = x.pages[k + 1]

Follows(x, y) == Rewalks(x, y) /\ (y.page \in Pages => y.page = x.page /\ y.pte = x.pte)

(* Wired tables keep their place.                                          *)
LEMMA ChainKept ==
  ASSUME NEW s, NEW t, NEW x, NEW y, NEW f \in Faulters, Frozen(s, t), TablesWired(s, x),
         TablesWired(t, y), Rewalks(x[f], y[f]), Chain(s, x[f])
  PROVE  Chain(t, y[f])
<1> SUFFICES ASSUME NEW k \in 1 .. Levels - 1, y[f].pages[k] \in Pages
             PROVE  t.page[y[f].pages[k]].referent = << y[f].pages[k + 1], y[f].va[k + 1] >>
  BY DEF Chain
<1> DEFINE q == y[f].pages[k]
<1>1. /\ x[f].pages[k] = q /\ x[f].pages[k + 1] = y[f].pages[k + 1] /\ q \in Pages
      /\ y[f].va = x[f].va
  BY DEF Rewalks
<1>2. k \in 1 .. Levels
  BY VmAssumption
<1>3. IsTable(s, q) /\ IsTable(t, q)
  BY <1>1, <1>2, LevelUse DEF TablesWired, IsTable
<1>4. t.page[q].referent = s.page[q].referent
  BY <1>1, <1>3 DEF Frozen
<1>5. s.page[q].referent = << x[f].pages[k + 1], x[f].va[k + 1] >>
  BY <1>1 DEF Chain
<1> QED
  BY <1>1, <1>4, <1>5

(* A thread that wires and reads nothing more stays on its way.            *)
LEMMA WalksOn ==
  ASSUME NEW s \in VmStates, NEW t, NEW x \in [Faulters -> FaultLocals], NEW y,
         NEW w \in WriterLocals, Owing(s, x, w), Sound(s, t), TablesWired(t, y),
         NEW g \in Faulters, Follows(x[g], y[g]), NEW c, Walks(s, c, x[g]),
         NEW d, d # "user" => y[g].va \in VAddrs
  PROVE  Walks(t, d, y[g])
<1>1. Chain(t, y[g])
  <2>1. Rewalks(x[g], y[g]) /\ Chain(s, x[g])
    BY DEF Follows, Walks
  <2>2. Frozen(s, t) /\ TablesWired(s, x)
    BY DEF Sound, Owing
  <2> QED
    BY <2>1, <2>2, ChainKept
<1>2. y[g].page \in Pages => Addr(Home(t), y[g].pte) = y[g].va
  <2> SUFFICES ASSUME y[g].page \in Pages
               PROVE  Addr(Home(t), y[g].pte) = y[g].va
    OBVIOUS
  <2>1. x[g].page \in Pages /\ x[g].pte = y[g].pte /\ x[g].va = y[g].va
    BY DEF Follows, Rewalks
  <2>2. /\ x[g].pte \in PteAddr /\ Entry(s, x[g].pte).kind = "Busy"
        /\ s.page[x[g].pte[1]].use = "PML1"
    BY <2>1, ReadRefd
  <2>3. x[g].pte \in Leaves(s)
    BY <2>2 DEF Leaves, Kinds
  <2>4. Addr(Home(t), x[g].pte) = Addr(Home(s), x[g].pte)
    BY <2>3 DEF Sound, SameAddrs
  <2> QED
    BY <2>1, <2>4 DEF Walks
<1> QED
  BY <1>1, <1>2 DEF Walks

(* A thread that does nothing is not disturbed.                            *)
LEMMA OthersWalk ==
  ASSUME NEW s \in VmStates, NEW t, NEW x \in [Faulters -> FaultLocals], NEW y,
         NEW w \in WriterLocals, Owing(s, x, w), Sound(s, t), TablesWired(t, y),
         NEW g \in Faulters, y[g] = x[g], NEW c, Walks(s, c, x[g])
  PROVE  Walks(t, c, y[g])
<1>1. Follows(x[g], y[g]) /\ (c # "user" => y[g].va \in VAddrs)
  BY DEF Follows, Rewalks, Walks
<1> QED
  BY <1>1, WalksOn

(* The state of WslInv is one of those the lemmas above are about.         *)
LEMMA WslFacts ==
  ASSUME WslInv
  PROVE  /\ MapInv /\ vm \in VmStates /\ flt \in [Faulters -> FaultLocals] /\ wr \in WriterLocals
         /\ Orderly(vm) /\ Owing(vm, flt, wr) /\ Forest(vm, Home(vm), NoPage)
         /\ Good(vm, Home(vm), {}, NoPage) /\ \A q \in Pages : WiredOf(flt)[q] >= 0
         /\ vm.panic = NoPanic => \A f \in Faulters : Walks(vm, pc[f], flt[f])
<1>1. /\ vm \in VmStates /\ flt \in [Faulters -> FaultLocals] /\ wr \in WriterLocals
      /\ Placed(vm, NoPage) /\ Owing(vm, flt, wr)
      /\ WiredOf(flt) \in Ledger /\ HeldOf(wr) \in Ledger
      /\ Maps(vm, Home(vm), NoPage, BusyOf(flt), WiredOf(flt), WiredOf(flt), HeldOf(wr))
  BY DaemonFacts DEF WslInv
<1>2. \A q \in Pages : WiredOf(flt)[q] >= 0
  <2> TAKE q \in Pages
  <2> DEFINE A == {fl \in Faulters \X (1 .. Levels) : flt[fl[1]].pages[fl[2]] = q}
  <2>1. IsFiniteSet(A)
    BY WiringsFinite, ZenonT(60)
  <2> HIDE DEF A
  <2>2. Cardinality(A) \in Nat
    BY <2>1, FS_CardinalityType
  <2>3. WiredOf(flt)[q] = Cardinality(A)
    BY DEF WiredOf, A
  <2> QED
    BY <2>2, <2>3
<1>3. \A q \in Pages : HeldOf(wr)[q] >= 0
  BY <1>1, HeldType
<1>4. Good(vm, Home(vm), {}, NoPage)
  BY DEF WslInv, Listed
<1>5. Owed(vm, BusyOf(flt), WiredOf(flt), WiredOf(flt), HeldOf(wr))
  BY <1>1, <1>2, <1>3, <1>4, Zenon DEF Owed
<1>6. Orderly(vm)
  BY <1>5, Zenon DEF Orderly
<1>7. Forest(vm, Home(vm), NoPage)
  BY <1>1, <1>6, OrderlyForest
<1> QED
  BY <1>1, <1>2, <1>4, <1>6, <1>7 DEF WslInv, Listed

(* A step that changes neither the tables nor the list.                    *)
LEMMA SameSound ==
  ASSUME NEW s \in VmStates, NEW t, Same(s, t), t.wsl = s.wsl, Good(s, Home(s), {}, NoPage)
  PROVE  Sound(s, t)
<1>1. t.table = s.table /\ (\A q \in Pages : SameRec(s, t, q)) /\ Steady(s, t)
  BY DEF Same, Steady, SameRec
<1> DEFINE home == Home(s)
<1>2. Good(t, home, {}, NoPage)
  <2> HIDE DEF home
  <2>1. SameLeaves(s, t) /\ \A x : Tabs(t, x) = Tabs(s, x) /\ Spare(t, x) = Spare(s, x)
    BY <1>1, EqualSets
  <2>2. Good(s, home, {}, NoPage)
    BY DEF home
  <2> QED
    BY <2>1, <2>2, GoodKept
<1> QED
  BY <1>1, <1>2, SteadySound

(* The tables that are wired after a step are tables.                      *)
LEMMA NextWired ==
  ASSUME MapInv'
  PROVE  TablesWired(vm', flt')
<1>1. \A f \in Faulters, k \in 1 .. Levels :
        flt'[f].pages[k] \in Pages => vm'.page[flt'[f].pages[k]].use = TableUse[k]
  BY DEF MapInv, Owing, TablesWired
<1> QED
  BY <1>1 DEF TablesWired

(* A critical section of thread f, after which it is at c with locals x.   *)
LEMMA FaultWalks ==
  ASSUME WslInv, MapInv', NEW f \in Faulters, NEW c, NEW s, NEW x,
         vm.panic = NoPanic, pc' = [pc EXCEPT ![f] = c], CommitFault(f, s, x),
         s.panic = NoPanic => Sound(vm, s),
         s.panic = NoPanic /\ TablesWired(s, [flt EXCEPT ![f] = x]) => Walks(s, c, x)
  PROVE  Listed(vm', pc', flt')
<1>1. /\ vm \in VmStates /\ flt \in [Faulters -> FaultLocals] /\ wr \in WriterLocals
      /\ Owing(vm, flt, wr) /\ Good(vm, Home(vm), {}, NoPage)
      /\ \A g \in Faulters : Walks(vm, pc[g], flt[g])
  BY WslFacts
<1>2. f \in Threads /\ pc \in [Threads -> PcStates] /\ Faulters \subseteq Threads
  BY DEF WslInv, MapInv, TypeInv, TypeOK, Threads
<1>3. TablesWired(vm', flt')
  BY NextWired
<1>4. CASE s.panic = NoPanic
  <2>1. vm' = s /\ flt' = [flt EXCEPT ![f] = x]
    BY <1>4 DEF CommitFault, Commit
  <2>2. Sound(vm, s) /\ Walks(s, c, x)
    BY <1>3, <1>4, <2>1
  <2>3. ASSUME NEW g \in Faulters PROVE Walks(vm', pc'[g], flt'[g])
    <3>1. CASE g = f
      BY <1>1, <1>2, <2>1, <2>2, <3>1
    <3>2. CASE g # f
      <4>1. flt'[g] = flt[g] /\ pc'[g] = pc[g] /\ Walks(vm, pc[g], flt[g])
        BY <1>1, <1>2, <2>1, <3>2
      <4> QED
        BY <1>1, <1>3, <2>1, <2>2, <4>1, OthersWalk
    <3> QED
      BY <3>1, <3>2
  <2> QED
    BY <2>1, <2>2, <2>3 DEF Listed, Sound
<1>5. CASE s.panic # NoPanic
  <2>1. vm' = [vm EXCEPT !.panic = s.panic]
    BY <1>5 DEF CommitFault, Commit
  <2>2. vm'.panic # NoPanic /\ Same(vm, vm') /\ vm'.wsl = vm.wsl
    BY <1>1, <1>5, <2>1 DEF VmStates, Same, SameRec
  <2>3. Sound(vm, vm')
    BY <1>1, <2>2, SameSound
  <2> QED
    BY <2>2, <2>3 DEF Listed, Sound
<1> QED
  BY <1>4, <1>5

(* A step of f that changes no table.                                      *)
LEMMA PassWalks ==
  ASSUME WslInv, MapInv', NEW f \in Faulters, NEW c, NEW x,
         vm.panic = NoPanic, pc' = [pc EXCEPT ![f] = c], flt' = [flt EXCEPT ![f] = x],
         Same(vm, vm'), vm'.wsl = vm.wsl,
         Sound(vm, vm') /\ TablesWired(vm', flt') => Walks(vm', c, x)
  PROVE  Listed(vm', pc', flt')
<1>1. /\ vm \in VmStates /\ flt \in [Faulters -> FaultLocals] /\ wr \in WriterLocals
      /\ Owing(vm, flt, wr) /\ Good(vm, Home(vm), {}, NoPage)
      /\ \A g \in Faulters : Walks(vm, pc[g], flt[g])
  BY WslFacts
<1>2. f \in Threads /\ pc \in [Threads -> PcStates] /\ Faulters \subseteq Threads
  BY DEF WslInv, MapInv, TypeInv, TypeOK, Threads
<1>3. TablesWired(vm', flt')
  BY NextWired
<1>4. Sound(vm, vm')
  BY <1>1, SameSound
<1>5. ASSUME NEW g \in Faulters PROVE Walks(vm', pc'[g], flt'[g])
  <2>1. CASE g = f
    BY <1>1, <1>2, <1>3, <1>4, <2>1
  <2>2. CASE g # f
    <3>1. flt'[g] = flt[g] /\ pc'[g] = pc[g] /\ Walks(vm, pc[g], flt[g])
      BY <1>1, <1>2, <2>2
    <3> QED
      BY <1>1, <1>3, <1>4, <3>1, OthersWalk
  <2> QED
    BY <2>1, <2>2
<1> QED
  BY <1>4, <1>5 DEF Listed, Sound

(* A step of a daemon.                                                     *)
LEMMA DaemonWalks ==
  ASSUME WslInv, MapInv', \A g \in Faulters : pc'[g] = pc[g], flt' = flt, Sound(vm, vm'),
         vm'.panic = NoPanic => vm.panic = NoPanic
  PROVE  Listed(vm', pc', flt')
<1>1. /\ vm \in VmStates /\ flt \in [Faulters -> FaultLocals] /\ wr \in WriterLocals
      /\ Owing(vm, flt, wr)
      /\ vm.panic = NoPanic => \A g \in Faulters : Walks(vm, pc[g], flt[g])
  BY WslFacts
<1>2. TablesWired(vm', flt')
  BY NextWired
<1>3. ASSUME NEW g \in Faulters, vm'.panic = NoPanic PROVE Walks(vm', pc'[g], flt'[g])
  <2>1. flt'[g] = flt[g] /\ pc'[g] = pc[g] /\ Walks(vm, pc[g], flt[g])
    BY <1>1, <1>3
  <2> QED
    BY <1>1, <1>2, <2>1, OthersWalk
<1> QED
  BY <1>3 DEF Listed, Sound

(* Tables that are wired down to the leaf lead to the address.             *)
LEMMA ChainAddr ==
  ASSUME NEW s, NEW x, Chain(s, x), \A k \in 1 .. Levels : x.pages[k] \in Pages, x.va \in VAddr
  PROVE  Addr(Home(s), << x.pages[1], x.va[1] >>) = x.va
<1> DEFINE home == Home(s)
           pg == x.pages
           va == x.va
           a == << x.pages[1], x.va[1] >>
<1>1. \A k \in 1 .. Levels - 1 : home[pg[k]] = << pg[k + 1], va[k + 1] >>
  <2> TAKE k \in 1 .. Levels - 1
  <2>1. k \in 1 .. Levels
    BY VmAssumption
  <2>2. pg[k] \in Pages
    BY <2>1
  <2> QED
    BY <2>2 DEF Chain, Home
<1>2. a[1] = pg[1] /\ a[2] = va[1]
  OBVIOUS
<1> HIDE DEF home, pg, a, va
<1>3. Levels \in {2, 3, 4} /\ va = [l \in 1 .. Levels |-> va[l]]
  BY VmAssumption DEF VAddr, va
<1>4. /\ home[pg[1]] = << pg[2], va[2] >>
      /\ Levels > 2 => home[pg[2]] = << pg[3], va[3] >>
      /\ Levels > 3 => home[pg[3]] = << pg[4], va[4] >>
  <2>1. 1 \in 1 .. Levels - 1 /\ (Levels > 2 => 2 \in 1 .. Levels - 1)
        /\ (Levels > 3 => 3 \in 1 .. Levels - 1)
    BY <1>3
  <2>2. 1 + 1 = 2 /\ 2 + 1 = 3 /\ 3 + 1 = 4
    OBVIOUS
  <2> QED
    BY <1>1, <2>1, <2>2
<1>5. ASSUME NEW l \in 1 .. Levels PROVE Addr(home, a)[l] = va[l]
  <2>1. l \in {1, 2, 3, 4} /\ (l = 3 => Levels > 2) /\ (l = 4 => Levels > 2 /\ Levels > 3)
    BY <1>3
  <2>2. CASE l = 1
    BY <1>2, <2>2 DEF Addr
  <2>3. CASE l = 2
    BY <1>2, <1>4, <2>3 DEF Addr
  <2>4. CASE l = 3
    BY <1>2, <1>4, <2>1, <2>4 DEF Addr
  <2>5. CASE l = 4
    BY <1>2, <1>4, <2>1, <2>5 DEF Addr
  <2> QED
    BY <2>1, <2>2, <2>3, <2>4, <2>5
<1>6. Addr(home, a) = [l \in 1 .. Levels |-> Addr(home, a)[l]]
  BY DEF Addr
<1>7. Addr(home, a) = va
  BY <1>3, <1>5, <1>6
<1> QED
  BY <1>7 DEF home, a, va

(* The PTE that do_fault() looks at is that of the address.                *)
LEMMA FaultAddr ==
  ASSUME WslInv, vm.panic = NoPanic, NEW f \in Faulters, pc[f] = "fault"
  PROVE  /\ Addr(Home(vm), FaultPteAddr(f)) = flt[f].va /\ flt[f].va \in VAddrs
         /\ \A k \in 1 .. Levels : flt[f].pages[k] \in Pages
<1>1. LocalOK(pc[f], flt[f]) /\ flt[f].va \in VAddr /\ Walks(vm, pc[f], flt[f])
  BY WslFacts, FaulterFacts DEF MapInv
<1>2. \A k \in 1 .. Levels : flt[f].pages[k] \in Pages
  BY <1>1 DEF LocalOK
<1>3. flt[f].va \in VAddrs /\ Chain(vm, flt[f])
  BY <1>1 DEF Walks
<1> QED
  BY <1>1, <1>2, <1>3, ChainAddr DEF FaultPteAddr

(* A thread below whose root nothing is wired, and that reads nothing.     *)
LEMMA UnwiredWalks ==
  ASSUME NEW s, NEW c, NEW x, x.page = NoPage, \A k \in 1 .. Levels - 1 : x.pages[k] = NoPage,
         c # "user" => x.va \in VAddrs
  PROVE  Walks(s, c, x)
<1>1. NoPage \notin Pages
  BY DEF NoPage, Pages
<1> QED
  BY <1>1 DEF Walks, Chain

(* Steps of a thread that change neither its locals nor the tables.        *)
LEMMA PassWsl ==
  ASSUME WslInv, MapInv', NEW f \in Faulters,
         \/ AccessHit(f) \/ AccessFault(f) \/ LockVad(f) \/ Awake(f)
         \/ SendRead(f) \/ RelockVad(f) \/ RelockWs(f)
  PROVE  Listed(vm', pc', flt')
<1>1. PICK c : vm.panic = NoPanic /\ pc' = [pc EXCEPT ![f] = c] /\ flt' = flt /\ pc[f] # "user"
  BY DEF AccessHit, AccessFault, LockVad, Awake, SendRead, RelockVad, RelockWs, Goto
<1>2. /\ vm \in VmStates /\ flt \in [Faulters -> FaultLocals] /\ wr \in WriterLocals
      /\ Owing(vm, flt, wr) /\ Walks(vm, pc[f], flt[f])
  BY <1>1, WslFacts
<1>3. Same(vm, vm') /\ vm'.wsl = vm.wsl
  <2>1. vm' = vm \/ \E q, d : vm' = [vm EXCEPT !.data[q] = d]
    BY DEF AccessHit, AccessFault, LockVad, Awake, SendRead, RelockVad, RelockWs
  <2>2. vm'.table = vm.table /\ vm'.page = vm.page /\ vm'.wsl = vm.wsl
    BY <1>2, <2>1 DEF VmStates
  <2> QED
    BY <2>2 DEF Same, SameRec
<1>4. flt' = [flt EXCEPT ![f] = flt[f]]
  BY <1>1, <1>2
<1>5. Walks(vm, c, flt[f])
  BY <1>1, <1>2 DEF Walks
<1>6. Sound(vm, vm') /\ TablesWired(vm', flt') => Walks(vm', c, flt[f])
  BY <1>1, <1>2, <1>5, OthersWalk
<1> QED
  BY <1>1, <1>3, <1>4, <1>6, PassWalks

(* A program picks an address, the MMU finds it mapped, a fault begins.    *)
LEMMA StartWsl ==
  ASSUME WslInv, MapInv', NEW f \in Faulters,
         \/ \E va \in VAddrs, write \in Writes : Pick(f, va, write)
         \/ Translate(f) \/ LockWs(f)
  PROVE  Listed(vm', pc', flt')
<1>1. PICK c, x : /\ vm.panic = NoPanic /\ pc' = [pc EXCEPT ![f] = c]
                  /\ flt' = [flt EXCEPT ![f] = x]
                  /\ pc[f] \in {"user", "translate", "ws"}
                  /\ \/ x = NoFault /\ c = "user"
                     \/ \E va \in VAddrs, write \in Writes :
                          x = [flt[f] EXCEPT !.va = va, !.write = write]
                     \/ x = [flt[f] EXCEPT !.level = Levels + 1] /\ pc[f] = "ws"
  <2>1. CASE \E va \in VAddrs, write \in Writes : Pick(f, va, write)
    <3>1. PICK va \in VAddrs, write \in Writes : Pick(f, va, write)
      BY <2>1
    <3> DEFINE x == [flt[f] EXCEPT !.va = va, !.write = write]
    <3>2. /\ vm.panic = NoPanic /\ pc' = [pc EXCEPT ![f] = "access"]
          /\ flt' = [flt EXCEPT ![f] = x] /\ pc[f] = "user"
      <4>1. flt \in [Faulters -> FaultLocals]
        BY WslFacts
      <4> QED
        BY <3>1, <4>1, Zenon DEF Pick, Goto
    <3>3. \E e \in VAddrs, d \in Writes : x = [flt[f] EXCEPT !.va = e, !.write = d]
      BY ZenonT(60)
    <3> HIDE DEF x
    <3> QED
      BY <3>2, <3>3, Zenon
  <2>2. CASE Translate(f)
    BY <2>2, Zenon DEF Translate, Goto
  <2>3. CASE LockWs(f)
    <3>1. flt \in [Faulters -> FaultLocals]
      BY WslFacts
    <3> QED
      BY <2>3, <3>1, Zenon DEF LockWs, Goto
  <2> QED
    BY <2>1, <2>2, <2>3, Zenon
<1>2. /\ vm \in VmStates /\ flt[f] \in FaultLocals /\ LocalMap(pc[f], flt[f])
      /\ Walks(vm, pc[f], flt[f])
  BY <1>1, MapFacts, WslFacts, Zenon
<1>3. Idle(flt[f])
  BY <1>1, <1>2, IdleMap, Zenon
<1>4. x.page = NoPage /\ (\A k \in 1 .. Levels - 1 : x.pages[k] = NoPage)
      /\ (c # "user" => x.va \in VAddrs)
  <2>1. /\ flt[f].page = NoPage /\ \A k \in 1 .. Levels - 1 : flt[f].pages[k] = NoPage
    BY <1>3, VmAssumption DEF Idle
  <2>2. CASE x = NoFault /\ c = "user"
    <3>1. \A k \in 1 .. Levels - 1 : k \in 1 .. Levels
      BY VmAssumption
    <3> QED
      BY <2>2, <3>1 DEF NoFault
  <2>3. ASSUME NEW va \in VAddrs, NEW write \in Writes,
               x = [flt[f] EXCEPT !.va = va, !.write = write]
        PROVE  /\ x.page = NoPage /\ (\A k \in 1 .. Levels - 1 : x.pages[k] = NoPage)
               /\ (c # "user" => x.va \in VAddrs)
    BY <1>2, <2>1, <2>3 DEF FaultLocals
  <2>4. CASE x = [flt[f] EXCEPT !.level = Levels + 1] /\ pc[f] = "ws"
    <3>1. flt[f].va \in VAddrs
      BY <1>2, <2>4 DEF Walks
    <3>2. x.page = flt[f].page /\ x.pages = flt[f].pages /\ x.va = flt[f].va
      BY <1>2, <2>4 DEF FaultLocals
    <3> QED
      BY <2>1, <3>1, <3>2
  <2>5. CASE \E va \in VAddrs, write \in Writes : x = [flt[f] EXCEPT !.va = va, !.write = write]
    BY <2>3, <2>5, Zenon
  <2> QED
    BY <1>1, <2>2, <2>4, <2>5, Zenon
<1>5. Walks(vm', c, x)
  BY <1>4, UnwiredWalks
<1>6. Same(vm, vm') /\ vm'.wsl = vm.wsl
  <2>1. vm' = vm \/ \E q, d : vm' = [vm EXCEPT !.data[q] = d]
    BY Zenon DEF Pick, Translate, LockWs
  <2>2. vm'.table = vm.table /\ vm'.page = vm.page /\ vm'.wsl = vm.wsl
    BY <1>2, <2>1 DEF VmStates
  <2> QED
    BY <2>2, Zenon DEF Same, SameRec
<1>7. vm.panic = NoPanic /\ pc' = [pc EXCEPT ![f] = c] /\ flt' = [flt EXCEPT ![f] = x]
  BY <1>1, Zenon
<1> QED
  BY <1>5, <1>6, <1>7, PassWalks

(* vmp_wire_pte() begins: the root is wired.                               *)
LEMMA WireRootWsl ==
  ASSUME WslInv, MapInv', NEW f \in Faulters, WireRoot(f)
  PROVE  Listed(vm', pc', flt')
<1> DEFINE s == NonswapPteCreated(vm, Root, TRUE)
           x == [flt[f] EXCEPT !.level = Levels, !.pages[Levels] = Root]
<1>1. /\ vm.panic = NoPanic /\ pc[f] = "wire" /\ pc' = [pc EXCEPT ![f] = "wire"]
      /\ flt[f].level = Levels + 1 /\ CommitFault(f, s, x)
  <2>1. vm.panic = NoPanic /\ pc[f] = "wire" /\ pc' = [pc EXCEPT ![f] = "wire"]
    BY DEF WireRoot, Goto
  <2> QED
    BY <2>1 DEF WireRoot
<1>2. /\ vm \in VmStates /\ Orderly(vm) /\ flt[f] \in FaultLocals
      /\ LocalMap(pc[f], flt[f]) /\ Walks(vm, pc[f], flt[f])
      /\ flt[f].pages \in [1 .. Levels -> Pages \cup {NoPage}]
  BY <1>1, MapFacts, WslFacts
<1>3. Levels \in Nat /\ Levels \in 1 .. Levels /\ Root \in Pages
  BY VmAssumption, ConstantTypes
<1>4. \A k \in 1 .. Levels - 1 : flt[f].pages[k] = NoPage /\ k # Levels /\ k \in 1 .. Levels
  BY <1>1, <1>2, <1>3 DEF LocalMap
<1>5. flt[f].page = NoPage /\ flt[f].va \in VAddrs
  BY <1>1, <1>2 DEF LocalMap, Walks
<1>6. x.page = NoPage /\ x.va = flt[f].va /\ \A k \in 1 .. Levels - 1 : x.pages[k] = NoPage
  BY <1>2, <1>3, <1>4, <1>5 DEF FaultLocals
<1> HIDE DEF x
<1>7. Walks(s, "wire", x)
  BY <1>5, <1>6, UnwiredWalks
<1>8. IsTable(vm, Root)
  BY WslFacts, <1>3, LevelUse DEF Forest, IsTable
<1>9. s.panic = NoPanic => Sound(vm, s)
  BY <1>2, <1>3, <1>8, WiredSound
<1> HIDE DEF s
<1> QED
  BY <1>1, <1>7, <1>9, FaultWalks

(* vmp_wire_pte(), one level: the table found there or entered is the one  *)
(* on the way to the address.                                              *)
LEMMA WireLevelWsl ==
  ASSUME WslInv, MapInv', NEW f \in Faulters, WireLevel(f)
  PROVE  Listed(vm', pc', flt')
<1> DEFINE l   == flt[f].level
           dir == flt[f].pages[l]
           i   == flt[f].va[l]
           use == TableUse[l - 1]
           s   == WireTable(vm, dir, i, use)
           x   == [flt[f] EXCEPT !.level = l - 1, !.pages[l - 1] = s.table[dir][i].page]
           c   == IF flt[f].level = 2 THEN "fault" ELSE "wire"
<1>1. /\ vm.panic = NoPanic /\ pc[f] = "wire" /\ pc' = [pc EXCEPT ![f] = c]
      /\ l \in 2 .. Levels /\ CommitFault(f, s, x)
  <2>1. vm.panic = NoPanic /\ pc[f] = "wire" /\ pc' = [pc EXCEPT ![f] = c]
    BY ZenonT(60) DEF WireLevel, Goto
  <2> QED
    BY <2>1, Zenon DEF WireLevel
<1>2. /\ vm \in VmStates /\ flt \in [Faulters -> FaultLocals] /\ wr \in WriterLocals
      /\ Owing(vm, flt, wr) /\ flt[f] \in FaultLocals /\ LocalMap(pc[f], flt[f])
      /\ LocalOK(pc[f], flt[f]) /\ TypeInv /\ NoPage \notin Pages
      /\ flt[f].pages \in [1 .. Levels -> Pages \cup {NoPage}] /\ Placed(vm, NoPage)
      /\ WiredOf(flt) \in Ledger /\ HeldOf(wr) \in Ledger
      /\ \A q \in Pages : HeldOf(wr)[q] >= 0
      /\ Maps(vm, Home(vm), NoPage, BusyOf(flt), WiredOf(flt), WiredOf(flt), HeldOf(wr))
  BY <1>1, MapFacts, ZenonT(60) DEF WslInv
<1>3. Orderly(vm) /\ Walks(vm, pc[f], flt[f])
  BY <1>1, WslFacts, Zenon
<1>4. /\ l \in 1 .. Levels /\ l - 1 \in 1 .. Levels /\ l \in {2, 3, 4} /\ Levels \in Nat
      /\ dir \in Pages /\ i \in Idx
  <2>1. l \in 1 .. Levels /\ l - 1 \in 1 .. Levels /\ l \in {2, 3, 4} /\ Levels \in Nat /\ l >= l
    <3>1. l \in 2 .. Levels /\ Levels \in 2 .. 4
      BY <1>1, VmAssumption, ZenonT(60)
    <3> HIDE DEF l
    <3> QED
      BY ONLY <3>1, SMTT(60)
  <2>2. i \in Idx
    BY <1>1, <1>2, <2>1, FaulterFacts, Zenon
  <2> QED
    BY <1>1, <1>2, <2>1, <2>2, Zenon DEF LocalOK
<1>5. vm.page[dir].use = TableUse[l]
  BY <1>2, <1>4 DEF Owing, TablesWired
<1>6. IsTable(vm, dir) /\ use \in TableUses /\ use = Below(vm.page[dir].use)
  BY <1>4, <1>5 DEF IsTable, TableUse, TableUses, Below
<1>7. flt[f].page = NoPage /\ \A j \in 1 .. Levels : j < l => flt[f].pages[j] = NoPage
  <2>1. \A j \in 1 .. Levels : flt[f].pages[j] # NoPage => j >= l
    BY <1>1, <1>2, ZenonT(60) DEF LocalMap
  <2>2. flt[f].page = NoPage
    BY <1>1, <1>2, Zenon DEF LocalMap
  <2> HIDE DEF l
  <2>3. \A j \in 1 .. Levels : j < l => ~(j >= l)
    BY ONLY <1>4, SMTT(60)
  <2> QED
    BY <2>1, <2>2, <2>3, Zenon
<1>8. /\ x.va = flt[f].va /\ x.page = NoPage /\ x.pages[l - 1] = s.table[dir][i].page
      /\ \A j \in 1 .. Levels \ {l - 1} : x.pages[j] = flt[f].pages[j]
  BY <1>2, <1>4, <1>7, ZenonT(60) DEF FaultLocals
<1> HIDE DEF x
<1>9. s.panic = NoPanic => Sound(vm, s) /\ Entry(s, << dir, i >>).kind = "Valid"
  BY <1>2, <1>3, <1>4, <1>6, WireTableSound, Zenon
<1>10. ASSUME s.panic = NoPanic PROVE Walks(s, c, x)
  <2> HIDE DEF l, dir, i, use, c
  <2>1. PICK p \in Pages :
          /\ Maps(s, Home(s), NoPage, BusyOf(flt),
                  Plus(WiredOf(flt), p, 1), Plus(WiredOf(flt), p, 1), HeldOf(wr))
          /\ Kept(vm, s) /\ Entry(s, << dir, i >>).page = p /\ s.page[p].use = use
    BY <1>2, <1>4, <1>6, <1>10, WireTableMaps
  <2> HIDE DEF s
  <2>2. s.page[p].referent = << dir, i >>
    <3>1. << dir, i >> \in PteAddr
      BY <1>4 DEF PteAddr
    <3>2. PtesLinked(s, Home(s), NoPage)
      BY <2>1 DEF Maps, Linked
    <3>3. Home(s)[p] = << dir, i >>
      BY <1>9, <1>10, <2>1, <3>1, <3>2 DEF PtesLinked
    <3> QED
      BY <3>3 DEF Home
  <2>3. Chain(s, flt[f])
    <3>1. TablesWired(s, flt)
      BY <1>2, <2>1, KeptUses
    <3>2. TablesWired(vm, flt) /\ Frozen(vm, s) /\ Rewalks(flt[f], flt[f]) /\ Chain(vm, flt[f])
      BY <1>2, <1>3, <1>9, <1>10 DEF Owing, Sound, Rewalks, Walks
    <3> QED
      BY <3>1, <3>2, ChainKept
  <2>4. x.pages[l - 1] = p /\ x.pages[l] = dir /\ x.va[l] = i
    <3>1. l \in 1 .. Levels \ {l - 1} /\ flt[f].pages[l] = dir /\ flt[f].va[l] = i
      BY <1>4 DEF dir, i
    <3>2. x.pages[l] = flt[f].pages[l]
      BY <1>8, <3>1
    <3> QED
      BY <1>8, <2>1, <3>1, <3>2 DEF Entry
  <2>5. Chain(s, x)
    <3> SUFFICES ASSUME NEW k \in 1 .. Levels - 1, x.pages[k] \in Pages
                 PROVE  s.page[x.pages[k]].referent = << x.pages[k + 1], x.va[k + 1] >>
      BY DEF Chain
    <3>1. k \in 1 .. Levels /\ k + 1 \in 1 .. Levels /\ k \in Int /\ l \in Int
      BY <1>4
    <3>2. CASE k = l - 1
      <4>1. k + 1 = l
        BY <3>1, <3>2
      <4> QED
        BY <2>2, <2>4, <3>2, <4>1
    <3>3. CASE k # l - 1
      <4>1. x.pages[k] = flt[f].pages[k]
        BY <1>8, <3>1, <3>3
      <4>2. k >= l
        <5>1. ~(k < l)
          BY <1>2, <1>7, <3>1, <4>1
        <5> QED
          BY <3>1, <5>1
      <4>3. k + 1 # l - 1
        BY <3>1, <4>2
      <4>4. x.pages[k + 1] = flt[f].pages[k + 1]
        BY <1>8, <3>1, <4>3
      <4> QED
        BY <1>8, <2>3, <4>1, <4>4 DEF Chain
    <3> QED
      BY <3>2, <3>3
  <2>6. x.va \in VAddrs
    BY <1>1, <1>3, <1>8 DEF Walks
  <2> QED
    BY <1>2, <1>8, <2>5, <2>6 DEF Walks
<1> HIDE DEF s, c
<1> QED
  BY <1>1, <1>9, <1>10, FaultWalks

(* do_fault() has looked at the leaf PTE, and perhaps begun to read the    *)
(* page of that PTE.                                                       *)
LEMMA HandledWsl ==
  ASSUME WslInv, MapInv', NEW f \in Faulters, NEW s, NEW x, Handled(f, s, x),
         x.pages = flt[f].pages, x.va = flt[f].va, x.page = NoPage \/ x.pte = FaultPteAddr(f),
         s.panic = NoPanic => Sound(vm, s)
  PROVE  Listed(vm', pc', flt')
<1> DEFINE y == [flt EXCEPT ![f] = x]
<1>1. /\ vm.panic = NoPanic /\ pc[f] = "fault" /\ pc' = [pc EXCEPT ![f] = "unwire"]
      /\ CommitFault(f, s, x)
  BY DEF Handled, Goto
<1>2. /\ vm \in VmStates /\ flt \in [Faulters -> FaultLocals] /\ Owing(vm, flt, wr)
      /\ Walks(vm, pc[f], flt[f]) /\ flt[f].va \in VAddr
  BY <1>1, WslFacts, FaulterFacts DEF MapInv
<1>3. flt[f].va \in VAddrs /\ \A k \in 1 .. Levels : flt[f].pages[k] \in Pages
  BY <1>1, FaultAddr
<1>4. y[f] = x
  BY <1>2
<1> HIDE DEF y
<1>5. ASSUME s.panic = NoPanic, TablesWired(s, y) PROVE Walks(s, "unwire", x)
  <2>1. Chain(s, x)
    <3>1. TablesWired(vm, flt) /\ Frozen(vm, s) /\ Rewalks(flt[f], y[f]) /\ Chain(vm, flt[f])
      BY <1>2, <1>4, <1>5 DEF Owing, Sound, Rewalks, Walks
    <3>2. Chain(s, y[f])
      BY <1>5, <3>1, ChainKept
    <3> QED
      BY <1>4, <3>2
  <2>2. Addr(Home(s), << x.pages[1], x.va[1] >>) = x.va
    BY <1>2, <1>3, <2>1, ChainAddr
  <2>3. x.page \in Pages => x.pte = << x.pages[1], x.va[1] >>
    BY DEF FaultPteAddr, NoPage, Pages
  <2> QED
    BY <1>3, <2>1, <2>2, <2>3 DEF Walks
<1> QED
  BY <1>1, <1>5, FaultWalks DEF y

(* A fault on a PTE that is valid, or for which there is no page.          *)
LEMMA ValidLeafWsl ==
  ASSUME WslInv, MapInv', NEW f \in Faulters,
         MakeWriteable(f) \/ ValidFault(f) \/ AllocFails(f) \/ BusyFault(f)
  PROVE  Listed(vm', pc', flt')
<1> DEFINE a == FaultPteAddr(f)
           q == FaultPte(f).page
<1>1. vm.panic = NoPanic /\ pc[f] = "fault"
  BY DEF MakeWriteable, ValidFault, AllocFails, BusyFault, FaultsOn
<1>2. /\ vm \in VmStates /\ Good(vm, Home(vm), {}, NoPage) /\ flt[f] \in FaultLocals
      /\ flt \in [Faulters -> FaultLocals] /\ MapInv
  BY WslFacts
<1>3. /\ a \in PteAddr /\ Entry(vm, a) = FaultPte(f) /\ q \in Pages /\ flt[f].page = NoPage
  BY <1>1, <1>2, LeafMap
<1>4. ASSUME NEW s, NEW r, Handled(f, s, Result(f, r)), s.panic = NoPanic => Sound(vm, s)
      PROVE  Listed(vm', pc', flt')
  <2> DEFINE x == Result(f, r)
  <2>1. x.pages = flt[f].pages /\ x.va = flt[f].va /\ x.page = NoPage
    BY <1>2, <1>3 DEF Result, FaultLocals
  <2> HIDE DEF x
  <2>2. Handled(f, s, x)
    BY <1>4 DEF x
  <2> QED
    BY <1>4, <2>1, <2>2, HandledWsl
<1>5. CASE MakeWriteable(f)
  <2> DEFINE s == SetPte(vm, a, HwPte(q, TRUE))
             home == Home(vm)
  <2>1. Handled(f, s, Result(f, "ok")) /\ Entry(vm, a).kind = "Valid"
    BY <1>3, <1>5 DEF MakeWriteable, FaultsOn
  <2>2. ASSUME s.panic = NoPanic PROVE Sound(vm, s)
    <3> DEFINE e == HwPte(q, TRUE)
    <3>1. e.kind = "Valid" /\ s = SetPte(vm, a, e)
      BY DEF HwPte
    <3> HIDE DEF a, e, s
    <3>2. Entered(vm, s, a, e)
      BY <1>2, <1>3, <2>2, <3>1, SetPteEffect
    <3>3. Steady(vm, s)
      BY <1>2, <3>2, SteadySteps
    <3>4. Good(s, home, {}, NoPage)
      <4> HIDE DEF home
      <4>1. Good(vm, home, {}, NoPage)
        BY <1>2 DEF home
      <4> QED
        BY <1>2, <1>3, <2>1, <2>2, <3>1, <4>1, SetPteGood
    <3> QED
      BY <3>3, <3>4, SteadySound
  <2> HIDE DEF s
  <2> QED
    BY <1>4, <2>1, <2>2
<1>6. CASE ValidFault(f)
  <2>1. Same(vm, vm)
    BY DEF Same, SameRec
  <2>2. Handled(f, vm, Result(f, "ok"))
    BY <1>6 DEF ValidFault
  <2>3. Sound(vm, vm)
    BY <1>2, <2>1, SameSound
  <2> QED
    BY <1>4, <2>2, <2>3
<1>7. CASE AllocFails(f)
  <2> DEFINE s == PageAlloc(vm, "AnonPrivate")
  <2>1. Same(vm, s)
    BY <1>1, <1>2, <1>7, AllocFailsEffect DEF AllocFails
  <2>2. Handled(f, s, Result(f, "again"))
    BY <1>7 DEF AllocFails
  <2>3. s.wsl = vm.wsl
    <3>1. s = CheckShortage(vm)
      BY <1>1, <1>7 DEF AllocFails, PageAlloc, Then, CanAlloc
    <3> QED
      BY <1>2, <3>1, WslKept, ConstantTypes
  <2> HIDE DEF s
  <2>4. Sound(vm, s)
    BY <1>2, <2>1, <2>3, SameSound
  <2> QED
    BY <1>4, <2>2, <2>4
<1>8. CASE BusyFault(f)
  <2> DEFINE s == Kfatal(vm, "fault.c:170")
  <2>1. s.panic # NoPanic
    BY <1>2, KfatalPassed DEF NoPanic
  <2>2. Handled(f, s, Result(f, "ok"))
    BY <1>8 DEF BusyFault
  <2> HIDE DEF s
  <2> QED
    BY <1>4, <2>1, <2>2
<1> QED
  BY <1>5, <1>6, <1>7, <1>8

(* do_fault() gives a zero or a transition PTE its page.                   *)
LEMMA FillLeafWsl ==
  ASSUME WslInv, MapInv', NEW f \in Faulters, DemandZero(f) \/ TransFault(f)
  PROVE  Listed(vm', pc', flt')
<1> DEFINE a == FaultPteAddr(f)
           q == FaultPte(f).page
           v == flt[f].va
           w == flt[f].write
<1>1. vm.panic = NoPanic /\ pc[f] = "fault"
  BY DEF DemandZero, TransFault, FaultsOn
<1>2. /\ vm \in VmStates /\ Orderly(vm) /\ flt[f] \in FaultLocals
      /\ flt \in [Faulters -> FaultLocals] /\ MapInv
  BY <1>1, WslFacts
<1>3. /\ a \in PteAddr /\ Entry(vm, a) = FaultPte(f) /\ q \in Pages /\ flt[f].page = NoPage
      /\ w \in BOOLEAN /\ vm.page[a[1]].use = "PML1" /\ a[1] = flt[f].pages[1]
  BY <1>1, <1>2, LeafMap
<1>4. v = Addr(Home(vm), a) /\ v \in VAddrs
  BY <1>1, FaultAddr
<1>5. ASSUME NEW s, NEW r, Handled(f, s, Result(f, r)), s.panic = NoPanic => Sound(vm, s)
      PROVE  Listed(vm', pc', flt')
  <2> DEFINE x == Result(f, r)
  <2>1. x.pages = flt[f].pages /\ x.va = flt[f].va /\ x.page = NoPage
    BY <1>2, <1>3 DEF Result, FaultLocals
  <2> HIDE DEF x
  <2>2. Handled(f, s, x)
    BY <1>5 DEF x
  <2> QED
    BY <1>5, <2>1, <2>2, HandledWsl
<1>6. CASE DemandZero(f)
  <2> DEFINE s == ZeroFill(vm, a, LeafKey(v), w)
  <2>1. CanAlloc(vm) /\ Entry(vm, a).kind = "Zero"
    BY <1>3, <1>6 DEF DemandZero, FaultsOn
  <2>2. Handled(f, s, Result(f, "ok"))
    BY <1>3, <1>6 DEF DemandZero, ZeroFill
  <2> HIDE DEF a, v, w
  <2>3. s.panic = NoPanic => Sound(vm, s)
    BY <1>2, <1>3, <1>4, <2>1, ZeroFillSound
  <2> HIDE DEF s
  <2> QED
    BY <1>5, <2>2, <2>3
<1>7. CASE TransFault(f)
  <2> DEFINE s == Reclaim(vm, a, LeafKey(v), q)
  <2>1. Entry(vm, a).kind = "Trans" /\ Entry(vm, a).page = q
    BY <1>3, <1>7 DEF TransFault, FaultsOn
  <2>2. Handled(f, s, Result(f, "ok"))
    BY <1>7 DEF TransFault, Reclaim
  <2> HIDE DEF a, v, q
  <2>3. s.panic = NoPanic => Sound(vm, s)
    BY <1>2, <1>3, <1>4, <2>1, ReclaimSound
  <2> HIDE DEF s
  <2> QED
    BY <1>5, <2>2, <2>3
<1> QED
  BY <1>6, <1>7

(* do_fault() begins to read a page in: the entry is listed and locked.    *)
LEMMA SwapFaultWsl ==
  ASSUME WslInv, MapInv', NEW f \in Faulters, SwapFault(f)
  PROVE  Listed(vm', pc', flt')
<1> DEFINE a == FaultPteAddr(f)
           v == flt[f].va
           p == AllocatedPage(vm)
           s == StartRead(vm, a, LeafKey(v))
           x == [Result(f, "read") EXCEPT !.page = p, !.pte = a, !.slot = FaultPte(f).slot]
<1>1. vm.panic = NoPanic /\ pc[f] = "fault" /\ CanAlloc(vm) /\ FaultPte(f).kind = "Swap"
  BY DEF SwapFault, FaultsOn
<1>2. /\ vm \in VmStates /\ Orderly(vm) /\ flt[f] \in FaultLocals
      /\ flt \in [Faulters -> FaultLocals] /\ MapInv
  BY <1>1, WslFacts
<1>3. /\ a \in PteAddr /\ Entry(vm, a).kind = "Swap"
      /\ vm.page[a[1]].use = "PML1" /\ a[1] = flt[f].pages[1]
  BY <1>1, <1>2, LeafMap
<1>4. v = Addr(Home(vm), a) /\ v \in VAddrs
  BY <1>1, FaultAddr
<1>5. Handled(f, s, x)
  BY <1>3 DEF SwapFault, StartRead
<1>6. x.pages = flt[f].pages /\ x.va = flt[f].va /\ x.pte = FaultPteAddr(f)
  BY <1>2, <1>3 DEF Result, FaultLocals
<1> HIDE DEF x
<1>7. s.panic = NoPanic => Sound(vm, s)
  <2> HIDE DEF a, v
  <2> QED
    BY <1>1, <1>2, <1>3, <1>4, StartReadSound
<1> HIDE DEF s
<1> QED
  BY <1>5, <1>6, <1>7, HandledWsl

(* The fault handler unpins a page table, which may free it: the list lets *)
(* go of what the pass that frees the tables empties.                      *)
LEMMA UnwireWsl ==
  ASSUME WslInv, MapInv', NEW f \in Faulters, Unwire(f)
  PROVE  Listed(vm', pc', flt')
<1> DEFINE l == flt[f].level
           p == flt[f].pages[l]
           n == IF l = Levels THEN l ELSE l + 1
           c == IF l = Levels THEN AfterFault[flt[f].result] ELSE "unwire"
           s == PteDeleted(vm, p)
           x == [flt[f] EXCEPT !.level = n, !.pages[l] = NoPage]
           y == [flt EXCEPT ![f] = x]
<1>1. /\ vm.panic = NoPanic /\ pc[f] = "unwire" /\ pc' = [pc EXCEPT ![f] = c]
      /\ CommitFault(f, s, x)
  BY DEF Unwire, Goto
<1>2. /\ vm \in VmStates /\ flt \in [Faulters -> FaultLocals] /\ wr \in WriterLocals
      /\ Owing(vm, flt, wr) /\ flt[f] \in FaultLocals /\ LocalMap(pc[f], flt[f])
      /\ LocalOK(pc[f], flt[f]) /\ NoPage \notin Pages
      /\ flt[f].pages \in [1 .. Levels -> Pages \cup {NoPage}]
      /\ WiredOf(flt) \in Ledger /\ HeldOf(wr) \in Ledger
      /\ \A q \in Pages : HeldOf(wr)[q] >= 0
      /\ Maps(vm, Home(vm), NoPage, BusyOf(flt), WiredOf(flt), WiredOf(flt), HeldOf(wr))
      /\ Placed(vm, NoPage)
  BY <1>1, MapFacts DEF WslInv
<1>3. /\ Good(vm, Home(vm), {}, NoPage) /\ Walks(vm, pc[f], flt[f])
      /\ \A q \in Pages : WiredOf(flt)[q] >= 0
  BY <1>1, WslFacts
<1>4. l \in 1 .. Levels /\ Levels \in Nat
  BY <1>1, <1>2, VmAssumption, SMTT(60) DEF LocalOK
<1>5. p \in Pages
  BY <1>1, <1>2, <1>4 DEF LocalOK
<1>6. IsTable(vm, p) /\ WiredOf(flt)[p] >= 1
  <2>1. vm.page[p].use = TableUse[l]
    BY <1>2, <1>4, <1>5 DEF Owing, TablesWired
  <2> QED
    BY <1>2, <1>4, <1>5, <2>1, LevelUse, WiredType DEF IsTable
<1>7. /\ x.page = flt[f].page /\ x.pte = flt[f].pte /\ x.va = flt[f].va
      /\ x.pages[l] = NoPage /\ \A j \in 1 .. Levels \ {l} : x.pages[j] = flt[f].pages[j]
  BY <1>2, <1>4, ZenonT(60) DEF FaultLocals
<1> HIDE DEF x
<1>8. Follows(flt[f], x)
  <2>1. ASSUME NEW k \in 1 .. Levels - 1, x.pages[k] \in Pages
        PROVE  x.pages[k] = flt[f].pages[k] /\ x.pages[k + 1] = flt[f].pages[k + 1]
    <3>1. k \in 1 .. Levels /\ k + 1 \in 1 .. Levels /\ k \in Int /\ l \in Int
      BY <1>4
    <3>2. k # l
      BY <1>2, <1>7, <2>1
    <3>3. x.pages[k] = flt[f].pages[k]
      BY <1>7, <3>1, <3>2
    <3>4. k >= l
      BY <1>1, <1>2, <2>1, <3>1, <3>3 DEF LocalMap
    <3>5. k + 1 # l
      BY <3>1, <3>2, <3>4
    <3> QED
      BY <1>7, <3>1, <3>3, <3>5
  <2> QED
    BY <1>7, <2>1 DEF Follows, Rewalks
<1>9. s.panic = NoPanic => Sound(vm, s)
  <2>1. \A q \in Pages : HeldOf(wr)[q] > 0 => IsAnon(vm, q)
    BY <1>2 DEF Owing, AnonHeld
  <2> HIDE DEF p
  <2> QED
    BY <1>2, <1>3, <1>5, <1>6, <2>1, PteDeletedSound
<1> HIDE DEF s
<1>10. y[f] = x
  BY <1>2
<1> HIDE DEF y, c
<1>11. ASSUME s.panic = NoPanic, TablesWired(s, y) PROVE Walks(s, c, x)
  <2>1. c # "user" => y[f].va \in VAddrs
    BY <1>1, <1>3, <1>7, <1>10 DEF Walks
  <2>2. Follows(flt[f], y[f])
    BY <1>8, <1>10
  <2>3. Walks(s, c, y[f])
    BY <1>2, <1>3, <1>9, <1>11, <2>1, <2>2, WalksOn
  <2> QED
    BY <1>10, <2>3
<1> QED
  BY <1>1, <1>9, <1>11, FaultWalks DEF y

(* finish_fault() makes the PTE it has read the page for valid, and        *)
(* unlocks its entry.                                                      *)
LEMMA FinishReadWsl ==
  ASSUME WslInv, MapInv', NEW f \in Faulters, FinishRead(f)
  PROVE  Listed(vm', pc', flt')
<1> DEFINE a == flt[f].pte
           p == flt[f].page
           v == flt[f].va
           e == HwPte(p, FALSE)
           t == SetPte(vm, a, e)
           s == WslUnlockEntry(t, LeafKey(v))
           x == [flt[f] EXCEPT !.page = NoPage, !.pte = NullRef, !.slot = NoSlot]
           y == [flt EXCEPT ![f] = x]
           home == Home(vm)
<1>1. /\ vm.panic = NoPanic /\ pc[f] = "finish" /\ pc' = [pc EXCEPT ![f] = "access"]
      /\ CommitFault(f, s, x)
  BY DEF FinishRead, Goto
<1>2. /\ vm \in VmStates /\ flt \in [Faulters -> FaultLocals] /\ wr \in WriterLocals
      /\ Owing(vm, flt, wr) /\ flt[f] \in FaultLocals /\ LocalOK(pc[f], flt[f])
      /\ Good(vm, home, {}, NoPage) /\ Walks(vm, pc[f], flt[f]) /\ NoPage \notin Pages
  BY <1>1, WslFacts, MapFacts
<1>3. p \in Pages
  BY <1>1, <1>2 DEF LocalOK
<1>4. /\ a \in PteAddr /\ Entry(vm, a).kind = "Busy" /\ vm.page[a[1]].use = "PML1"
      /\ v \in VAddrs /\ v = Addr(home, a)
  BY <1>1, <1>2, <1>3, ReadRefd DEF Walks
<1>5. /\ x.pages = flt[f].pages /\ x.page = NoPage /\ x.va = flt[f].va
  BY <1>2 DEF FaultLocals
<1> HIDE DEF x
<1>6. ASSUME s.panic = NoPanic PROVE Sound(vm, s)
  <2>1. e.kind = "Valid" /\ e \in Pte /\ t = SetPte(vm, a, e)
    <3>1. FALSE \in BOOLEAN /\ 0 \in Nat \cup {NoSlot}
      OBVIOUS
    <3>2. e \in Pte
      BY ONLY <1>3, <3>1, PteTypes
    <3> QED
      BY <3>2 DEF HwPte
  <2> HIDE DEF a, e, v, home
  <2>2. t \in VmStates
    BY <1>2, <1>4, <2>1, SetPteType
  <2> HIDE DEF t
  <2>3. t.panic = NoPanic /\ Same(t, s)
    BY <1>6, <2>2, WslEntryEffect
  <2>4. OnePte(vm, t, a, e) /\ t.wsl = vm.wsl /\ Steady(vm, t)
    <3>1. SetPte(vm, a, e).panic = NoPanic
      BY <2>1, <2>3
    <3>2. OnePte(vm, t, a, e) /\ Entered(vm, t, a, e)
      BY <1>2, <1>4, <2>1, <3>1, SetPteOne, SetPteEffect
    <3>3. t.wsl = vm.wsl
      BY <1>2, <1>4, <2>1, <3>1, WslKept, ConstantTypes
    <3> QED
      BY <1>2, <3>2, <3>3, SteadySteps
  <2>5. a \in Leaves(vm)
    BY <1>4 DEF Leaves, Kinds
  <2>6. Leaves(t) = Leaves(vm) /\ Valids(t) = Valids(vm) \cup {a}
    BY <2>1, <2>4, <2>5, OnePteRead
  <2>7. Tabs(t, NoPage) = Tabs(vm, NoPage) /\ Spare(t, NoPage) = Spare(vm, NoPage)
    BY <2>4, OnePteTabs
  <2>8. SameLeaves(t, s) /\ Tabs(s, NoPage) = Tabs(t, NoPage) /\ Spare(s, NoPage) = Spare(t, NoPage)
    BY <2>2, <2>3, EqualSets DEF Same
  <2>9. Held(vm, home, Leaves(vm), Valids(vm), Tabs(vm, NoPage), Spare(vm, NoPage))
    <3>1. Leaves(vm) \ {} = Leaves(vm) /\ Valids(vm) \ {} = Valids(vm)
      OBVIOUS
    <3> QED
      BY <1>2, <3>1 DEF Good
  <2>10. Held(t, home, Leaves(vm), Valids(vm), Tabs(vm, NoPage), Spare(vm, NoPage))
    BY <2>4, <2>9 DEF Held, WslIs
  <2>11. Held(s, home, Leaves(vm), Valids(vm) \cup {a}, Tabs(vm, NoPage), Spare(vm, NoPage))
    <3>1. WslUnlockEntry(t, LeafKey(v)).panic = NoPanic
      BY <1>6
    <3> QED
      BY <1>4, <2>2, <2>10, <3>1, HeldUnlock
  <2> HIDE DEF s
  <2>12. Leaves(s) = Leaves(vm) /\ Valids(s) = Valids(vm) \cup {a}
    BY <2>6, <2>8 DEF SameLeaves
  <2>13. Good(s, home, {}, NoPage)
    <3>1. Leaves(s) \ {} = Leaves(vm) /\ Valids(s) \ {} = Valids(vm) \cup {a}
      BY <2>12
    <3>2. \A b \in Leaves(vm) : Addr(home, b) \in VAddrs
      BY <1>2 DEF Good
    <3> QED
      BY <2>7, <2>8, <2>11, <3>1, <3>2 DEF Good
  <2>14. Steady(vm, s)
    BY <2>3, <2>4 DEF Steady, Same, SameRec
  <2> QED
    BY <2>13, <2>14, SteadySound DEF home
<1> HIDE DEF s
<1>7. y[f] = x /\ Follows(flt[f], x)
  BY <1>2, <1>5 DEF Follows, Rewalks
<1> HIDE DEF y
<1>8. ASSUME s.panic = NoPanic, TablesWired(s, y) PROVE Walks(s, "access", x)
  <2>1. y[f].va \in VAddrs /\ Follows(flt[f], y[f])
    BY <1>4, <1>5, <1>7
  <2>2. Walks(s, "access", y[f])
    BY <1>2, <1>6, <1>8, <2>1, WalksOn
  <2> QED
    BY <1>7, <2>2
<1> QED
  BY <1>1, <1>6, <1>8, FaultWalks DEF y

(* A daemon that changes the state soundly, or panics.                     *)
LEMMA CommitWsl ==
  ASSUME WslInv, MapInv', NEW s, NEW w, NEW pf1, vm.panic = NoPanic, Commit(s, flt, w, pf1),
         \A f \in Faulters : pc'[f] = pc[f], s.panic = NoPanic => Sound(vm, s)
  PROVE  Listed(vm', pc', flt')
<1>1. vm \in VmStates /\ Good(vm, Home(vm), {}, NoPage)
  BY WslFacts
<1>2. CASE s.panic = NoPanic
  <2>1. vm' = s /\ flt' = flt
    BY <1>2 DEF Commit
  <2> QED
    BY <1>2, <2>1, DaemonWalks
<1>3. CASE s.panic # NoPanic
  <2>1. vm' = [vm EXCEPT !.panic = s.panic] /\ flt' = flt
    BY <1>3 DEF Commit
  <2>2. Same(vm, vm') /\ vm'.wsl = vm.wsl
    BY <1>1, <2>1 DEF VmStates, Same, SameRec
  <2>3. Sound(vm, vm')
    BY <1>1, <2>2, SameSound
  <2> QED
    BY <2>1, <2>3, DaemonWalks
<1> QED
  BY <1>2, <1>3

(* A daemon that leaves the tables and the list alone.                     *)
LEMMA IdleWsl ==
  ASSUME WslInv, MapInv', \A f \in Faulters : pc'[f] = pc[f], flt' = flt,
         Same(vm, vm'), vm'.wsl = vm.wsl, vm'.panic = vm.panic
  PROVE  Listed(vm', pc', flt')
<1>1. vm \in VmStates /\ Good(vm, Home(vm), {}, NoPage)
  BY WslFacts
<1>2. Sound(vm, vm')
  BY <1>1, SameSound
<1> QED
  BY <1>2, DaemonWalks

(* The page writer only counts a page's references and marks it clean.     *)
LEMMA CleanGood ==
  ASSUME NEW s \in VmStates, NEW p \in Pages, NEW slot, CleanPage(s, p, slot).panic = NoPanic,
         Good(s, Home(s), {}, NoPage)
  PROVE  Sound(s, CleanPage(s, p, slot))
<1> DEFINE r  == PageRetain(s, p)
           ok == r.page[p].use \in {"AnonPrivate", "PML1", "PML2", "PML3", "PML4"}
           t  == [r EXCEPT !.page[p].drumslot = slot, !.page[p].dirty = FALSE]
           k  == Kassert(r, ok, "pgwriter.c:164", t)
           home == Home(s)
<1>1. k = CleanPage(s, p, slot)
  BY DEF CleanPage
<1>2. r \in VmStates /\ r = PageRetain(s, p)
  BY PageRetainType
<1>3. Good(s, home, {}, NoPage)
  OBVIOUS
<1> HIDE DEF r, home
<1>4. t.wsl = r.wsl /\ t.table = r.table /\ \A q \in Pages : SameRec(r, t, q)
  <2>1. r.page \in PageDb /\ t.table = r.table /\ t.wsl = r.wsl
    BY <1>2, Parts DEF VmStates
  <2>2. t.page = [r.page EXCEPT ![p].drumslot = slot, ![p].dirty = FALSE]
    BY <1>2 DEF VmStates
  <2> HIDE DEF t
  <2> QED
    BY <2>1, <2>2 DEF PageDb, PageRec, SameRec
<1> HIDE DEF t
<1>5. k.panic = NoPanic => r.panic = NoPanic /\ k = t
  BY <1>2, PanicSeen DEF Kassert, Then, NoPanic
<1> HIDE DEF k, ok
<1>6. r.panic = NoPanic /\ CleanPage(s, p, slot) = t
  BY <1>1, <1>5
<1>7. Good(r, home, {}, NoPage)
  BY <1>2, <1>3, <1>6, RetainGood
<1>8. SameLeaves(r, t) /\ Tabs(t, NoPage) = Tabs(r, NoPage) /\ Spare(t, NoPage) = Spare(r, NoPage)
  BY <1>2, <1>4, EqualSets
<1>9. Good(t, home, {}, NoPage)
  BY <1>4, <1>7, <1>8, GoodKept
<1>10. Steady(s, t)
  BY <1>6, CleanPageEffect DEF Refd, Steady, SameRec
<1> QED
  BY <1>6, <1>9, <1>10, SteadySound DEF home

(* The page writer.                                                        *)
LEMMA WriterWsl ==
  ASSUME WslInv, MapInv', WriterStep
  PROVE  Listed(vm', pc', flt')
<1>1. /\ vm \in VmStates /\ wr \in WriterLocals /\ Placed(vm, NoPage) /\ Owing(vm, flt, wr)
      /\ LocalMaps /\ TypeInv /\ Good(vm, Home(vm), {}, NoPage) /\ MapInv
  BY DaemonFacts, WslFacts DEF WslInv
<1>2. ASSUME NEW c, pc' = [pc EXCEPT !["pgwriter"] = c]
      PROVE  \A f \in Faulters : pc'[f] = pc[f]
  BY <1>1, <1>2, DaemonFacts, SMTT(60)
<1>3. CASE WriterCollect
  <2> DEFINE p == Head(vm.modified)
  <2>1. PICK slot, pf1 :
          Commit(CleanPage(vm, p, slot), flt, [wr EXCEPT !.page = p, !.slot = slot], pf1)
    BY <1>3, Zenon DEF WriterCollect
  <2>2. vm.panic = NoPanic /\ pc' = [pc EXCEPT !["pgwriter"] = "send"] /\ vm.modified # << >>
    BY <1>3 DEF WriterCollect, Goto
  <2>3. p \in Pages
    <3>1. vm.modified \in Seq(Pages)
      BY <1>1, Parts DEF Queue
    <3> QED
      BY <2>2, <3>1
  <2>4. \A f \in Faulters : pc'[f] = pc[f]
    BY <1>2, <2>2
  <2> HIDE DEF p
  <2>5. CleanPage(vm, p, slot).panic = NoPanic => Sound(vm, CleanPage(vm, p, slot))
    BY <1>1, <2>3, CleanGood
  <2> QED
    BY <2>1, <2>2, <2>4, <2>5, CommitWsl
<1>4. CASE WriterIdle \/ WriterSend
  <2>1. PICK c : /\ pc' = [pc EXCEPT !["pgwriter"] = c] /\ flt' = flt
                 /\ vm' = vm \/ vm' = [vm EXCEPT !.ev.pgwriter = FALSE]
    BY <1>4 DEF WriterIdle, WriterSend, Goto
  <2>2. Same(vm, vm') /\ vm'.panic = vm.panic /\ vm'.wsl = vm.wsl
    BY <1>1, <2>1 DEF VmStates, Same, SameRec
  <2>3. \A f \in Faulters : pc'[f] = pc[f]
    BY <1>2, <2>1
  <2> QED
    BY <2>1, <2>2, <2>3, IdleWsl
<1>5. CASE WriterRelease
  <2> DEFINE p == Head(wr.iops)
             s == PageRelease(vm, p)
             w == [wr EXCEPT !.iops = Tail(@)]
  <2>1. PICK c : /\ vm.panic = NoPanic /\ pc["pgwriter"] = "drain"
                 /\ pc' = [pc EXCEPT !["pgwriter"] = c]
    BY <1>5 DEF WriterRelease, Goto
  <2>2. wr.iops # << >> /\ Commit(s, flt, w, pf)
    BY <1>5 DEF WriterRelease
  <2>3. wr.page = NoPage /\ w.iops = Tail(wr.iops) /\ w.page = wr.page
    <3>1. wr.page = NoPage
      BY <1>1, <2>1 DEF LocalMaps
    <3> QED
      BY <1>1, <3>1 DEF WriterLocals
  <2>4. w \in WriterLocals
    <3>1. wr.iops \in Seq(Pages) /\ Tail(wr.iops) \in Seq(Pages)
      BY <1>1, <2>2 DEF WriterLocals
    <3> QED
      BY <1>1, <3>1 DEF WriterLocals
  <2>5. p \in Pages /\ vm.page[p].use # "Deleted"
    <3> HIDE DEF w
    <3>1. p \in Pages /\ HeldOf(w) = Plus(HeldOf(wr), p, -1)
      BY <1>1, <2>2, <2>3, <2>4, HeldLess
    <3>2. HeldOf(w)[p] >= 0 /\ HeldOf(wr) \in Ledger /\ -1 \in Int
      <4>1. -1 \in Int
        OBVIOUS
      <4> HIDE DEF p
      <4> QED
        BY <1>1, <2>4, <3>1, <4>1, HeldType
    <3> HIDE DEF p
    <3>3. Plus(HeldOf(wr), p, -1)[p] = HeldOf(wr)[p] + (-1) /\ HeldOf(wr)[p] \in Int
      BY <3>1, <3>2, PlusAt
    <3>4. HeldOf(wr)[p] > 0
      BY <3>1, <3>2, <3>3
    <3> QED
      BY <1>1, <3>1, <3>4 DEF Owing, AnonHeld, IsAnon
  <2>6. s.panic = NoPanic => Sound(vm, s)
    <3> DEFINE home == Home(vm)
    <3> HIDE DEF p
    <3>1. ASSUME s.panic = NoPanic PROVE Steady(vm, s) /\ Good(s, home, {}, NoPage)
      <4>1. Steady(vm, s)
        BY <1>1, <2>5, <3>1, PageReleaseEffect DEF Refd, Steady, SameRec
      <4>2. Good(vm, home, {}, NoPage)
        BY <1>1
      <4> HIDE DEF home
      <4> QED
        BY <1>1, <2>5, <3>1, <4>1, <4>2, ReleaseGood
    <3> HIDE DEF s
    <3> QED
      BY <3>1, SteadySound
  <2>7. \A f \in Faulters : pc'[f] = pc[f]
    BY <1>2, <2>1
  <2> HIDE DEF s, w
  <2> QED
    BY <2>1, <2>2, <2>6, <2>7, CommitWsl
<1> QED
  BY <1>3, <1>4, <1>5 DEF WriterStep

(* The balancer evicts what the oldest entry of the list is for.           *)
LEMMA TrimGood ==
  ASSUME NEW s \in VmStates, Forest(s, Home(s), NoPage), Good(s, Home(s), {}, NoPage),
         s.wsl.queue # << >>, WslTrim1(s).panic = NoPanic
  PROVE  Sound(s, WslTrim1(s))
<1> DEFINE t == WslTrim1(s)
           home == Home(s)
           L == Leaves(s)
           V == Valids(s)
           Q == Tabs(s, NoPage)
           W == Spare(s, NoPage)
<1>1. Held(s, home, L, V, Q, W) /\ \A c \in L : Addr(home, c) \in VAddrs
  <2>1. L \ {} = L /\ V \ {} = V
    OBVIOUS
  <2> HIDE DEF home, L, V
  <2> QED
    BY <2>1 DEF Good, home, L, V
<1>2. LowPtes(s, NoPage, L) /\ V \subseteq L
  BY DEF LowPtes, Leaves, Valids, Forest
<1>3. Forest(s, home, NoPage) /\ Trimmed(s, t)
  BY WslTrim1Effect
<1>4. Steady(s, t)
  BY <1>3, SteadySteps
<1> HIDE DEF home
<1>5. PICK v \in VAddr :
        /\ LeafKey(v) \in Keys(home, V) \cup TKeys(W)
        /\ EvictedAt(s, t, << FetchPte(s, v), v[1] >>)
        /\ WslIs(t, (Keys(home, L) \cup TKeys(Q)) \ {LeafKey(v)},
                 (Keys(home, V) \cup TKeys(W)) \ {LeafKey(v)})
  <2> DEFINE T == Keys(home, L) \cup TKeys(Q)
             E == Keys(home, V) \cup TKeys(W)
  <2>1. WslIs(s, T, E)
    BY <1>1 DEF Held
  <2> HIDE DEF T, E
  <2>2. \E v \in VAddr :
           /\ LeafKey(v) \in E /\ FetchPte(s, v) \in Pages
           /\ EvictedAt(s, WslTrim1(s), << FetchPte(s, v), v[1] >>)
           /\ WslIs(WslTrim1(s), T \ {LeafKey(v)}, E \ {LeafKey(v)})
    BY <2>1, TrimList
  <2> QED
    BY <2>2 DEF T, E
<1> DEFINE b == << FetchPte(s, v), v[1] >>
<1>6. TrimmedTo(home, L, V, Q, W, v, b)
  <2> HIDE DEF L, V, Q, W
  <2> QED
    BY <1>2, <1>3, <1>5, TrimmedKeys
<1> HIDE DEF t, b
<1>7. EvictedAt(s, t, b) /\ b \in L
  BY <1>2, <1>5, <1>6 DEF TrimmedTo, b
<1>8. /\ Leaves(t) = L \ {b} /\ Valids(t) = V \ {b}
      /\ Tabs(t, NoPage) = Q /\ Spare(t, NoPage) = W
  BY <1>7, EvictedSets
<1> HIDE DEF L, V, Q, W
<1>9. Held(t, home, L \ {b}, V \ {b}, Q, W)
  BY <1>5, <1>6 DEF Held, TrimmedTo
<1>10. Good(t, home, {}, NoPage)
  <2>1. Leaves(t) \ {} = L \ {b} /\ Valids(t) \ {} = V \ {b}
    BY <1>8
  <2> QED
    BY <1>1, <1>8, <1>9, <2>1 DEF Good
<1>11. Sound(s, t)
  BY <1>4, <1>10, SteadySound DEF home
<1> QED
  BY <1>11 DEF t

LEMMA BalancerWsl ==
  ASSUME WslInv, MapInv', BalancerStep
  PROVE  Listed(vm', pc', flt')
<1>1. /\ vm \in VmStates /\ Good(vm, Home(vm), {}, NoPage) /\ Forest(vm, Home(vm), NoPage)
      /\ MapInv
  BY WslFacts
<1>2. PICK c : vm.panic = NoPanic /\ pc' = [pc EXCEPT !["balancer"] = c]
  BY DEF BalancerStep, BalancerWake, BalancerTrim, BalancerUnlock, BalancerCheck, Goto
<1>3. \A f \in Faulters : pc'[f] = pc[f]
  BY <1>1, <1>2, DaemonFacts
<1>4. CASE BalancerTrim
  <2> DEFINE s == WslTrim1(vm)
  <2>1. vm.wsl.queue # << >> /\ Commit(s, flt, wr, pf)
    BY <1>4 DEF BalancerTrim
  <2>2. s.panic = NoPanic => Sound(vm, s)
    BY <1>1, <2>1, TrimGood
  <2> HIDE DEF s
  <2> QED
    BY <1>2, <1>3, <2>1, <2>2, CommitWsl
<1>5. CASE ~BalancerTrim
  <2>1. /\ vm' = vm \/ vm' = [vm EXCEPT !.ev.balancer = FALSE]
        /\ flt' = flt
    BY <1>5 DEF BalancerStep, BalancerWake, BalancerUnlock, BalancerCheck
  <2>2. Same(vm, vm') /\ vm'.panic = vm.panic /\ vm'.wsl = vm.wsl
    BY <1>1, <2>1 DEF VmStates, Same, SameRec
  <2> QED
    BY <1>3, <2>1, <2>2, IdleWsl
<1> QED
  BY <1>4, <1>5

(* At the start the root is the only table, and it maps nothing.           *)
LEMMA InitWsl == Init => WslInv
<1> SUFFICES ASSUME Init PROVE WslInv
  OBVIOUS
<1> DEFINE home == Home(vm)
<1>1. \A a \in PteAddr : Entry(vm, a).kind \notin Kinds
  <2>1. \A a \in PteAddr : Entry(vm, a) = ZeroPte
    BY DEF Init, VmInit, PteAddr, Entry
  <2> QED
    BY <2>1 DEF ZeroPte, Kinds
<1>2. \A q \in Pages \ {Root} : ~IsTable(vm, q)
  BY DEF Init, VmInit, IsTable, TableUses
<1>3. vm.wsl.tree = {} /\ vm.wsl.queue = << >> /\ vm.wsl.nlocked = 0
  BY DEF Init, VmInit
<1>4. Leaves(vm) = {} /\ Valids(vm) = {} /\ Tabs(vm, NoPage) = {} /\ Spare(vm, NoPage) = {}
  BY <1>1, <1>2 DEF Leaves, Valids, Tabs, Spare
<1> HIDE DEF home
<1>5. Good(vm, home, {}, NoPage)
  <2>1. Keys(home, {}) \cup TKeys({}) = {}
    BY DEF Keys, TKeys
  <2>2. Lists(<< >>, {})
    BY DEF Lists
  <2>3. WslIs(vm, {}, {})
    BY <1>3, <2>2, FS_EmptySet DEF WslIs
  <2> QED
    BY <1>4, <2>1, <2>3 DEF Good, Held
<1>6. ASSUME NEW f \in Faulters PROVE Walks(vm, pc[f], flt[f])
  <2>1. pc[f] = "user" /\ flt[f].page = NoPage /\ \A k \in 1 .. Levels : flt[f].pages[k] = NoPage
    BY DEF Init, NoFault, Threads
  <2>2. NoPage \notin Pages
    BY DEF NoPage, Pages
  <2>3. \A k \in 1 .. Levels - 1 : k \in 1 .. Levels
    BY VmAssumption
  <2> QED
    BY <2>1, <2>2, <2>3 DEF Walks, Chain
<1> QED
  BY <1>5, <1>6, InitMaps DEF WslInv, Listed, home

(* Every operation keeps the list in step with the page tables.            *)
LEMMA NextWsl == WslInv /\ [Next]_vars => WslInv'
<1> SUFFICES ASSUME WslInv, [Next]_vars PROVE WslInv'
  OBVIOUS
<1>1. MapInv'
  BY NextMaps DEF WslInv
<1>2. Listed(vm', pc', flt')
  <2>1. CASE \E f \in Faulters, va \in VAddrs, write \in Writes : Pick(f, va, write)
    BY <1>1, <2>1, StartWsl
  <2>2. ASSUME NEW f \in Faulters, FaulterStep(f) PROVE Listed(vm', pc', flt')
    BY <1>1, <2>2, PassWsl, StartWsl, WireRootWsl, WireLevelWsl, ValidLeafWsl, FillLeafWsl,
       SwapFaultWsl, UnwireWsl, FinishReadWsl, Zenon DEF FaulterStep
  <2>3. CASE WriterStep
    BY <1>1, <2>3, WriterWsl
  <2>4. CASE BalancerStep
    BY <1>1, <2>4, BalancerWsl
  <2>5. CASE UNCHANGED vars
    BY <2>5 DEF vars, WslInv
  <2> QED
    BY <2>1, <2>2, <2>3, <2>4, <2>5 DEF Next, Halted
<1>3. Listed(vm, pc, flt)'
  BY ONLY <1>2, Zenon DEF Listed, Good, Held, WslIs, Leaves, Valids, Tabs, Spare, Home, Entry,
     IsTable, Keys, TKeys, Addr, LeafKey, TableKey, Lists, Walks, Chain
<1> QED
  BY <1>1, <1>3 DEF WslInv

(* The working set list of wsl_insert() and wsl_remove() has an entry for  *)
(* each mapped address and each page table but the root, and its queue     *)
(* those of them that may be evicted, whatever the size of memory and      *)
(* however the threads and the daemons interleave.                         *)
THEOREM ListMatchesTables == Spec => []WslSound
<1>1. WslInv => WslSound
  <2> SUFFICES ASSUME WslInv PROVE WslSound
    OBVIOUS
  <2> DEFINE home == Home(vm)
             TreeMapped == {va \in VAddrs :
                          /\ LeafTable(va) \in Pages
                          /\ vm.table[LeafTable(va)][va[1]].kind \in {"Valid", "Busy"}}
             Loaded == {va \in TreeMapped : vm.table[LeafTable(va)][va[1]].kind = "Valid"}
  <2>1. vm \in VmStates /\ Forest(vm, home, NoPage) /\ Good(vm, home, {}, NoPage)
    BY WslFacts
  <2> HIDE DEF home
  <2>2. /\ Held(vm, home, Leaves(vm), Valids(vm), Tabs(vm, NoPage), Spare(vm, NoPage))
        /\ \A a \in Leaves(vm) : Addr(home, a) \in VAddrs
    <3>1. Leaves(vm) \ {} = Leaves(vm) /\ Valids(vm) \ {} = Valids(vm)
      OBVIOUS
    <3> QED
      BY <2>1, <3>1 DEF Good
  <2>3. ASSUME NEW a \in Leaves(vm)
        PROVE  /\ Addr(home, a) \in TreeMapped
               /\ a \in Valids(vm) => Addr(home, a) \in Loaded
    <3> DEFINE va == Addr(home, a)
    <3>1. a \in PteAddr /\ a[1] # NoPage /\ vm.page[a[1]].use = "PML1"
      BY DEF Leaves, NoPage, PteAddr, Pages
    <3>2. LeafTable(va) = a[1]
      BY <2>1, <3>1, AddrWalk DEF LeafTable
    <3>3. va[1] = a[2]
      <4>1. 1 \in 1 .. Levels
        BY VmAssumption
      <4> QED
        BY <4>1 DEF Addr
    <3>4. va \in VAddrs
      BY <2>2
    <3> HIDE DEF va
    <3>5. Entry(vm, a) = vm.table[LeafTable(va)][va[1]] /\ LeafTable(va) \in Pages
      BY <3>1, <3>2, <3>3, AddrParts DEF Entry
    <3>6. va \in TreeMapped /\ (a \in Valids(vm) => va \in Loaded)
      BY <3>4, <3>5 DEF Leaves, Valids, Kinds
    <3> QED
      BY <3>6 DEF va
  <2>4. ASSUME NEW va \in TreeMapped
        PROVE  \E a \in Leaves(vm) : Addr(home, a) = va /\ (va \in Loaded => a \in Valids(vm))
    <3> DEFINE a == << FetchPte(vm, va), va[1] >>
    <3>1. va \in VAddr /\ FetchPte(vm, va) \in Pages
      BY VmmAssumption DEF LeafTable
    <3>2. a \in PteAddr /\ vm.page[a[1]].use = "PML1" /\ Addr(home, a) = va
      BY <2>1, <3>1, WalkAddr
    <3>3. Entry(vm, a) = vm.table[LeafTable(va)][va[1]]
      BY DEF Entry, LeafTable
    <3> HIDE DEF a
    <3>4. a \in Leaves(vm) /\ (va \in Loaded => a \in Valids(vm))
      BY <3>2, <3>3 DEF Leaves, Valids, Kinds
    <3> QED
      BY <3>2, <3>4
  <2>5. Keys(home, Leaves(vm)) = {LeafKey(va) : va \in TreeMapped}
    <3> HIDE DEF TreeMapped, Loaded
    <3> QED
      BY <2>3, <2>4, Zenon DEF Keys
  <2>6. Keys(home, Valids(vm)) = {LeafKey(va) : va \in Loaded}
    <3>1. Valids(vm) \subseteq Leaves(vm) /\ Loaded \subseteq TreeMapped
      BY DEF Valids
    <3> HIDE DEF TreeMapped, Loaded
    <3> QED
      BY <2>3, <2>4, <3>1, ZenonT(30) DEF Keys
  <2>7. /\ Tabs(vm, NoPage) = {q \in Pages \ {Root} : Table(q)}
        /\ Spare(vm, NoPage) = {q \in Pages \ {Root} : Table(q) /\ vm.page[q].nonswap = 0}
    BY DEF Tabs, Spare, Table, IsTable, TableUses, NoPage, Pages
  <2> DEFINE T == {LeafKey(va) : va \in TreeMapped}
                  \cup {TableKey(p) : p \in {q \in Pages \ {Root} : Table(q)}}
             E == {LeafKey(va) : va \in Loaded}
                  \cup {TableKey(p) : p \in {q \in Pages \ {Root} :
                                                Table(q) /\ vm.page[q].nonswap = 0}}
  <2>8. WslIs(vm, T, E)
    <3>1. /\ T = Keys(home, Leaves(vm)) \cup TKeys(Tabs(vm, NoPage))
          /\ E = Keys(home, Valids(vm)) \cup TKeys(Spare(vm, NoPage))
      <4> HIDE DEF TreeMapped, Loaded
      <4> QED
        BY <2>5, <2>6, <2>7, Zenon DEF TKeys
    <3> HIDE DEF T, E
    <3> QED
      BY <2>2, <3>1 DEF Held
  <2>9. vm.wsl.tree = T /\ Distinct(vm.wsl.queue) /\ Elements(vm.wsl.queue) = E
        /\ vm.wsl.nlocked = Cardinality(vm.wsl.tree) - Len(vm.wsl.queue)
    <3> HIDE DEF T, E
    <3>1. Lists(vm.wsl.queue, E) /\ vm.wsl.queue \in Seq(WsKey)
      BY <2>1, <2>8, WslPart DEF WslIs
    <3> QED
      BY <2>8, <3>1, ListsDistinct DEF WslIs
  <2> QED
    BY <2>9 DEF WslSound
<1> QED
  BY <1>1, InitWsl, NextWsl, PTL DEF Spec
=============================================================================
