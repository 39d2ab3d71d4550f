----------------------------- MODULE KernelProofs -----------------------------
(***************************************************************************)
(* Proofs about DataRegion, for any number of regions, spaces, blocks and  *)
(* windows of any size, and about the files of ArtSimple, for a scan of    *)
(* any size and any angles, and any number of calls and iterations.        *)
(***************************************************************************)
EXTENDS DataRegion, ArtSimple, SequenceTheorems, FiniteSetTheorems, TLAPS

-----------------------------------------------------------------------------
(* The inductive invariant.  Memory is sound for every region, dead or     *)
(* alive: no operation looks at whether the others are alive.              *)

Address == Block \cup {Null}
Window == [data : Address, index : Nat, count : Nat]
RegionRecord == [data : Address, count : Nat, index : Nat,
                 list : Seq(Mirror \cup {Null}), alive : BOOLEAN]
Memory == [heap : [Block -> Nat \cup {Free}], mirrors : [Mirror -> Window],
           region : [Region -> RegionRecord], fault : BOOLEAN]

\* A window in the list of a region lies in its block; a dead region has nothing.
CountOK(mm, r) ==
  /\ ~mm.region[r].alive => mm.region[r] = NoRegion
  /\ IF mm.region[r].data = Null THEN mm.region[r].count = 0
     ELSE mm.heap[mm.region[r].data] = mm.region[r].count

WindowOK(w, region) == w.data = region.data /\ w.data # Null /\ w.index + w.count <= region.count

ListOK(mm, r) ==
  /\ Len(mm.region[r].list) <= MaxList
  /\ \A k \in DOMAIN mm.region[r].list : mm.region[r].list[k] # Null =>
       WindowOK(mm.mirrors[mm.region[r].list[k]], mm.region[r])

RegionOK(mm, r) == CountOK(mm, r) /\ ListOK(mm, r)

\* Two regions share no block, and no window is in two places of lists.
Apart(mm, r, q) ==
  /\ r # q /\ mm.region[r].data = mm.region[q].data => mm.region[r].data = Null
  /\ \A k \in DOMAIN mm.region[r].list, l \in DOMAIN mm.region[q].list :
       mm.region[r].list[k] = mm.region[q].list[l] =>
         mm.region[r].list[k] = Null \/ (r = q /\ k = l)

\* Nothing is lost: a block and a window has a region that will delete it.
Owned(mm, b) == \E r \in Region : mm.region[r].data = b
ListedIn(mm, R, m) == \E r \in R : \E k \in DOMAIN mm.region[r].list : mm.region[r].list[k] = m

Sound(mm) ==
  /\ mm \in Memory /\ ~mm.fault
  /\ \A r \in Region : RegionOK(mm, r)
  /\ \A r, q \in Region : Apart(mm, r, q)
  /\ \A b \in Block : mm.heap[b] # Free => Owned(mm, b)
  /\ \A m \in Mirror : mm.mirrors[m] # NoWindow => ListedIn(mm, Region, m)

\* A space has the rows it says, and no others.
SpacesOK ==
  /\ space \in [Spaces -> [rows : 0 .. MaxRows, cols : Nat, alive : BOOLEAN]]
  /\ \A x \in Spaces, i \in 1 .. MaxRows :
       mem.region[<<x, i>>].alive <=> space[x].alive /\ i <= space[x].rows

\* The windows handed out of a region, up to its index.
Upto(q) == IF q = <<>> THEN 0 ELSE Last(q).index + Last(q).count
InOrder(q) ==
  \A k \in DOMAIN q : /\ q[k].count > 0
                      /\ q[k].index = IF k = 1 THEN 0 ELSE q[k - 1].index + q[k - 1].count
HandedOK(mm, q, r) ==
  /\ q \in Seq([index : Nat, count : Nat])
  /\ InOrder(q)
  /\ ~mm.region[r].alive => q = <<>>
  /\ mm.region[r].data # Null => mm.region[r].index = Upto(q)

RegionInv == /\ Sound(mem)
             /\ SpacesOK
             /\ DOMAIN handed = Region
             /\ \A r \in Region : HandedOK(mem, handed[r], r)

-----------------------------------------------------------------------------
(* What the operations of the code do to sound memory.                     *)

\* What delete needs of the windows in lists.
ListsOK(mm) ==
  /\ mm \in Memory /\ ~mm.fault
  /\ \A r \in Region :
       /\ Len(mm.region[r].list) <= MaxList
       /\ \A k \in DOMAIN mm.region[r].list : mm.region[r].list[k] # Null =>
            mm.mirrors[mm.region[r].list[k]] # NoWindow
  /\ \A r, q \in Region :
       \A k \in DOMAIN mm.region[r].list, l \in DOMAIN mm.region[q].list :
         mm.region[r].list[k] = mm.region[q].list[l] =>
           mm.region[r].list[k] = Null \/ (r = q /\ k = l)

LEMMA WindowOKIsOne == ASSUME NEW w, NEW region, WindowOK(w, region) PROVE w # NoWindow
BY DEF WindowOK, NoWindow

LEMMA SoundLists == ASSUME NEW mm, Sound(mm) PROVE ListsOK(mm)
<1> USE DEF Sound
<1>1. ASSUME NEW r \in Region
      PROVE  /\ Len(mm.region[r].list) <= MaxList
             /\ \A k \in DOMAIN mm.region[r].list : mm.region[r].list[k] # Null =>
                  mm.mirrors[mm.region[r].list[k]] # NoWindow
  <2>1. RegionOK(mm, r)
    OBVIOUS
  <2> QED
    BY <2>1, WindowOKIsOne DEF RegionOK, ListOK
<1>2. \A r, q \in Region :
       \A k \in DOMAIN mm.region[r].list, l \in DOMAIN mm.region[q].list :
         mm.region[r].list[k] = mm.region[q].list[l] =>
           mm.region[r].list[k] = Null \/ (r = q /\ k = l)
  BY DEF Apart
<1> QED
  BY <1>1, <1>2 DEF ListsOK

\* The parts of memory.
LEMMA MemoryParts ==
  ASSUME NEW mm \in Memory
  PROVE  /\ mm.heap \in [Block -> Nat \cup {Free}]
         /\ mm.mirrors \in [Mirror -> Window]
         /\ mm.fault \in BOOLEAN
         /\ mm.region \in [Region -> RegionRecord]
         /\ mm = [heap |-> mm.heap, mirrors |-> mm.mirrors, region |-> mm.region, fault |-> mm.fault]
BY DEF Memory

LEMMA RegionParts ==
  ASSUME NEW mm \in Memory, NEW r \in Region
  PROVE  /\ mm.region[r] \in RegionRecord
         /\ mm.region[r].data \in Address
         /\ mm.region[r].count \in Nat /\ mm.region[r].index \in Nat
         /\ mm.region[r].list \in Seq(Mirror \cup {Null})
         /\ mm.region[r].alive \in BOOLEAN
         /\ Len(mm.region[r].list) \in Nat
         /\ DOMAIN mm.region[r].list = 1 .. Len(mm.region[r].list)
         /\ \A k \in DOMAIN mm.region[r].list : mm.region[r].list[k] \in Mirror \cup {Null}
<1>1. mm.region[r] \in RegionRecord
  BY MemoryParts
<1> QED
  BY <1>1 DEF RegionRecord

\* A region stays in order when its block, if it has one, and its windows keep what they have.
LEMMA UntouchedRegionOK ==
  ASSUME NEW mm, NEW mn, NEW r \in Region, RegionOK(mm, r), mn.region[r] = mm.region[r],
         mm.region[r].data # Null => mn.heap[mm.region[r].data] = mm.heap[mm.region[r].data],
         \A k \in DOMAIN mm.region[r].list : mm.region[r].list[k] # Null =>
           mn.mirrors[mm.region[r].list[k]] = mm.mirrors[mm.region[r].list[k]]
  PROVE  RegionOK(mn, r)
<1>1. CountOK(mn, r)
  BY DEF RegionOK, CountOK
<1>2. ListOK(mn, r)
  BY DEF RegionOK, ListOK
<1> QED
  BY <1>1, <1>2 DEF RegionOK

LEMMA DeleteBlocksIs ==
  ASSUME NEW mm, Sound(mm), NEW R \in SUBSET Region
  PROVE  DeleteBlocks(mm, R) =
           [mm EXCEPT !.heap = [b \in Block |-> IF \E r \in R : mm.region[r].data = b
                                                THEN Free ELSE mm.heap[b]]]
<1> DEFINE gone == {mm.region[r].data : r \in R} \ {Null}
<1>0. mm \in Memory /\ ~mm.fault
  BY DEF Sound
<1>1. ~ \E b \in gone : mm.heap[b] = Free
  <2> SUFFICES ASSUME NEW r \in R, mm.region[r].data # Null
               PROVE  mm.heap[mm.region[r].data] # Free
    OBVIOUS
  <2>1. RegionOK(mm, r)
    BY DEF Sound
  <2>2. mm.region[r].count \in Nat
    BY <1>0, RegionParts
  <2> QED
    BY <2>1, <2>2 DEF RegionOK, CountOK, Free
<1>2. ~ \E r, q \in R : r # q /\ mm.region[r].data = mm.region[q].data /\ mm.region[r].data \in gone
  BY DEF Sound, Apart
<1>3. \A b \in Block : b \in gone <=> \E r \in R : mm.region[r].data = b
  BY DEF Block, Null
<1>4. [b \in Block |-> IF b \in gone THEN Free ELSE mm.heap[b]] =
      [b \in Block |-> IF \E r \in R : mm.region[r].data = b THEN Free ELSE mm.heap[b]]
  BY <1>3
<1>5. (\/ mm.fault
       \/ \E b \in gone : mm.heap[b] = Free
       \/ \E r, q \in R : r # q /\ mm.region[r].data = mm.region[q].data
                            /\ mm.region[r].data \in gone) = mm.fault
  BY <1>0, <1>1, <1>2, MemoryParts
<1> QED
  <2> HIDE DEF gone
  <2>1. DeleteBlocks(mm, R) =
          [mm EXCEPT !.heap = [b \in Block |-> IF b \in gone THEN Free ELSE mm.heap[b]],
                     !.fault = \/ @
                               \/ \E b \in gone : mm.heap[b] = Free
                               \/ \E r, q \in R : r # q /\ mm.region[r].data = mm.region[q].data
                                                    /\ mm.region[r].data \in gone]
    BY DEF DeleteBlocks, gone
  <2> QED
    BY <2>1, <1>0, <1>4, <1>5, MemoryParts

LEMMA DeleteMirrorsIs ==
  ASSUME NEW mm, ListsOK(mm), NEW R \in SUBSET Region
  PROVE  DeleteMirrors(mm, R) =
           [mm EXCEPT !.mirrors = [m \in Mirror |-> IF ListedIn(mm, R, m) THEN NoWindow
                                                    ELSE mm.mirrors[m]]]
<1> DEFINE list(r) == mm.region[r].list
           entries == {rk \in R \X (1 .. MaxList) : rk[2] \in DOMAIN list(rk[1])}
           gone == {list(rk[1])[rk[2]] : rk \in entries} \ {Null}
<1>0. mm \in Memory /\ ~mm.fault
  BY DEF ListsOK
<1>1. \A e \in entries : e[1] \in R /\ e[1] \in Region /\ e[2] \in DOMAIN list(e[1]) /\ e = <<e[1], e[2]>>
  OBVIOUS
<1>2. ~ \E m \in gone : mm.mirrors[m] = NoWindow
  BY <1>1 DEF ListsOK
<1>3. ~ \E e, f \in entries : e # f /\ list(e[1])[e[2]] = list(f[1])[f[2]] /\ list(e[1])[e[2]] \in gone
  <2> SUFFICES ASSUME NEW e \in entries, NEW f \in entries, e # f,
                      list(e[1])[e[2]] = list(f[1])[f[2]], list(e[1])[e[2]] # Null
               PROVE  FALSE
    OBVIOUS
  <2> HIDE DEF entries
  <2>1. e[1] = f[1] /\ e[2] = f[2]
    BY <1>1 DEF ListsOK
  <2> QED
    BY <2>1, <1>1
<1>4. ASSUME NEW m \in Mirror
      PROVE  m \in gone <=> ListedIn(mm, R, m)
  <2>1. m # Null
    BY DEF Mirror, Null
  <2>2. ASSUME m \in gone PROVE ListedIn(mm, R, m)
    BY <2>2, <1>1 DEF ListedIn
  <2>3. ASSUME ListedIn(mm, R, m) PROVE m \in gone
    <3>0. PICK r \in R : \E k \in DOMAIN list(r) : list(r)[k] = m
      BY <2>3 DEF ListedIn
    <3>1. PICK k \in DOMAIN list(r) : list(r)[k] = m
      BY <3>0
    <3>2. k \in 1 .. MaxList
      <4>1. Len(list(r)) <= MaxList
        BY DEF ListsOK
      <4>2. Len(list(r)) \in Nat /\ k \in 1 .. Len(list(r))
        BY <1>0, <3>1, RegionParts
      <4> QED
        BY <4>1, <4>2, BoundsAssumption
    <3>3. <<r, k>> \in entries
      BY <3>2
    <3> QED
      BY <3>1, <3>3, <2>1
  <2> QED
    BY <2>2, <2>3
<1>5. [m \in Mirror |-> IF m \in gone THEN NoWindow ELSE mm.mirrors[m]] =
      [m \in Mirror |-> IF ListedIn(mm, R, m) THEN NoWindow ELSE mm.mirrors[m]]
  <2> HIDE DEF gone
  <2> QED
    BY <1>4
<1>6. (\/ mm.fault
       \/ \E m \in gone : mm.mirrors[m] = NoWindow
       \/ \E e, f \in entries : e # f /\ list(e[1])[e[2]] = list(f[1])[f[2]]
                                 /\ list(e[1])[e[2]] \in gone) = mm.fault
  BY <1>0, <1>2, <1>3, MemoryParts
<1> QED
  <2> HIDE DEF gone, entries, list
  <2>1. DeleteMirrors(mm, R) =
          [mm EXCEPT !.mirrors = [m \in Mirror |-> IF m \in gone THEN NoWindow ELSE mm.mirrors[m]],
                     !.fault = \/ @
                               \/ \E m \in gone : mm.mirrors[m] = NoWindow
                               \/ \E e, f \in entries : e # f /\ list(e[1])[e[2]] = list(f[1])[f[2]]
                                                         /\ list(e[1])[e[2]] \in gone]
    BY DEF DeleteMirrors, gone, entries, list
  <2> QED
    BY <2>1, <1>0, <1>5, <1>6, MemoryParts

\* What Clear leaves of a region.
Emptied(region) == [data |-> Null, count |-> 0, index |-> 0,
                    list |-> [k \in DOMAIN region.list |-> Null], alive |-> region.alive]

LEMMA ClearIs ==
  ASSUME NEW mm, Sound(mm), NEW R \in SUBSET Region
  PROVE  Clear(mm, R) =
           [heap    |-> [b \in Block |-> IF \E r \in R : mm.region[r].data = b
                                         THEN Free ELSE mm.heap[b]],
            mirrors |-> [m \in Mirror |-> IF ListedIn(mm, R, m) THEN NoWindow ELSE mm.mirrors[m]],
            region  |-> [r \in Region |-> IF r \in R THEN Emptied(mm.region[r]) ELSE mm.region[r]],
            fault   |-> FALSE]
<1> DEFINE heap == [b \in Block |-> IF \E r \in R : mm.region[r].data = b THEN Free ELSE mm.heap[b]]
           mirrors == [m \in Mirror |-> IF ListedIn(mm, R, m) THEN NoWindow ELSE mm.mirrors[m]]
           v == DeleteBlocks(mm, R)
           e == DeleteMirrors(v, R)
           region == [r \in Region |->
                        IF r \in R THEN [mm.region[r] EXCEPT !.data = Null, !.count = 0, !.index = 0,
                                                             !.list = [k \in DOMAIN @ |-> Null]]
                        ELSE mm.region[r]]
<1>0. mm \in Memory /\ mm.fault = FALSE
  BY DEF Sound, Memory
<1>1. v = [heap |-> heap, mirrors |-> mm.mirrors, region |-> mm.region, fault |-> FALSE]
  BY <1>0, DeleteBlocksIs, MemoryParts
<1>2. heap \in [Block -> Nat \cup {Free}]
  BY <1>0, MemoryParts
<1>3. v \in Memory
  <2> HIDE DEF v, heap
  <2> QED
    BY <1>0, <1>1, <1>2, MemoryParts DEF Memory
<1>4. ListsOK(v)
  BY <1>1, <1>3, SoundLists DEF ListsOK
<1>5. e = [v EXCEPT !.mirrors = [m \in Mirror |-> IF ListedIn(v, R, m) THEN NoWindow
                                                ELSE v.mirrors[m]]]
  BY <1>4, DeleteMirrorsIs
<1>6. \A m \in Mirror : ListedIn(v, R, m) <=> ListedIn(mm, R, m)
  BY <1>1 DEF ListedIn
<1>7. [m \in Mirror |-> IF ListedIn(v, R, m) THEN NoWindow ELSE v.mirrors[m]] = mirrors
  <2> HIDE DEF v
  <2> QED
    BY <1>1, <1>6
<1>8. e = [heap |-> heap, mirrors |-> mirrors, region |-> mm.region, fault |-> FALSE]
  <2> HIDE DEF v, e, heap, mirrors
  <2> QED
    BY <1>1, <1>5, <1>7
<1>9. Clear(mm, R) = [e EXCEPT !.region = region]
  BY DEF Clear
<1>10. ASSUME NEW r \in R
       PROVE  region[r] = Emptied(mm.region[r])
  <2>1. mm.region[r] \in RegionRecord
    BY <1>0, RegionParts
  <2>2. region[r] = [mm.region[r] EXCEPT !.data = Null, !.count = 0, !.index = 0,
                                         !.list = [k \in DOMAIN @ |-> Null]]
    OBVIOUS
  <2> QED
    BY <2>1, <2>2 DEF RegionRecord, Emptied
<1>11. region = [r \in Region |-> IF r \in R THEN Emptied(mm.region[r]) ELSE mm.region[r]]
  BY <1>10
<1> HIDE DEF e, heap, mirrors, region
<1>12. Clear(mm, R) = [heap |-> heap, mirrors |-> mirrors, region |-> region, fault |-> FALSE]
  BY <1>8, <1>9
<1> QED
  BY <1>11, <1>12 DEF heap, mirrors

\* Memory after the regions R have given theirs back.
Released(mm, R, mn) ==
  /\ mn \in Memory /\ ~mn.fault
  /\ \A b \in Block : mn.heap[b] = IF \E r \in R : mm.region[r].data = b THEN Free ELSE mm.heap[b]
  /\ \A m \in Mirror : mn.mirrors[m] = IF ListedIn(mm, R, m) THEN NoWindow ELSE mm.mirrors[m]
  /\ \A r \in Region \ R : mn.region[r] = mm.region[r]
  /\ \A r \in R : /\ mn.region[r].data = Null /\ mn.region[r].count = 0 /\ mn.region[r].index = 0
                  /\ Len(mn.region[r].list) <= MaxList
                  /\ \A k \in DOMAIN mn.region[r].list : mn.region[r].list[k] = Null
                  /\ ~mn.region[r].alive => mn.region[r] = NoRegion

LEMMA ReleasedSound ==
  ASSUME NEW mm, NEW mn, NEW R \in SUBSET Region, Sound(mm), Released(mm, R, mn)
  PROVE  Sound(mn)
<1>0. mm \in Memory /\ mn \in Memory
  BY DEF Sound, Released
<1>1. ASSUME NEW r \in Region
      PROVE  RegionOK(mn, r)
  <2>1. CASE r \in R
    BY <2>1 DEF RegionOK, CountOK, ListOK, WindowOK, Released
  <2>2. CASE r \notin R
    <3>1. mn.region[r] = mm.region[r] /\ RegionOK(mm, r)
      BY <2>2 DEF Released, Sound
    <3>2. ASSUME mm.region[r].data # Null
          PROVE  mn.heap[mm.region[r].data] = mm.heap[mm.region[r].data]
      <4>1. mm.region[r].data \in Block
        BY <3>2, <1>0, RegionParts DEF Address
      <4>2. ~ \E q \in R : mm.region[q].data = mm.region[r].data
        BY <2>2, <3>2 DEF Sound, Apart
      <4> QED
        BY <4>1, <4>2 DEF Released
    <3>3. ASSUME NEW k \in DOMAIN mm.region[r].list, mm.region[r].list[k] # Null
          PROVE  mn.mirrors[mm.region[r].list[k]] = mm.mirrors[mm.region[r].list[k]]
      <4>1. mm.region[r].list[k] \in Mirror
        BY <3>3, <1>0, RegionParts
      <4>2. ~ ListedIn(mm, R, mm.region[r].list[k])
        BY <2>2, <3>3 DEF Sound, Apart, ListedIn
      <4> QED
        BY <4>1, <4>2 DEF Released
    <3> QED
      BY <3>1, <3>2, <3>3, UntouchedRegionOK
  <2> QED
    BY <2>1, <2>2
<1>2. ASSUME NEW r \in Region, NEW q \in Region
      PROVE  Apart(mn, r, q)
  <2>1. CASE r \in R
    BY <2>1 DEF Apart, Released
  <2>2. CASE q \in R /\ r \notin R
    BY <2>2 DEF Apart, Released
  <2>3. CASE q \notin R /\ r \notin R
    BY <2>3 DEF Apart, Released, Sound
  <2> QED
    BY <2>1, <2>2, <2>3
<1>3. ASSUME NEW b \in Block, mn.heap[b] # Free
      PROVE  Owned(mn, b)
  <2>1. mm.heap[b] # Free /\ ~ \E r \in R : mm.region[r].data = b
    BY <1>3 DEF Released
  <2>2. PICK r \in Region : mm.region[r].data = b
    BY <2>1 DEF Sound, Owned
  <2>3. mn.region[r] = mm.region[r]
    BY <2>1, <2>2 DEF Released
  <2> QED
    BY <2>2, <2>3 DEF Owned
<1>4. ASSUME NEW m \in Mirror, mn.mirrors[m] # NoWindow
      PROVE  ListedIn(mn, Region, m)
  <2>1. mm.mirrors[m] # NoWindow /\ ~ListedIn(mm, R, m)
    BY <1>4 DEF Released
  <2>2. PICK r \in Region : \E k \in DOMAIN mm.region[r].list : mm.region[r].list[k] = m
    BY <2>1 DEF Sound, ListedIn
  <2>3. mn.region[r] = mm.region[r]
    BY <2>1, <2>2 DEF Released, ListedIn
  <2> QED
    BY <2>2, <2>3 DEF ListedIn
<1> QED
  BY <1>1, <1>2, <1>3, <1>4 DEF Sound, Released

LEMMA NoRegionType == NoRegion \in RegionRecord /\ Empty \in RegionRecord /\ Empty.alive /\ ~NoRegion.alive
<1>1. <<>> \in Seq(Mirror \cup {Null}) /\ Null \in Address /\ Null \in Nat
  BY DEF Address, Null
<1>2. NoRegion \in RegionRecord /\ ~NoRegion.alive
  BY <1>1 DEF NoRegion, RegionRecord, Null
<1>3. Empty = [data |-> Null, count |-> 0, index |-> 0, list |-> <<>>, alive |-> TRUE]
  <2> DEFINE e == [NoRegion EXCEPT !.alive = TRUE]
  <2>1. e \in RegionRecord /\ e.alive
    BY <1>2 DEF RegionRecord
  <2>2. e.data = NoRegion.data /\ e.count = NoRegion.count /\ e.index = NoRegion.index /\ e.list = NoRegion.list
    BY <1>2 DEF RegionRecord
  <2>3. e = [data |-> e.data, count |-> e.count, index |-> e.index, list |-> e.list, alive |-> e.alive]
    <3> HIDE DEF e
    <3> QED
      BY <2>1 DEF RegionRecord
  <2> QED
    BY <2>1, <2>2, <2>3, <1>2 DEF Empty, NoRegion, RegionRecord
<1>4. Empty \in RegionRecord /\ Empty.alive
  BY <1>1, <1>3 DEF RegionRecord
<1> QED
  BY <1>2, <1>4

LEMMA EmptiedType ==
  ASSUME NEW region \in RegionRecord
  PROVE  /\ Emptied(region) \in RegionRecord
         /\ Len(Emptied(region).list) = Len(region.list)
         /\ DOMAIN Emptied(region).list = DOMAIN region.list
         /\ \A k \in DOMAIN region.list : Emptied(region).list[k] = Null
<1>1. region.list \in Seq(Mirror \cup {Null}) /\ region.alive \in BOOLEAN
  BY DEF RegionRecord
<1> DEFINE nulls == [k \in DOMAIN region.list |-> Null]
<1>2. Len(region.list) \in Nat /\ DOMAIN region.list = 1 .. Len(region.list)
  BY <1>1
<1>3. nulls \in Seq(Mirror \cup {Null}) /\ Len(nulls) = Len(region.list)
  BY <1>2
<1>4. Emptied(region).list = nulls
  BY DEF Emptied
<1>5. Emptied(region) \in RegionRecord
  <2> HIDE DEF nulls
  <2>1. Emptied(region) = [data |-> Null, count |-> 0, index |-> 0, list |-> nulls, alive |-> region.alive]
    BY DEF Emptied, nulls
  <2> QED
    BY <1>1, <1>3, <2>1 DEF RegionRecord, Address
<1> QED
  BY <1>3, <1>4, <1>5

LEMMA ClearReleases ==
  ASSUME NEW mm, Sound(mm), NEW R \in SUBSET Region
  PROVE  Released(mm, R, Clear(mm, R))
<1> DEFINE mn == Clear(mm, R)
           heap == [b \in Block |-> IF \E r \in R : mm.region[r].data = b THEN Free ELSE mm.heap[b]]
           mirrors == [m \in Mirror |-> IF ListedIn(mm, R, m) THEN NoWindow ELSE mm.mirrors[m]]
           region == [r \in Region |-> IF r \in R THEN Emptied(mm.region[r]) ELSE mm.region[r]]
<1>0. mm \in Memory
  BY DEF Sound
<1>1. mn = [heap |-> heap, mirrors |-> mirrors, region |-> region, fault |-> FALSE]
  BY ClearIs
<1>2. heap \in [Block -> Nat \cup {Free}] /\ mirrors \in [Mirror -> Window]
  BY <1>0, MemoryParts DEF NoWindow, Window, Address
<1>3. region \in [Region -> RegionRecord]
  BY <1>0, RegionParts, EmptiedType
<1>4. mn \in Memory /\ ~mn.fault
  <2> HIDE DEF mn, heap, mirrors, region
  <2> QED
    BY <1>1, <1>2, <1>3 DEF Memory
<1>5. ASSUME NEW r \in R
      PROVE  /\ mn.region[r] = Emptied(mm.region[r])
             /\ mn.region[r].data = Null /\ mn.region[r].count = 0 /\ mn.region[r].index = 0
             /\ Len(mn.region[r].list) <= MaxList
             /\ \A k \in DOMAIN mn.region[r].list : mn.region[r].list[k] = Null
             /\ ~mn.region[r].alive => mn.region[r] = NoRegion
  <2>1. mn.region[r] = Emptied(mm.region[r])
    BY <1>1
  <2> HIDE DEF mn
  <2>2. mm.region[r] \in RegionRecord /\ RegionOK(mm, r)
    BY <1>0, RegionParts DEF Sound
  <2>3. Len(mm.region[r].list) <= MaxList /\ (~mm.region[r].alive => mm.region[r] = NoRegion)
    BY <2>2 DEF RegionOK, CountOK, ListOK, WindowOK
  <2>4. Len(mn.region[r].list) <= MaxList /\ \A k \in DOMAIN mn.region[r].list : mn.region[r].list[k] = Null
    BY <2>1, <2>2, <2>3, EmptiedType
  <2>5. ASSUME ~mn.region[r].alive
        PROVE  mn.region[r] = NoRegion
    <3>1. mm.region[r] = NoRegion
      BY <2>1, <2>3, <2>5 DEF Emptied
    <3>2. [k \in DOMAIN NoRegion.list |-> Null] = <<>>
      BY DEF NoRegion
    <3> QED
      BY <2>1, <3>1, <3>2 DEF Emptied, NoRegion
  <2> QED
    BY <2>1, <2>4, <2>5 DEF Emptied
<1>6. \A r \in Region \ R : mn.region[r] = mm.region[r]
  BY <1>1
<1>7. /\ \A b \in Block : mn.heap[b] = IF \E r \in R : mm.region[r].data = b THEN Free ELSE mm.heap[b]
      /\ \A m \in Mirror : mn.mirrors[m] = IF ListedIn(mm, R, m) THEN NoWindow ELSE mm.mirrors[m]
  BY <1>1
<1> HIDE DEF mn
<1> QED
  BY <1>4, <1>5, <1>6, <1>7 DEF Released, mn

LEMMA DestroyReleases ==
  ASSUME NEW mm, Sound(mm), NEW R \in SUBSET Region
  PROVE  /\ Released(mm, R, Destroy(mm, R))
         /\ \A r \in R : Destroy(mm, R).region[r] = NoRegion
<1> DEFINE c == Clear(mm, R)
           region == [r \in Region |-> IF r \in R THEN NoRegion ELSE c.region[r]]
           mn == Destroy(mm, R)
<1>1. Released(mm, R, c)
  BY ClearReleases
<1>2. mn = [c EXCEPT !.region = region]
  BY DEF Destroy, Gone
<1> HIDE DEF c
<1>3. c \in Memory /\ ~c.fault
  BY <1>1 DEF Released
<1>4. region \in [Region -> RegionRecord]
  BY <1>3, RegionParts, NoRegionType
<1> HIDE DEF region, mn
<1>5. mn = [heap |-> c.heap, mirrors |-> c.mirrors, region |-> region, fault |-> c.fault]
  BY <1>2, <1>3, MemoryParts
<1>6. mn \in Memory /\ ~mn.fault
  BY <1>3, <1>4, <1>5, MemoryParts DEF Memory
<1>7. \A r \in R : mn.region[r] = NoRegion
  BY <1>5 DEF region
<1>8. \A r \in Region \ R : mn.region[r] = mm.region[r]
  BY <1>1, <1>5 DEF region, Released
<1>9. \A r \in R : /\ mn.region[r].data = Null /\ mn.region[r].count = 0 /\ mn.region[r].index = 0
                   /\ Len(mn.region[r].list) <= MaxList
                   /\ \A k \in DOMAIN mn.region[r].list : mn.region[r].list[k] = Null
  BY <1>7, BoundsAssumption DEF NoRegion
<1>10. Released(mm, R, mn)
  BY <1>1, <1>5, <1>6, <1>7, <1>8, <1>9 DEF Released
<1> QED
  BY <1>7, <1>10 DEF mn

\* Memory after the regions R were given new blocks of n[r] items.
Granted(mm, R, n, mn, at) ==
  /\ mn \in Memory /\ mn.fault = mm.fault /\ mn.mirrors = mm.mirrors
  /\ at \in [R -> Block] /\ \A r, q \in R : at[r] = at[q] => r = q
  /\ \A r \in R : mm.heap[at[r]] = Free /\ mn.heap[at[r]] = n[r]
  /\ \A b \in Block : (\A r \in R : at[r] # b) => mn.heap[b] = mm.heap[b]
  /\ \A r \in Region \ R : mn.region[r] = mm.region[r]
  /\ \A r \in R : /\ mn.region[r].data = at[r] /\ mn.region[r].count = n[r]
                  /\ mn.region[r].index = mm.region[r].index
                  /\ mn.region[r].list = mm.region[r].list
                  /\ mn.region[r].alive = mm.region[r].alive

LEMMA NewBlocksGrants ==
  ASSUME NEW mm \in Memory, NEW R \in SUBSET Region, NEW n \in [R -> Nat], Room(mm, R)
  PROVE  \E at : Granted(mm, R, n, NewBlocks(mm, R, n), at)
<1> DEFINE at == CHOOSE f \in Injection(R, FreeBlocks(mm)) : TRUE
           heap == [b \in Block |-> IF b \in Range(at) THEN n[CHOOSE r \in R : at[r] = b] ELSE mm.heap[b]]
           region == [r \in Region |-> IF r \in R THEN [mm.region[r] EXCEPT !.data = at[r], !.count = n[r]]
                                          ELSE mm.region[r]]
           mn == NewBlocks(mm, R, n)
<1>1. at \in Injection(R, FreeBlocks(mm))
  BY DEF Room
<1>2. mn = [mm EXCEPT !.heap = heap, !.region = region]
  BY DEF NewBlocks
<1> HIDE DEF at
<1>3. /\ at \in [R -> Block] /\ \A r, q \in R : at[r] = at[q] => r = q
      /\ \A r \in R : mm.heap[at[r]] = Free
      /\ DOMAIN at = R
  BY <1>1 DEF Injection, IsInjective, FreeBlocks
<1>4. \A b \in Block : b \in Range(at) <=> \E r \in R : at[r] = b
  BY <1>3 DEF Range
<1>5. ASSUME NEW r \in R
      PROVE  heap[at[r]] = n[r]
  <2>1. (CHOOSE q \in R : at[q] = at[r]) = r
    BY <1>3
  <2> QED
    BY <2>1, <1>3, <1>4
<1>6. \A b \in Block : (\A r \in R : at[r] # b) => heap[b] = mm.heap[b]
  BY <1>4
<1>7. heap \in [Block -> Nat \cup {Free}]
  <2> SUFFICES ASSUME NEW b \in Block
               PROVE  heap[b] \in Nat \cup {Free}
    OBVIOUS
  <2>1. CASE \E r \in R : at[r] = b
    BY <2>1, <1>5
  <2>2. CASE \A r \in R : at[r] # b
    BY <2>2, <1>6, MemoryParts
  <2> QED
    BY <2>1, <2>2
<1>8. region \in [Region -> RegionRecord]
  <2> SUFFICES ASSUME NEW r \in Region
               PROVE  region[r] \in RegionRecord
    OBVIOUS
  <2>1. mm.region[r] \in RegionRecord
    BY RegionParts
  <2> QED
    BY <2>1, <1>3 DEF RegionRecord, Address
<1>9. ASSUME NEW r \in R
      PROVE  /\ region[r].data = at[r] /\ region[r].count = n[r]
             /\ region[r].index = mm.region[r].index
             /\ region[r].list = mm.region[r].list
             /\ region[r].alive = mm.region[r].alive
  <2>1. mm.region[r] \in RegionRecord
    BY RegionParts
  <2>2. region[r] = [mm.region[r] EXCEPT !.data = at[r], !.count = n[r]]
    OBVIOUS
  <2> QED
    BY <2>1, <2>2 DEF RegionRecord
<1>10. \A r \in Region \ R : region[r] = mm.region[r]
  OBVIOUS
<1> HIDE DEF heap, region, mn
<1>11. mn = [heap |-> heap, mirrors |-> mm.mirrors, region |-> region, fault |-> mm.fault]
  <2>1. mm = [heap |-> mm.heap, mirrors |-> mm.mirrors, region |-> mm.region, fault |-> mm.fault]
    BY MemoryParts
  <2> QED
    BY <1>2, <2>1
<1>12. mn \in Memory
  BY <1>7, <1>8, <1>11, MemoryParts DEF Memory
<1>13. Granted(mm, R, n, mn, at)
  BY <1>3, <1>5, <1>6, <1>9, <1>10, <1>11, <1>12 DEF Granted
<1> QED
  BY <1>13 DEF mn

\* A block for regions that have none leaves memory sound.
Bare(mm, r) == /\ mm.region[r].data = Null /\ mm.region[r].alive
               /\ \A k \in DOMAIN mm.region[r].list : mm.region[r].list[k] = Null

LEMMA GrantedSound ==
  ASSUME NEW mm, NEW mn, NEW R \in SUBSET Region, NEW n \in [R -> Nat], NEW at,
         Sound(mm), Granted(mm, R, n, mn, at), \A r \in R : Bare(mm, r)
  PROVE  Sound(mn)
<1>0. mm \in Memory /\ mn \in Memory
  BY DEF Sound, Granted
<1>1. ASSUME NEW r \in R
      PROVE  /\ mn.region[r].data = at[r] /\ mn.region[r].count = n[r] /\ at[r] \in Block /\ at[r] # Null
             /\ mn.region[r].list = mm.region[r].list /\ mn.region[r].alive
             /\ \A k \in DOMAIN mn.region[r].list : mn.region[r].list[k] = Null
  <2>1. at[r] \in Block
    BY DEF Granted
  <2> QED
    BY <2>1 DEF Bare, Block, Null, Granted
<1>2. ASSUME NEW r \in Region \ R, mm.region[r].data # Null
      PROVE  /\ mm.region[r].data \in Block
             /\ \A q \in R : at[q] # mm.region[r].data
             /\ mn.heap[mm.region[r].data] = mm.heap[mm.region[r].data]
  <2>1. mm.region[r].data \in Block
    BY <1>0, <1>2, RegionParts DEF Address
  <2>2. mm.heap[mm.region[r].data] # Free
    BY <1>0, <1>2, RegionParts DEF Sound, RegionOK, CountOK, Free
  <2>3. \A q \in R : mm.heap[at[q]] = Free
    BY DEF Granted
  <2>4. \A q \in R : at[q] # mm.region[r].data
    BY <2>2, <2>3
  <2>5. \A b \in Block : (\A q \in R : at[q] # b) => mn.heap[b] = mm.heap[b]
    BY DEF Granted
  <2> QED
    BY <2>1, <2>4, <2>5
<1>3. ASSUME NEW r \in Region
      PROVE  RegionOK(mn, r)
  <2>1. RegionOK(mm, r)
    BY DEF Sound
  <2>2. CASE r \in R
    <3>1. mn.heap[mn.region[r].data] = mn.region[r].count
      BY <2>2, <1>1 DEF Granted
    <3>2. CountOK(mn, r)
      BY <2>2, <3>1, <1>1 DEF CountOK
    <3>3. Len(mn.region[r].list) <= MaxList
      BY <2>1, <2>2, <1>1 DEF RegionOK, ListOK
    <3>4. ListOK(mn, r)
      BY <2>2, <3>3, <1>1 DEF ListOK
    <3> QED
      BY <3>2, <3>4 DEF RegionOK
  <2>3. CASE r \notin R
    <3>1. mn.region[r] = mm.region[r] /\ mn.mirrors = mm.mirrors
      BY <2>3 DEF Granted
    <3> QED
      BY <2>1, <2>3, <3>1, <1>2, UntouchedRegionOK
  <2> QED
    BY <2>2, <2>3
<1>4. ASSUME NEW r \in Region, NEW q \in Region
      PROVE  Apart(mn, r, q)
  <2>1. CASE r \in R /\ q \in R
    BY <2>1, <1>1 DEF Apart, Granted
  <2>2. CASE r \in R /\ q \notin R
    BY <2>2, <1>1, <1>2 DEF Apart, Granted
  <2>3. CASE r \notin R /\ q \in R
    <3>1. mn.region[r] = mm.region[r]
      BY <2>3 DEF Granted
    <3>2. mn.region[r].data = mn.region[q].data => mn.region[r].data = Null
      BY <2>3, <3>1, <1>1, <1>2
    <3>3. \A l \in DOMAIN mn.region[q].list : mn.region[q].list[l] = Null
      BY <2>3, <1>1
    <3> QED
      BY <3>2, <3>3 DEF Apart
  <2>4. CASE r \notin R /\ q \notin R
    BY <2>4 DEF Apart, Granted, Sound
  <2> QED
    BY <2>1, <2>2, <2>3, <2>4
<1>5. ASSUME NEW b \in Block, mn.heap[b] # Free
      PROVE  Owned(mn, b)
  <2>1. CASE \E r \in R : at[r] = b
    BY <2>1, <1>1 DEF Owned
  <2>2. CASE \A r \in R : at[r] # b
    <3>1. mm.heap[b] # Free
      BY <1>5, <2>2 DEF Granted
    <3>2. PICK r \in Region : mm.region[r].data = b
      BY <3>1 DEF Sound, Owned
    <3>3. r \notin R
      BY <3>2 DEF Bare, Block, Null
    <3> QED
      BY <3>2, <3>3 DEF Granted, Owned
  <2> QED
    BY <2>1, <2>2
<1>6. ASSUME NEW m \in Mirror, mn.mirrors[m] # NoWindow
      PROVE  ListedIn(mn, Region, m)
  <2>1. PICK r \in Region : \E k \in DOMAIN mm.region[r].list : mm.region[r].list[k] = m
    BY <1>6 DEF Sound, Granted, ListedIn
  <2>2. mn.region[r].list = mm.region[r].list
    BY <1>1 DEF Granted
  <2> QED
    BY <2>1, <2>2 DEF ListedIn
<1> QED
  BY <1>0, <1>3, <1>4, <1>5, <1>6 DEF Sound, Granted

\* A region that begins, with nothing yet.
LEMMA BeginSound ==
  ASSUME NEW mm, Sound(mm), NEW R \in SUBSET Region, \A r \in R : ~mm.region[r].alive
  PROVE  LET mn == Begin(mm, R) IN
         /\ Sound(mn) /\ mn.heap = mm.heap /\ mn.mirrors = mm.mirrors
         /\ \A r \in R : mn.region[r] = Empty
         /\ \A r \in Region \ R : mn.region[r] = mm.region[r]
<1> DEFINE mn == Begin(mm, R)
           region == [r \in Region |-> IF r \in R THEN Empty ELSE mm.region[r]]
<1>0. mm \in Memory /\ ~mm.fault
  BY DEF Sound
<1>1. region \in [Region -> RegionRecord]
  BY <1>0, RegionParts, NoRegionType
<1>2. /\ \A r \in R : region[r] = Empty
      /\ \A r \in Region \ R : region[r] = mm.region[r]
  OBVIOUS
<1>3. mn = [mm EXCEPT !.region = region]
  BY DEF Begin
<1> HIDE DEF region, mn
<1>4. mn = [heap |-> mm.heap, mirrors |-> mm.mirrors, region |-> region, fault |-> mm.fault]
  <2>1. mm = [heap |-> mm.heap, mirrors |-> mm.mirrors, region |-> mm.region, fault |-> mm.fault]
    BY <1>0, MemoryParts
  <2> QED
    BY <1>3, <2>1
<1>5. mn \in Memory /\ ~mn.fault
  BY <1>0, <1>1, <1>4, MemoryParts DEF Memory
<1>6. /\ mn.heap = mm.heap /\ mn.mirrors = mm.mirrors
      /\ \A r \in R : mn.region[r] = Empty
      /\ \A r \in Region \ R : mn.region[r] = mm.region[r]
  BY <1>2, <1>4
<1>7. Empty.data = Null /\ Empty.count = 0 /\ Empty.list = <<>> /\ Empty.alive
  BY NoRegionType DEF Empty, NoRegion, RegionRecord
<1>8. \A r \in R : mm.region[r] = NoRegion
  BY DEF Sound, RegionOK, CountOK
<1>9. NoRegion.data = Null /\ NoRegion.list = <<>>
  BY DEF NoRegion
<1>10. \A r \in Region : mn.region[r].data = mm.region[r].data /\ mn.region[r].list = mm.region[r].list
  BY <1>6, <1>7, <1>8, <1>9
<1>11. ASSUME NEW r \in Region
       PROVE  RegionOK(mn, r)
  <2>1. CASE r \in R
    <3>1. Len(<<>>) <= MaxList /\ DOMAIN <<>> = {}
      BY BoundsAssumption
    <3> QED
      BY <2>1, <3>1, <1>6, <1>7 DEF RegionOK, CountOK, ListOK, WindowOK
  <2>2. CASE r \notin R
    <3>1. RegionOK(mm, r) /\ mn.region[r] = mm.region[r]
      BY <2>2, <1>6 DEF Sound
    <3> QED
      BY <3>1, <1>6, UntouchedRegionOK
  <2> QED
    BY <2>1, <2>2
<1>12. \A r, q \in Region : Apart(mn, r, q)
  BY <1>10 DEF Sound, Apart
<1>13. \A b \in Block : mn.heap[b] # Free => Owned(mn, b)
  BY <1>6, <1>10 DEF Sound, Owned
<1>14. \A m \in Mirror : mn.mirrors[m] # NoWindow => ListedIn(mn, Region, m)
  BY <1>6, <1>10 DEF Sound, ListedIn
<1>15. Sound(mn)
  BY <1>5, <1>11, <1>12, <1>13, <1>14 DEF Sound
<1> QED
  BY <1>6, <1>15 DEF mn

\* The new regions R of n[r] items, and nothing else.
Constructed(mm, R, n, mn) ==
  /\ Sound(mn)
  /\ \A r \in Region \ R : mn.region[r] = mm.region[r]
  /\ \A r \in R : /\ mn.region[r].alive /\ mn.region[r].index = 0 /\ mn.region[r].count = n[r]
                  /\ mn.region[r].list = <<>> /\ mn.region[r].data # Null
  /\ \A b \in Block : mn.heap[b] # mm.heap[b] => mm.heap[b] = Free /\ \E r \in R : mn.region[r].data = b

LEMMA Constructs ==
  ASSUME NEW mm, Sound(mm), NEW R \in SUBSET Region, NEW n \in [R -> Nat],
         \A r \in R : ~mm.region[r].alive, Room(mm, R)
  PROVE  Constructed(mm, R, n, Construct(mm, R, n))
<1> DEFINE bm == Begin(mm, R)
           mn == NewBlocks(bm, R, n)
<1>1. /\ Sound(bm) /\ bm.heap = mm.heap /\ bm.mirrors = mm.mirrors
      /\ \A r \in R : bm.region[r] = Empty
      /\ \A r \in Region \ R : bm.region[r] = mm.region[r]
  BY BeginSound
<1> HIDE DEF bm
<1>2. Room(bm, R) /\ bm \in Memory
  BY <1>1 DEF Room, FreeBlocks, Sound
<1>3. PICK at : Granted(bm, R, n, mn, at)
  BY <1>2, NewBlocksGrants
<1> HIDE DEF mn
<1>4. Empty.data = Null /\ Empty.index = 0 /\ Empty.list = <<>> /\ Empty.alive
  BY NoRegionType DEF Empty, NoRegion, RegionRecord
<1>5. \A r \in R : Bare(bm, r)
  BY <1>1, <1>4 DEF Bare
<1>6. Sound(mn)
  BY <1>1, <1>3, <1>5, GrantedSound
<1>7. \A r \in Region \ R : mn.region[r] = mm.region[r]
  BY <1>1, <1>3 DEF Granted
<1>8. \A r \in R : /\ mn.region[r].alive /\ mn.region[r].index = 0 /\ mn.region[r].count = n[r]
                   /\ mn.region[r].list = <<>> /\ mn.region[r].data = at[r] /\ at[r] \in Block
  BY <1>1, <1>3, <1>4 DEF Granted
<1>9. \A b \in Block : b # Null
  BY DEF Block, Null
<1>10. \A b \in Block : mn.heap[b] # mm.heap[b] => mm.heap[b] = Free /\ \E r \in R : mn.region[r].data = b
  <2> SUFFICES ASSUME NEW b \in Block, mn.heap[b] # mm.heap[b]
               PROVE  mm.heap[b] = Free /\ \E r \in R : mn.region[r].data = b
    OBVIOUS
  <2>1. PICK r \in R : at[r] = b
    BY <1>1, <1>3 DEF Granted
  <2>2. bm.heap[at[r]] = Free
    BY <1>3 DEF Granted
  <2> QED
    BY <2>1, <2>2, <1>1, <1>8
<1>11. Constructed(mm, R, n, mn)
  BY <1>6, <1>7, <1>8, <1>9, <1>10 DEF Constructed
<1> QED
  BY <1>11 DEF mn, bm, Construct

\* The regions R give their windows back and keep their blocks.
LEMMA Resets ==
  ASSUME NEW mm, Sound(mm), NEW R \in SUBSET Region
  PROVE  LET mn == ResetMirroredRegionIter(mm, R) IN
         /\ Sound(mn)
         /\ \A r \in Region \ R : mn.region[r] = mm.region[r]
         /\ \A r \in R : mn.region[r].alive = mm.region[r].alive /\ mn.region[r].index = 0
<1> DEFINE mn == ResetMirroredRegionIter(mm, R)
           mirrors == [m \in Mirror |-> IF ListedIn(mm, R, m) THEN NoWindow ELSE mm.mirrors[m]]
           region == [r \in Region |-> IF r \in R THEN [mm.region[r] EXCEPT !.index = 0, !.list = <<>>]
                                       ELSE mm.region[r]]
           v == DeleteMirrors(mm, R)
<1>0. mm \in Memory /\ ~mm.fault
  BY DEF Sound
<1>1. v = [mm EXCEPT !.mirrors = mirrors]
  BY SoundLists, DeleteMirrorsIs
<1>2. mn = [v EXCEPT !.region = region]
  BY DEF ResetMirroredRegionIter
<1>3. mirrors \in [Mirror -> Window]
  BY <1>0, MemoryParts DEF NoWindow, Window, Address
<1>4. ASSUME NEW r \in R
      PROVE  /\ region[r] \in RegionRecord
             /\ region[r].data = mm.region[r].data /\ region[r].count = mm.region[r].count
             /\ region[r].alive = mm.region[r].alive /\ region[r].index = 0 /\ region[r].list = <<>>
  <2>1. mm.region[r] \in RegionRecord
    BY <1>0, RegionParts
  <2>2. region[r] = [mm.region[r] EXCEPT !.index = 0, !.list = <<>>]
    OBVIOUS
  <2>3. <<>> \in Seq(Mirror \cup {Null})
    OBVIOUS
  <2> QED
    BY <2>1, <2>2, <2>3 DEF RegionRecord
<1>5. region \in [Region -> RegionRecord]
  <2>1. \A r \in Region \ R : region[r] = mm.region[r]
    OBVIOUS
  <2>2. \A r \in Region : region[r] \in RegionRecord
    <3> HIDE DEF region
    <3> QED
      BY <1>0, <1>4, <2>1, RegionParts
  <2> QED
    BY <2>2
<1>6. \A r \in Region \ R : region[r] = mm.region[r]
  OBVIOUS
<1>7. \A m \in Mirror : mirrors[m] = IF ListedIn(mm, R, m) THEN NoWindow ELSE mm.mirrors[m]
  OBVIOUS
<1> HIDE DEF region, mirrors, v, mn
<1>8. mn = [heap |-> mm.heap, mirrors |-> mirrors, region |-> region, fault |-> mm.fault]
  <2>1. mm = [heap |-> mm.heap, mirrors |-> mm.mirrors, region |-> mm.region, fault |-> mm.fault]
    BY <1>0, MemoryParts
  <2>2. v = [heap |-> mm.heap, mirrors |-> mirrors, region |-> mm.region, fault |-> mm.fault]
    BY <1>1, <2>1
  <2> QED
    BY <1>2, <2>2
<1>9. mn \in Memory /\ ~mn.fault
  BY <1>0, <1>3, <1>5, <1>8, MemoryParts DEF Memory
<1>10. ASSUME NEW r \in Region
       PROVE  RegionOK(mn, r)
  <2>0. RegionOK(mm, r)
    BY DEF Sound
  <2>1. CASE r \in R
    <3>1. mm.region[r].alive \/ mm.region[r] = NoRegion
      BY <2>0 DEF RegionOK, CountOK
    <3>2. ASSUME ~mn.region[r].alive
          PROVE  mn.region[r] = NoRegion
      <4>1. mm.region[r] = NoRegion
        BY <3>1, <3>2, <2>1, <1>4, <1>8
      <4>2. region[r] = [NoRegion EXCEPT !.index = 0, !.list = <<>>]
        BY <2>1, <4>1 DEF region
      <4> QED
        BY <4>2, <1>8 DEF NoRegion
    <3>3. Len(<<>>) <= MaxList /\ DOMAIN <<>> = {}
      BY BoundsAssumption
    <3> QED
      BY <2>0, <2>1, <3>2, <3>3, <1>4, <1>8 DEF RegionOK, CountOK, ListOK, WindowOK
  <2>2. CASE r \notin R
    <3>1. mn.region[r] = mm.region[r] /\ mn.heap = mm.heap
      BY <2>2, <1>6, <1>8
    <3>2. ASSUME NEW k \in DOMAIN mm.region[r].list, mm.region[r].list[k] # Null
          PROVE  mn.mirrors[mm.region[r].list[k]] = mm.mirrors[mm.region[r].list[k]]
      <4>1. mm.region[r].list[k] \in Mirror
        BY <3>2, <1>0, RegionParts
      <4>2. ~ ListedIn(mm, R, mm.region[r].list[k])
        BY <2>2, <3>2 DEF Sound, Apart, ListedIn
      <4> QED
        BY <4>1, <4>2, <1>7, <1>8
    <3> QED
      BY <2>0, <3>1, <3>2, UntouchedRegionOK
  <2> QED
    BY <2>1, <2>2
<1>11. ASSUME NEW r \in Region, NEW q \in Region
       PROVE  Apart(mn, r, q)
  <2>0. Apart(mm, r, q)
    BY DEF Sound
  <2>1. mn.region[r].data = mm.region[r].data /\ mn.region[q].data = mm.region[q].data
    BY <1>4, <1>6, <1>8
  <2>2. DOMAIN <<>> = {}
    OBVIOUS
  <2>3. CASE r \in R \/ q \in R
    BY <2>0, <2>1, <2>2, <2>3, <1>4, <1>8 DEF Apart
  <2>4. CASE r \notin R /\ q \notin R
    BY <2>0, <2>4, <1>6, <1>8 DEF Apart
  <2> QED
    BY <2>3, <2>4
<1>12. \A b \in Block : mn.heap[b] # Free => Owned(mn, b)
  BY <1>4, <1>6, <1>8 DEF Sound, Owned
<1>13. ASSUME NEW m \in Mirror, mn.mirrors[m] # NoWindow
       PROVE  ListedIn(mn, Region, m)
  <2>1. mm.mirrors[m] # NoWindow /\ ~ListedIn(mm, R, m)
    BY <1>13, <1>7, <1>8
  <2>2. PICK r \in Region : \E k \in DOMAIN mm.region[r].list : mm.region[r].list[k] = m
    BY <2>1 DEF Sound, ListedIn
  <2>3. mn.region[r] = mm.region[r]
    BY <2>1, <2>2, <1>6, <1>8 DEF ListedIn
  <2> QED
    BY <2>2, <2>3 DEF ListedIn
<1>14. Sound(mn)
  BY <1>9, <1>10, <1>11, <1>12, <1>13 DEF Sound
<1> QED
  BY <1>4, <1>6, <1>8, <1>14 DEF mn

\* What a region holds is as it should be wherever it is held.
LEMMA SameRegionOK ==
  ASSUME NEW mm, NEW mn, NEW r \in Region, NEW q \in Region, RegionOK(mm, q),
         mn.heap = mm.heap, mn.mirrors = mm.mirrors,
         mn.region[r].data = mm.region[q].data, mn.region[r].count = mm.region[q].count,
         mn.region[r].list = mm.region[q].list, mn.region[r].alive \/ mn.region[r] = NoRegion
  PROVE  RegionOK(mn, r)
<1>1. ASSUME NEW k \in DOMAIN mm.region[q].list, mm.region[q].list[k] # Null
      PROVE  LET w == mn.mirrors[mm.region[q].list[k]] IN
             w.data = mm.region[q].data /\ w.data # Null /\ w.index + w.count <= mm.region[q].count
  BY <1>1 DEF RegionOK, ListOK, WindowOK
<1>2. /\ IF mm.region[q].data = Null THEN mm.region[q].count = 0
         ELSE mm.heap[mm.region[q].data] = mm.region[q].count
      /\ Len(mm.region[q].list) <= MaxList
  BY DEF RegionOK, CountOK, ListOK
<1> QED
  BY <1>1, <1>2 DEF RegionOK, CountOK, ListOK, WindowOK

\* The block and the windows of one region become another's.
LEMMA Moves ==
  ASSUME NEW mm, Sound(mm), NEW r \in Region, NEW from \in Region, r # from,
         mm.region[r].alive, mm.region[from].alive
  PROVE  LET mn == MoveAssign(mm, r, from) IN
         /\ Sound(mn)
         /\ \A q \in Region \ {r, from} : mn.region[q] = mm.region[q]
         /\ mn.region[r].alive /\ mn.region[r].index = 0
         /\ mn.region[from].alive /\ mn.region[from].index = mm.region[from].index
         /\ mn.region[from].data = Null
<1> DEFINE c == Clear(mm, {r})
           mn == MoveAssign(mm, r, from)
           source == mm.region[from]
<1>0. Released(mm, {r}, c) /\ mm \in Memory
  BY ClearReleases DEF Sound
<1>1. Sound(c) /\ c \in Memory
  <2>0. {r} \in SUBSET Region
    OBVIOUS
  <2> HIDE DEF c
  <2>1. Sound(c)
    BY <1>0, <2>0, ReleasedSound
  <2> QED
    BY <1>0, <2>1 DEF Released
<1>2. c.region[r].data = Null /\ c.region[r].index = 0 /\ c.region[r].alive
      /\ (\A k \in DOMAIN c.region[r].list : c.region[r].list[k] = Null)
  <2>1. c.region[r] = Emptied(mm.region[r])
    BY ClearIs
  <2> HIDE DEF c
  <2>2. c.region[r].alive = mm.region[r].alive
    BY <2>1 DEF Emptied
  <2> QED
    BY <1>0, <2>2 DEF Released
<1>3. \A q \in Region \ {r} : c.region[q] = mm.region[q]
  BY <1>0 DEF Released
<1> DEFINE region == [c.region EXCEPT
                        ![r] = [c.region[r] EXCEPT !.data = source.data, !.count = source.count,
                                                   !.list = source.list],
                        ![from] = [source EXCEPT !.data = Null, !.count = 0, !.list = <<>>]]
<1>4. mn = [c EXCEPT !.region = region]
  BY DEF MoveAssign
<1> HIDE DEF c, mn
<1> DEFINE target == [c.region[r] EXCEPT !.data = source.data, !.count = source.count,
                                          !.list = source.list]
           left == [source EXCEPT !.data = Null, !.count = 0, !.list = <<>>]
<1>5. source \in RegionRecord /\ c.region[r] \in RegionRecord /\ source = c.region[from] /\ source.alive
  BY <1>0, <1>1, <1>3, RegionParts
<1>6. /\ target = [data |-> source.data, count |-> source.count, index |-> c.region[r].index,
                    list |-> source.list, alive |-> c.region[r].alive]
      /\ left = [data |-> Null, count |-> 0, index |-> source.index, list |-> <<>>,
                  alive |-> source.alive]
      /\ region = [c.region EXCEPT ![r] = target, ![from] = left]
  <2>1. region = [c.region EXCEPT ![r] = target, ![from] = left]
    OBVIOUS
  <2>2. target = [c.region[r] EXCEPT !.data = source.data, !.count = source.count,
                                     !.list = source.list]
    OBVIOUS
  <2>3. left = [source EXCEPT !.data = Null, !.count = 0, !.list = <<>>]
    OBVIOUS
  <2> HIDE DEF source, region, target, left
  <2>4. target = [data |-> source.data, count |-> source.count, index |-> c.region[r].index,
                  list |-> source.list, alive |-> c.region[r].alive]
    BY <1>5, <2>2 DEF RegionRecord
  <2>5. left = [data |-> Null, count |-> 0, index |-> source.index, list |-> <<>>,
                alive |-> source.alive]
    BY <1>5, <2>3 DEF RegionRecord
  <2> QED
    BY <2>1, <2>4, <2>5
<1>7. target \in RegionRecord /\ left \in RegionRecord
  <2>1. <<>> \in Seq(Mirror \cup {Null}) /\ Null \in Address /\ Null \in Nat
    BY DEF Address, Null
  <2>2. c.region[r].index \in Nat /\ c.region[r].alive \in BOOLEAN
    BY <1>1, RegionParts
  <2>3. /\ source.data \in Address /\ source.count \in Nat /\ source.index \in Nat
        /\ source.list \in Seq(Mirror \cup {Null}) /\ source.alive \in BOOLEAN
    BY <1>0, RegionParts
  <2> HIDE DEF source, target, left, region
  <2> QED
    BY <1>6, <2>1, <2>2, <2>3 DEF RegionRecord
<1>8. /\ region \in [Region -> RegionRecord]
      /\ region[r] = target /\ region[from] = left
      /\ \A q \in Region \ {r, from} : region[q] = mm.region[q]
  <2>1. c.region \in [Region -> RegionRecord]
    BY <1>1, MemoryParts
  <2> HIDE DEF target, left, region
  <2> QED
    BY <1>3, <1>6, <1>7, <2>1
<1> HIDE DEF region
<1>9. mn = [heap |-> c.heap, mirrors |-> c.mirrors, region |-> region, fault |-> c.fault]
  <2>1. c = [heap |-> c.heap, mirrors |-> c.mirrors, region |-> c.region, fault |-> c.fault]
    BY <1>1, MemoryParts
  <2> QED
    BY <1>4, <2>1
<1>10. mn \in Memory /\ ~mn.fault
  BY <1>0, <1>1, <1>8, <1>9, MemoryParts DEF Memory, Released
<1>11. DOMAIN <<>> = {} /\ Len(<<>>) <= MaxList
  BY BoundsAssumption
<1>12. /\ mn.region[r].data = source.data /\ mn.region[r].count = source.count
       /\ mn.region[r].list = source.list /\ mn.region[r].alive /\ mn.region[r].index = 0
       /\ mn.region[from].data = Null /\ mn.region[from].count = 0
       /\ mn.region[from].list = <<>> /\ mn.region[from].alive
       /\ mn.region[from].index = source.index
       /\ mn.heap = c.heap /\ mn.mirrors = c.mirrors
  <2> HIDE DEF target, left, source
  <2> QED
    BY <1>2, <1>5, <1>6, <1>8, <1>9
<1>13. \A q \in Region \ {r, from} : mn.region[q] = c.region[q] /\ c.region[q] = mm.region[q]
  BY <1>3, <1>8, <1>9
<1> HIDE DEF target, left, source
<1>14. ASSUME NEW q \in Region
       PROVE  RegionOK(mn, q)
  <2>0. RegionOK(c, q) /\ RegionOK(c, from)
    BY <1>1 DEF Sound
  <2>1. CASE q = r
    BY <2>0, <2>1, <1>5, <1>12, SameRegionOK
  <2>2. CASE q = from
    BY <2>2, <1>11, <1>12 DEF RegionOK, CountOK, ListOK, WindowOK
  <2>3. CASE q \notin {r, from}
    <3>1. c.region[q].alive \/ c.region[q] = NoRegion
      BY <2>0 DEF RegionOK, CountOK, ListOK, WindowOK
    <3>2. mn.region[q] = c.region[q]
      BY <2>3, <1>13
    <3> QED
      BY <2>0, <3>1, <3>2, <1>12, SameRegionOK
  <2> QED
    BY <2>1, <2>2, <2>3
<1>15. ASSUME NEW q1 \in Region, NEW q2 \in Region
       PROVE  Apart(mn, q1, q2)
  <2> DEFINE old(q) == IF q = r THEN from ELSE q
  <2>1. \A q \in Region \ {from} : /\ mn.region[q].data = c.region[old(q)].data
                                  /\ mn.region[q].list = c.region[old(q)].list
    BY <1>5, <1>12, <1>13
  <2>2. CASE q1 = from \/ q2 = from
    BY <2>2, <1>11, <1>12 DEF Apart
  <2>3. CASE q1 # from /\ q2 # from
    <3>1. old(q1) \in Region /\ old(q2) \in Region /\ (q1 = q2 <=> old(q1) = old(q2))
      BY <2>3
    <3>2. Apart(c, old(q1), old(q2))
      BY <3>1, <1>1 DEF Sound
    <3> HIDE DEF old
    <3> QED
      BY <2>1, <2>3, <3>1, <3>2 DEF Apart
  <2> QED
    BY <2>2, <2>3
<1>16. ASSUME NEW b \in Block, mn.heap[b] # Free
       PROVE  Owned(mn, b)
  <2>1. PICK q \in Region : c.region[q].data = b
    BY <1>1, <1>12, <1>16 DEF Sound, Owned
  <2>2. q # r
    BY <2>1, <1>2 DEF Block, Null
  <2> QED
    BY <2>1, <2>2, <1>5, <1>12, <1>13 DEF Owned
<1>17. ASSUME NEW m \in Mirror, mn.mirrors[m] # NoWindow
       PROVE  ListedIn(mn, Region, m)
  <2>1. PICK q \in Region : \E k \in DOMAIN c.region[q].list : c.region[q].list[k] = m
    BY <1>1, <1>12, <1>17 DEF Sound, ListedIn
  <2>2. q # r
    BY <2>1, <1>2 DEF Mirror, Null
  <2>3. CASE q = from
    BY <2>1, <2>3, <1>5, <1>12 DEF ListedIn
  <2>4. CASE q # from
    BY <2>1, <2>2, <2>4, <1>13 DEF ListedIn
  <2> QED
    BY <2>3, <2>4
<1>18. Sound(mn)
  BY <1>10, <1>14, <1>15, <1>16, <1>17 DEF Sound
<1> QED
  BY <1>12, <1>13, <1>18 DEF mn, source

\* A window is handed out of the items left, at the index.
LEMMA HandsOut ==
  ASSUME NEW mm, Sound(mm), NEW r \in Region, NEW n \in Nat, n > 0,
         mm.region[r].index + n <= mm.region[r].count,
         FreeMirrors(mm) # {}, Len(mm.region[r].list) < MaxList
  PROVE  LET mn == MirrorRegion(mm, r, n) IN
         /\ Sound(mn)
         /\ \A q \in Region \ {r} : mn.region[q] = mm.region[q]
         /\ mn.region[r].data = mm.region[r].data /\ mn.region[r].count = mm.region[r].count
         /\ mn.region[r].index = mm.region[r].index + n
         /\ mn.region[r].alive = mm.region[r].alive
<1> DEFINE mn == MirrorRegion(mm, r, n)
           m == CHOOSE free \in FreeMirrors(mm) : TRUE
           g == mm.region[r]
           win == [data |-> mm.region[r].data, index |-> mm.region[r].index, count |-> n]
<1>0. mm \in Memory /\ ~mm.fault /\ RegionOK(mm, r)
  BY DEF Sound
<1>1. m \in Mirror /\ mm.mirrors[m] = NoWindow
  BY DEF FreeMirrors
<1>2. m # Null
  <2> HIDE DEF m
  <2> QED
    BY <1>1, BoundsAssumption DEF Mirror, Null
<1>3. /\ g \in RegionRecord /\ g.data \in Address /\ g.count \in Nat /\ g.index \in Nat
      /\ g.list \in Seq(Mirror \cup {Null}) /\ g.alive \in BOOLEAN
      /\ Len(g.list) \in Nat /\ DOMAIN g.list = 1 .. Len(g.list)
  BY <1>0, RegionParts
<1>4. g.data # Null
  BY <1>0, <1>3 DEF RegionOK, CountOK
<1>5. g.alive
  BY <1>0, <1>4 DEF RegionOK, CountOK, NoRegion
<1> DEFINE new == [g EXCEPT !.list = Append(g.list, m), !.index = g.index + n]
           mirrors == [mm.mirrors EXCEPT ![m] = win]
           region == [mm.region EXCEPT ![r] = new]
<1>6. mn = [mm EXCEPT !.mirrors = mirrors, !.region = region]
  BY DEF MirrorRegion
<1>7. win \in Window /\ win # NoWindow
  BY <1>3, <1>4 DEF Window, NoWindow
<1>8. new = [data |-> g.data, count |-> g.count, index |-> g.index + n,
             list |-> Append(g.list, m), alive |-> g.alive]
  <2>1. new = [g EXCEPT !.list = Append(g.list, m), !.index = g.index + n]
    OBVIOUS
  <2> HIDE DEF g, m, new
  <2> QED
    BY <1>3, <2>1 DEF RegionRecord
<1>9. new \in RegionRecord
  <2>1. Append(g.list, m) \in Seq(Mirror \cup {Null})
    BY <1>1, <1>3, AppendProperties
  <2>2. g.index + n \in Nat
    BY <1>3
  <2> HIDE DEF g, m, new
  <2> QED
    BY <1>3, <1>8, <2>1, <2>2 DEF RegionRecord
<1> HIDE DEF m, win, mn, new
<1>10. /\ mirrors \in [Mirror -> Window] /\ mirrors[m] = win
       /\ \A w \in Mirror \ {m} : mirrors[w] = mm.mirrors[w]
  BY <1>0, <1>1, <1>7, MemoryParts
<1>11. /\ region \in [Region -> RegionRecord] /\ region[r] = new
       /\ \A q \in Region \ {r} : region[q] = mm.region[q]
  BY <1>0, <1>9, MemoryParts
<1> HIDE DEF mirrors, region
<1>12. mn = [heap |-> mm.heap, mirrors |-> mirrors, region |-> region, fault |-> mm.fault]
  <2>1. mm = [heap |-> mm.heap, mirrors |-> mm.mirrors, region |-> mm.region, fault |-> mm.fault]
    BY <1>0, MemoryParts
  <2> QED
    BY <1>6, <2>1
<1>13. mn \in Memory /\ ~mn.fault
  BY <1>0, <1>10, <1>11, <1>12, MemoryParts DEF Memory
<1>14. /\ mn.heap = mm.heap /\ mn.mirrors[m] = win
       /\ \A w \in Mirror \ {m} : mn.mirrors[w] = mm.mirrors[w]
       /\ \A q \in Region \ {r} : mn.region[q] = mm.region[q]
       /\ mn.region[r].data = g.data /\ mn.region[r].count = g.count
       /\ mn.region[r].index = g.index + n /\ mn.region[r].alive = g.alive
       /\ mn.region[r].list = Append(g.list, m)
  <2> HIDE DEF g
  <2> QED
    BY <1>8, <1>10, <1>11, <1>12
<1>15. /\ DOMAIN mn.region[r].list = 1 .. Len(g.list) + 1
       /\ Len(mn.region[r].list) = Len(g.list) + 1
       /\ mn.region[r].list[Len(g.list) + 1] = m
       /\ \A k \in DOMAIN g.list : mn.region[r].list[k] = g.list[k]
  <2>1. mn.region[r].list = Append(g.list, m) /\ m \in Mirror \cup {Null}
    BY <1>1, <1>14
  <2> HIDE DEF g
  <2> QED
    BY <1>3, <2>1, AppendProperties
<1>16. \A q \in Region : \A k \in DOMAIN mm.region[q].list : mm.region[q].list[k] # m
  <2> SUFFICES ASSUME NEW q \in Region, NEW k \in DOMAIN mm.region[q].list, mm.region[q].list[k] = m
               PROVE  FALSE
    OBVIOUS
  <2>1. RegionOK(mm, q)
    BY DEF Sound
  <2>2. mm.mirrors[m].data # Null
    BY <1>2, <2>1 DEF RegionOK, CountOK, ListOK, WindowOK
  <2> QED
    BY <1>1, <2>2 DEF NoWindow
\* What is in a list now was there before, or is the new window at its end.
<1>17. ASSUME NEW q \in Region, NEW k \in DOMAIN mn.region[q].list
       PROVE  \/ k \in DOMAIN mm.region[q].list /\ mn.region[q].list[k] = mm.region[q].list[k]
              \/ q = r /\ k = Len(g.list) + 1 /\ mn.region[q].list[k] = m
  <2>1. CASE q # r
    BY <2>1, <1>14, <1>17
  <2>2. CASE q = r
    <3>1. k \in 1 .. Len(g.list) + 1
      BY <2>2, <1>15, <1>17
    <3>2. k \in 1 .. Len(g.list) \/ k = Len(g.list) + 1
      BY <1>3, <3>1
    <3> QED
      BY <2>2, <3>2, <1>3, <1>15
  <2> QED
    BY <2>1, <2>2
<1>18. ASSUME NEW q \in Region
       PROVE  RegionOK(mn, q)
  <2>0. RegionOK(mm, q)
    BY DEF Sound
  <2>1. /\ mn.region[q].data = mm.region[q].data /\ mn.region[q].count = mm.region[q].count
        /\ mn.region[q].alive = mm.region[q].alive
    BY <1>14
  <2>2. ASSUME NEW k \in DOMAIN mn.region[q].list, mn.region[q].list[k] # Null
        PROVE  LET w == mn.mirrors[mn.region[q].list[k]] IN
               w.data = mn.region[q].data /\ w.data # Null /\ w.index + w.count <= mn.region[q].count
    <3>1. CASE k \in DOMAIN mm.region[q].list /\ mn.region[q].list[k] = mm.region[q].list[k]
      <4>1. mm.region[q].list[k] \in Mirror \ {m}
        BY <1>0, <1>16, <2>2, <3>1, RegionParts
      <4>2. mn.mirrors[mn.region[q].list[k]] = mm.mirrors[mm.region[q].list[k]]
        BY <1>14, <3>1, <4>1
      <4> QED
        BY <2>0, <2>1, <2>2, <3>1, <4>2 DEF RegionOK, CountOK, ListOK, WindowOK
    <3>2. CASE q = r /\ mn.region[q].list[k] = m
      <4>1. win.data = g.data /\ win.index = g.index /\ win.count = n
        BY DEF win
      <4> QED
        BY <1>4, <1>14, <2>1, <3>2, <4>1
    <3> QED
      BY <1>17, <2>2, <3>1, <3>2
  <2>3. Len(mn.region[q].list) <= MaxList
    <3>1. CASE q = r
      BY <3>1, <1>3, <1>15, BoundsAssumption
    <3>2. CASE q # r
      BY <3>2, <2>0, <1>14 DEF RegionOK, CountOK, ListOK, WindowOK
    <3> QED
      BY <3>1, <3>2
  <2>4. ~mn.region[q].alive => mn.region[q] = NoRegion
    BY <1>5, <1>14, <2>0 DEF RegionOK, CountOK, ListOK, WindowOK
  <2>5. IF mn.region[q].data = Null THEN mn.region[q].count = 0
        ELSE mn.heap[mn.region[q].data] = mn.region[q].count
    BY <1>14, <2>0, <2>1 DEF RegionOK, CountOK, ListOK, WindowOK
  <2> QED
    BY <2>2, <2>3, <2>4, <2>5 DEF RegionOK, CountOK, ListOK, WindowOK
<1>19. ASSUME NEW q1 \in Region, NEW q2 \in Region
       PROVE  Apart(mn, q1, q2)
  <2>0. Apart(mm, q1, q2)
    BY DEF Sound
  <2>1. mn.region[q1].data = mm.region[q1].data /\ mn.region[q2].data = mm.region[q2].data
    BY <1>14
  <2>2. ASSUME NEW k \in DOMAIN mn.region[q1].list, NEW l \in DOMAIN mn.region[q2].list,
               mn.region[q1].list[k] = mn.region[q2].list[l], mn.region[q1].list[k] # Null
        PROVE  q1 = q2 /\ k = l
    <3>1. \/ k \in DOMAIN mm.region[q1].list /\ mn.region[q1].list[k] = mm.region[q1].list[k]
          \/ q1 = r /\ k = Len(g.list) + 1 /\ mn.region[q1].list[k] = m
      BY <1>17
    <3>2. \/ l \in DOMAIN mm.region[q2].list /\ mn.region[q2].list[l] = mm.region[q2].list[l]
          \/ q2 = r /\ l = Len(g.list) + 1 /\ mn.region[q2].list[l] = m
      BY <1>17
    <3> QED
      BY <1>16, <2>0, <2>2, <3>1, <3>2 DEF Apart
  <2> QED
    BY <2>0, <2>1, <2>2 DEF Apart
<1>20. \A b \in Block : mn.heap[b] # Free => Owned(mn, b)
  BY <1>14 DEF Sound, Owned
<1>21. ASSUME NEW w \in Mirror, mn.mirrors[w] # NoWindow
       PROVE  ListedIn(mn, Region, w)
  <2>1. CASE w = m
    BY <2>1, <1>3, <1>15 DEF ListedIn
  <2>2. CASE w # m
    <3>1. PICK q \in Region : \E k \in DOMAIN mm.region[q].list : mm.region[q].list[k] = w
      BY <2>2, <1>14, <1>21 DEF Sound, ListedIn
    <3>2. PICK k \in DOMAIN mm.region[q].list : mm.region[q].list[k] = w
      BY <3>1
    <3>3. k \in DOMAIN mn.region[q].list /\ mn.region[q].list[k] = w
      <4>1. CASE q = r
        <5>1. k \in 1 .. Len(g.list) + 1
          BY <3>2, <4>1, <1>3
        <5> QED
          BY <3>2, <4>1, <5>1, <1>15
      <4>2. CASE q # r
        BY <3>2, <4>2, <1>14
      <4> QED
        BY <4>1, <4>2
    <3> QED
      BY <3>3 DEF ListedIn
  <2> QED
    BY <2>1, <2>2
<1>22. Sound(mn)
  BY <1>13, <1>18, <1>19, <1>20, <1>21 DEF Sound
<1> QED
  BY <1>14, <1>22 DEF mn

-----------------------------------------------------------------------------
(* The operations that are made of others.                                 *)

LEMMA RoomGrows ==
  ASSUME NEW mm, NEW mn, NEW R, Room(mm, R), FreeBlocks(mm) \subseteq FreeBlocks(mn)
  PROVE  Room(mn, R)
<1>1. PICK f \in Injection(R, FreeBlocks(mm)) : TRUE
  BY DEF Room
<1>2. f \in Injection(R, FreeBlocks(mn))
  BY <1>1 DEF Injection
<1> QED
  BY <1>2 DEF Room

LEMMA ReleasedFree ==
  ASSUME NEW mm, NEW mn, NEW R, Released(mm, R, mn)
  PROVE  FreeBlocks(mm) \subseteq FreeBlocks(mn)
BY DEF Released, FreeBlocks

\* A region keeps its block when the counts agree; else it has a new one.
LEMMA Copies ==
  ASSUME NEW mm, Sound(mm), NEW r \in Region, NEW from \in Region, mm.region[r].alive,
         Room(mm, {r})
  PROVE  LET mn == CopyAssign(mm, r, from) IN
         mn = mm \/ /\ Sound(mn)
                    /\ \A q \in Region \ {r} : mn.region[q] = mm.region[q]
                    /\ mn.region[r].alive /\ mn.region[r].index = 0
<1> DEFINE n == mm.region[from].count
           sizes == [q \in {r} |-> n]
           c == Clear(mm, {r})
           mn == NewBlocks(c, {r}, sizes)
<1>1. CASE r = from \/ n = mm.region[r].count
  BY <1>1 DEF CopyAssign
<1>2. CASE ~(r = from \/ n = mm.region[r].count)
  <2>0. {r} \in SUBSET Region /\ mm \in Memory
    BY DEF Sound
  <2>1. Released(mm, {r}, c)
    BY <2>0, ClearReleases
  <2>2. c.region[r] = Emptied(mm.region[r])
    BY ClearIs
  <2>3. sizes \in [{r} -> Nat]
    BY <2>0, RegionParts
  <2>4. CopyAssign(mm, r, from) = mn
    BY <1>2 DEF CopyAssign
  <2> HIDE DEF c, sizes, mn
  <2>5. Sound(c) /\ c \in Memory /\ Room(c, {r})
    <3>1. Sound(c)
      BY <2>0, <2>1, ReleasedSound
    <3>2. FreeBlocks(mm) \subseteq FreeBlocks(c)
      BY <2>1, ReleasedFree
    <3> QED
      BY <3>1, <3>2, RoomGrows DEF Sound
  <2>6. PICK at : Granted(c, {r}, sizes, mn, at)
    BY <2>0, <2>3, <2>5, NewBlocksGrants DEF mn
  <2>7. c.region[r].alive /\ c.region[r].index = 0
    BY <2>2 DEF Emptied
  <2>8. \A q \in {r} : Bare(c, q)
    BY <2>1, <2>7 DEF Bare, Released
  <2>9. Sound(mn)
    BY <2>0, <2>3, <2>5, <2>6, <2>8, GrantedSound
  <2>10. /\ \A q \in Region \ {r} : mn.region[q] = mm.region[q]
         /\ mn.region[r].alive /\ mn.region[r].index = 0
    BY <2>1, <2>6, <2>7 DEF Granted, Released
  <2> QED
    BY <2>4, <2>9, <2>10
<1> QED
  BY <1>1, <1>2

\* The rows old are deleted, and the rows of the other space copied.
LEMMA Assigns ==
  ASSUME NEW mm, Sound(mm), NEW x, NEW from, NEW old \in SUBSET Region,
         RowIds(x, space[from].rows) \in SUBSET Region,
         RowIds(from, space[from].rows) \in SUBSET Region,
         \A r \in RowIds(x, space[from].rows) \ old : ~mm.region[r].alive,
         Room(Destroy(mm, old), RowIds(x, space[from].rows))
  PROVE  LET mn == AssignRows(mm, x, old, from)
             new == RowIds(x, space[from].rows)
         IN  /\ Sound(mn)
             /\ \A r \in Region \ (old \cup new) : mn.region[r] = mm.region[r]
             /\ \A r \in old \ new : mn.region[r] = NoRegion
             /\ \A r \in new : mn.region[r].alive /\ mn.region[r].index = 0
<1> DEFINE v == Destroy(mm, old)
           new == RowIds(x, space[from].rows)
           n == [r \in new |-> mm.region[<<from, r[2]>>].count]
           mn == AssignRows(mm, x, old, from)
<1>1. Released(mm, old, v) /\ \A r \in old : v.region[r] = NoRegion
  BY DestroyReleases
<1>2. n \in [new -> Nat]
  <2> SUFFICES ASSUME NEW r \in new
               PROVE  mm.region[<<from, r[2]>>].count \in Nat
    OBVIOUS
  <2>1. <<from, r[2]>> \in RowIds(from, space[from].rows)
    BY DEF RowIds
  <2> QED
    BY <2>1, RegionParts DEF Sound
<1>3. mn = Construct(v, new, n)
  BY DEF AssignRows
<1> HIDE DEF v, n, mn
<1>4. Sound(v)
  BY <1>1, ReleasedSound
<1>5. \A r \in new : ~v.region[r].alive
  BY <1>1 DEF Released, NoRegion
<1>6. Constructed(v, new, n, mn)
  <2> HIDE DEF new
  <2> QED
    BY <1>2, <1>3, <1>4, <1>5, Constructs DEF v, new
<1> HIDE DEF new
<1> QED
  BY <1>1, <1>6 DEF Constructed, Released, new, mn

-----------------------------------------------------------------------------
(* The windows handed out, and the rows of spaces.                         *)

\* An index that is not 0 was there before, with the items it counts or without items.
IndexKept(mn) ==
  \A q \in Region :
    \/ mn.region[q].index = 0
    \/ /\ mn.region[q].index = mem.region[q].index
       /\ \/ mn.region[q].data = Null
          \/ /\ mn.region[q].data = mem.region[q].data
             /\ mn.region[q].count = mem.region[q].count

HandedInv == /\ DOMAIN handed = Region
             /\ \A r \in Region : HandedOK(mem, handed[r], r)

LEMMA NothingHanded ==
  /\ <<>> \in Seq([index : Nat, count : Nat]) /\ InOrder(<<>>) /\ Upto(<<>>) = 0
BY DEF InOrder, Upto

LEMMA FollowKeeps ==
  ASSUME HandedInv, Sound(mem'), IndexKept(mem'), Follow(mem')
  PROVE  HandedInv'
<1>1. DOMAIN handed' = Region
  BY DEF Follow
<1>2. ASSUME NEW r \in Region
      PROVE  HandedOK(mem', handed'[r], r)
  <2>0. HandedOK(mem, handed[r], r)
    BY DEF HandedInv
  <2>1. CASE /\ mem'.region[r].data = mem.region[r].data
             /\ mem'.region[r].count = mem.region[r].count
             /\ mem'.region[r].index # 0
    <3>1. handed'[r] = handed[r]
      BY <2>1 DEF Follow
    <3>2. mem'.region[r].index = mem.region[r].index
      BY <2>1 DEF IndexKept
    <3>3. mem'.region[r].alive
      BY <2>1 DEF Sound, RegionOK, CountOK, NoRegion
    <3> QED
      BY <2>0, <2>1, <3>1, <3>2, <3>3 DEF HandedOK
  <2>2. CASE ~ /\ mem'.region[r].data = mem.region[r].data
               /\ mem'.region[r].count = mem.region[r].count
               /\ mem'.region[r].index # 0
    <3>1. handed'[r] = <<>>
      BY <2>2 DEF Follow
    <3>2. mem'.region[r].data = Null \/ mem'.region[r].index = 0
      BY <2>2 DEF IndexKept
    <3> QED
      BY <3>1, <3>2, NothingHanded DEF HandedOK
  <2> QED
    BY <2>1, <2>2
<1> QED
  BY <1>1, <1>2 DEF HandedInv

\* Regions that did not exist have handed out nothing.
LEMMA NewHandsNothing ==
  ASSUME HandedInv, Sound(mem), NEW R \in SUBSET Region, UNCHANGED handed,
         \A r \in R : ~mem.region[r].alive /\ mem'.region[r].index = 0,
         \A r \in Region \ R : mem'.region[r] = mem.region[r]
  PROVE  HandedInv'
<1>1. ASSUME NEW r \in Region
      PROVE  HandedOK(mem', handed[r], r)
  <2>0. HandedOK(mem, handed[r], r)
    BY DEF HandedInv
  <2>1. CASE r \in R
    <3>1. handed[r] = <<>>
      BY <2>0, <2>1 DEF HandedOK
    <3> QED
      BY <2>1, <3>1, NothingHanded DEF HandedOK
  <2>2. CASE r \notin R
    BY <2>0, <2>2 DEF HandedOK
  <2> QED
    BY <2>1, <2>2
<1> QED
  BY <1>1 DEF HandedInv

SpaceRecord == [rows : 0 .. MaxRows, cols : Nat, alive : BOOLEAN]

LEMMA SpaceRows ==
  ASSUME SpacesOK, NEW x \in Spaces
  PROVE  /\ space[x] \in SpaceRecord /\ space[x].rows \in 0 .. MaxRows
         /\ RowsOf(x) \in SUBSET Region
         /\ \A t \in Spaces : RowIds(t, space[x].rows) \in SUBSET Region
         /\ space[x].alive => \A r \in RowsOf(x) : mem.region[r].alive
         /\ ~space[x].alive => \A i \in 1 .. MaxRows : ~mem.region[<<x, i>>].alive
<1>1. space[x] \in SpaceRecord /\ space[x].rows \in 0 .. MaxRows
  BY DEF SpacesOK, SpaceRecord
<1>2. \A i \in 1 .. space[x].rows : i \in 1 .. MaxRows
  BY <1>1, BoundsAssumption
<1>3. \A t \in Spaces : RowIds(t, space[x].rows) \in SUBSET Region
  BY <1>2 DEF RowIds, Region, Row
<1>4. ASSUME space[x].alive, NEW r \in RowsOf(x)
      PROVE  mem.region[r].alive
  <2>1. r = <<x, r[2]>> /\ r[2] \in 1 .. space[x].rows /\ r[2] \in 1 .. MaxRows
    BY <1>2 DEF RowsOf, RowIds
  <2>2. r[2] <= space[x].rows
    BY <1>1, <2>1
  <2>3. mem.region[<<x, r[2]>>].alive
    BY <1>4, <2>1, <2>2 DEF SpacesOK
  <2> QED
    BY <2>1, <2>3
<1> QED
  BY <1>1, <1>3, <1>4 DEF RowsOf, SpacesOK

\* A space changes with its rows.
LEMMA SpaceChanges ==
  ASSUME SpacesOK, NEW x \in Spaces, NEW sp \in SpaceRecord, space' = [space EXCEPT ![x] = sp],
         \A i \in 1 .. MaxRows : mem'.region[<<x, i>>].alive <=> sp.alive /\ i <= sp.rows,
         \A t \in Spaces \ {x}, i \in 1 .. MaxRows :
           mem'.region[<<t, i>>].alive = mem.region[<<t, i>>].alive
  PROVE  SpacesOK'
<1>1. space' \in [Spaces -> SpaceRecord]
  BY DEF SpacesOK, SpaceRecord
<1>2. \A t \in Spaces : space'[t] = IF t = x THEN sp ELSE space[t]
  BY DEF SpacesOK
<1> QED
  BY <1>1, <1>2 DEF SpacesOK, SpaceRecord

RowsKept(mn) == \A r \in Row : mn.region[r].alive = mem.region[r].alive

\* What an operation that changes no space has to show.
LEMMA DoKeeps ==
  ASSUME RegionInv, NEW mm, Sound(mm), IndexKept(mm), RowsKept(mm), Do(mm)
  PROVE  RegionInv'
<1>1. Sound(mem') /\ IndexKept(mem') /\ Follow(mem')
  BY DEF Do, Sound, IndexKept
<1>2. HandedInv'
  <2>1. HandedInv
    BY DEF RegionInv, HandedInv
  <2> QED
    BY <1>1, <2>1, FollowKeeps
<1>3. SpacesOK'
  BY DEF RegionInv, SpacesOK, Do, RowsKept, Row
<1>4. Sound(mem)'
  BY <1>1
<1> QED
  BY <1>2, <1>3, <1>4 DEF RegionInv, HandedInv

-----------------------------------------------------------------------------
(* Every action keeps the invariant.                                       *)

LEMMA NameIsNoRow ==
  ASSUME NEW r \in Names
  PROVE  r \in Region /\ {r} \in SUBSET Region /\ r \notin Row
BY NamesAssumption DEF Region, Row

LEMMA RowIsRegion == Row \subseteq Region
BY DEF Region

\* Regions R begin, or end, or are given a new block: the others stay as they are.
LEMMA OthersKept ==
  ASSUME NEW mm, NEW R \in SUBSET Region,
         \A q \in Region \ R : mm.region[q] = mem.region[q],
         \A r \in R : mm.region[r].index = 0
  PROVE  IndexKept(mm)
BY DEF IndexKept

LEMMA NamesOnly ==
  ASSUME NEW mm, NEW R \in SUBSET Names, \A q \in Region \ R : mm.region[q] = mem.region[q]
  PROVE  RowsKept(mm)
<1> SUFFICES ASSUME NEW q \in Row
             PROVE  mm.region[q].alive = mem.region[q].alive
  BY DEF RowsKept
<1>1. q \in Region \ R
  BY RowIsRegion, NameIsNoRow
<1> QED
  BY <1>1

\* One named region begins, or ends, or is given a new block.
LEMMA NameChanged ==
  ASSUME NEW mm, NEW r \in Names,
         \A q \in Region \ {r} : mm.region[q] = mem.region[q],
         mm.region[r].index = 0
  PROVE  IndexKept(mm) /\ RowsKept(mm)
<1>1. {r} \in SUBSET Region /\ {r} \in SUBSET Names
  BY NameIsNoRow
<1>2. \A q \in {r} : mm.region[q].index = 0
  OBVIOUS
<1>3. IndexKept(mm)
  BY <1>1, <1>2, OthersKept
<1>4. RowsKept(mm)
  BY <1>1, NamesOnly
<1> QED
  BY <1>3, <1>4

LEMMA NewKeeps == ASSUME RegionInv, NEW r \in Names, New(r) PROVE RegionInv'
<1>1. PICK n \in [{r} -> 0 .. MaxCount] : Do(Construct(mem, {r}, n))
  BY DEF New
<1> DEFINE mm == Construct(mem, {r}, n)
<1>2. n \in [{r} -> Nat]
  OBVIOUS
<1>3. Constructed(mem, {r}, n, mm)
  <2>1. Sound(mem) /\ Room(mem, {r}) /\ \A q \in {r} : ~mem.region[q].alive
    BY DEF New, Alive, RegionInv
  <2> QED
    BY <1>2, <2>1, NameIsNoRow, Constructs
<1> HIDE DEF mm
<1>4. Sound(mm) /\ IndexKept(mm) /\ RowsKept(mm)
  <2>1. /\ Sound(mm) /\ mm.region[r].index = 0
        /\ \A q \in Region \ {r} : mm.region[q] = mem.region[q]
    BY <1>3 DEF Constructed
  <2> QED
    BY <2>1, NameChanged
<1> QED
  BY <1>1, <1>4, DoKeeps DEF mm

LEMMA AdoptKeeps == ASSUME RegionInv, NEW r \in Names, Adopt(r) PROVE RegionInv'
<1>1. PICK n \in [{r} -> 0 .. MaxCount] : Do(ResetMirroredRegionIter(Construct(mem, {r}, n), {r}))
  BY DEF Adopt
<1> DEFINE c == Construct(mem, {r}, n)
           mm == ResetMirroredRegionIter(c, {r})
<1>2. n \in [{r} -> Nat]
  OBVIOUS
<1>3. Constructed(mem, {r}, n, c)
  <2>1. Sound(mem) /\ Room(mem, {r}) /\ \A q \in {r} : ~mem.region[q].alive
    BY DEF Adopt, Alive, RegionInv
  <2> QED
    BY <1>2, <2>1, NameIsNoRow, Constructs
<1>4. /\ Sound(mm)
      /\ \A q \in Region \ {r} : mm.region[q] = c.region[q]
      /\ \A q \in {r} : mm.region[q].index = 0
  <2> HIDE DEF c
  <2>1. Sound(c)
    BY <1>3 DEF Constructed
  <2> QED
    BY <2>1, NameIsNoRow, Resets
<1> HIDE DEF mm, c
<1>5. \A q \in Region \ {r} : mm.region[q] = mem.region[q]
  BY <1>3, <1>4 DEF Constructed
<1>6. Sound(mm) /\ IndexKept(mm) /\ RowsKept(mm)
  <2>1. mm.region[r].index = 0
    BY <1>4
  <2> QED
    BY <1>4, <1>5, <2>1, NameChanged
<1> QED
  BY <1>1, <1>6, DoKeeps DEF mm, c

LEMMA CopyNewKeeps ==
  ASSUME RegionInv, NEW r \in Region, NEW from \in Region, CopyNew(r, from) PROVE RegionInv'
<1> DEFINE n == [q \in {r} |-> mem.region[from].count]
           mm == Construct(mem, {r}, n)
<1>1. Do(mm) /\ r \in Names
  BY DEF CopyNew, CopyConstruct
<1>2. n \in [{r} -> Nat]
  BY RegionParts DEF RegionInv, Sound
<1>3. Constructed(mem, {r}, n, mm)
  <2> HIDE DEF n
  <2>1. Sound(mem) /\ Room(mem, {r}) /\ \A q \in {r} : ~mem.region[q].alive
    BY DEF CopyNew, Alive, RegionInv
  <2> QED
    BY <1>1, <1>2, <2>1, NameIsNoRow, Constructs
<1> HIDE DEF mm, n
<1>4. Sound(mm) /\ IndexKept(mm) /\ RowsKept(mm)
  <2>1. /\ Sound(mm) /\ mm.region[r].index = 0
        /\ \A q \in Region \ {r} : mm.region[q] = mem.region[q]
    BY <1>3 DEF Constructed
  <2> QED
    BY <1>1, <2>1, NameChanged
<1> QED
  BY <1>1, <1>4, DoKeeps

\* What a move does to the regions it does not name, and to the index of those it does.
LEMMA MovedKept ==
  ASSUME NEW mm, NEW r \in Names, NEW from \in Names,
         \A q \in Region \ {r, from} : mm.region[q] = mem.region[q],
         mm.region[r].index = 0,
         mm.region[from].index = mem.region[from].index, mm.region[from].data = Null
  PROVE  IndexKept(mm) /\ RowsKept(mm)
<1>1. IndexKept(mm)
  BY DEF IndexKept
<1>2. RowsKept(mm)
  <2>1. {r, from} \in SUBSET Names
    OBVIOUS
  <2> QED
    BY <2>1, NamesOnly
<1> QED
  BY <1>1, <1>2

LEMMA MoveNewKeeps ==
  ASSUME RegionInv, NEW r \in Region, NEW from \in Region, MoveNew(r, from) PROVE RegionInv'
<1> DEFINE b == Begin(mem, {r})
           mm == MoveAssign(b, r, from)
<1>1. Do(mm) /\ r \in Names /\ from \in Names /\ r # from
  BY DEF MoveNew, MoveConstruct, Alive
<1>2. /\ Sound(b) /\ b.region[r] = Empty
      /\ \A q \in Region \ {r} : b.region[q] = mem.region[q]
  <2>1. Sound(mem) /\ \A q \in {r} : ~mem.region[q].alive
    BY DEF MoveNew, Alive, RegionInv
  <2> QED
    BY <2>1, BeginSound
<1> HIDE DEF b
<1>3. b.region[r].alive /\ b.region[from].alive
  BY <1>1, <1>2 DEF Empty, NoRegion, MoveNew, Alive
<1>4. /\ Sound(mm)
      /\ \A q \in Region \ {r, from} : mm.region[q] = b.region[q]
      /\ mm.region[r].index = 0
      /\ mm.region[from].index = b.region[from].index
      /\ mm.region[from].data = Null
  BY <1>1, <1>2, <1>3, Moves
<1> HIDE DEF mm
<1>5. IndexKept(mm) /\ RowsKept(mm)
  BY <1>1, <1>2, <1>4, MovedKept
<1> QED
  BY <1>1, <1>4, <1>5, DoKeeps

\* An operation that leaves memory as it is.
LEMMA SameKept == IndexKept(mem) /\ RowsKept(mem)
BY DEF IndexKept, RowsKept

LEMMA MoveKeeps ==
  ASSUME RegionInv, NEW r \in Region, NEW from \in Region, Move(r, from) PROVE RegionInv'
<1> DEFINE mm == MoveAssign(mem, r, from)
<1>1. /\ Do(mm) /\ r \in Names /\ from \in Names /\ Sound(mem)
      /\ mem.region[r].alive /\ mem.region[from].alive
  BY DEF Move, Alive, RegionInv
<1>2. CASE r = from
  <2>1. mm = mem
    BY <1>2 DEF MoveAssign
  <2> QED
    BY <1>1, <2>1, SameKept, DoKeeps
<1>3. CASE r # from
  <2>1. /\ Sound(mm)
        /\ \A q \in Region \ {r, from} : mm.region[q] = mem.region[q]
        /\ mm.region[r].index = 0
        /\ mm.region[from].index = mem.region[from].index
        /\ mm.region[from].data = Null
    BY <1>1, <1>3, Moves
  <2> HIDE DEF mm
  <2>2. IndexKept(mm) /\ RowsKept(mm)
    BY <1>1, <2>1, MovedKept
  <2> QED
    BY <1>1, <2>1, <2>2, DoKeeps
<1> QED
  BY <1>2, <1>3

LEMMA AssignKeeps ==
  ASSUME RegionInv, NEW r \in Region, NEW from \in Region, Assign(r, from) PROVE RegionInv'
<1> DEFINE mm == CopyAssign(mem, r, from)
<1>1. Do(mm) /\ r \in Names /\ mem.region[r].alive /\ Room(mem, {r}) /\ Sound(mem)
  BY DEF Assign, Alive, RegionInv
<1>2. mm = mem \/ /\ Sound(mm)
                  /\ \A q \in Region \ {r} : mm.region[q] = mem.region[q]
                  /\ mm.region[r].index = 0
  BY <1>1, Copies
<1> HIDE DEF mm
<1>3. CASE mm = mem
  BY <1>1, <1>3, SameKept, DoKeeps
<1>4. CASE /\ Sound(mm)
           /\ \A q \in Region \ {r} : mm.region[q] = mem.region[q]
           /\ mm.region[r].index = 0
  <2>1. IndexKept(mm) /\ RowsKept(mm)
    BY <1>1, <1>4, NameChanged
  <2> QED
    BY <1>1, <1>4, <2>1, DoKeeps
<1> QED
  BY <1>2, <1>3, <1>4

LEMMA DeleteKeeps == ASSUME RegionInv, NEW r \in Names, Delete(r) PROVE RegionInv'
<1> DEFINE mm == Destroy(mem, {r})
<1>1. Do(mm) /\ Sound(mem)
  BY DEF Delete, RegionInv
<1>2. Released(mem, {r}, mm)
  BY <1>1, NameIsNoRow, DestroyReleases
<1> HIDE DEF mm
<1>3. Sound(mm)
  BY <1>1, <1>2, NameIsNoRow, ReleasedSound
<1>4. IndexKept(mm) /\ RowsKept(mm)
  <2>1. /\ mm.region[r].index = 0
        /\ \A q \in Region \ {r} : mm.region[q] = mem.region[q]
    BY <1>2 DEF Released
  <2> QED
    BY <2>1, NameChanged
<1> QED
  BY <1>1, <1>3, <1>4, DoKeeps

\* A reset of the windows of any regions.
LEMMA ResetsKept ==
  ASSUME RegionInv, NEW R \in SUBSET Region, Do(ResetMirroredRegionIter(mem, R))
  PROVE  RegionInv'
<1> DEFINE mm == ResetMirroredRegionIter(mem, R)
<1>1. /\ Sound(mm)
      /\ \A r \in Region \ R : mm.region[r] = mem.region[r]
      /\ \A r \in R : mm.region[r].alive = mem.region[r].alive /\ mm.region[r].index = 0
  BY Resets DEF RegionInv
<1> HIDE DEF mm
<1>2. IndexKept(mm)
  BY <1>1, OthersKept
<1>3. RowsKept(mm)
  BY <1>1, RowIsRegion DEF RowsKept
<1> QED
  BY <1>1, <1>2, <1>3, DoKeeps DEF mm

LEMMA ResetKeeps == ASSUME RegionInv, NEW r \in Region, Reset(r) PROVE RegionInv'
<1>1. {r} \in SUBSET Region
  OBVIOUS
<1> QED
  BY <1>1, ResetsKept DEF Reset

LEMMA ResetSpaceKeeps == ASSUME RegionInv, NEW x \in Spaces, ResetSpace(x) PROVE RegionInv'
<1>1. RowsOf(x) \in SUBSET Region
  BY SpaceRows DEF RegionInv
<1> QED
  BY <1>1, ResetsKept DEF ResetSpace

\* One more window at the end keeps the order.
LEMMA AppendInOrder ==
  ASSUME NEW q \in Seq([index : Nat, count : Nat]), InOrder(q), NEW n \in Nat, n > 0
  PROVE  LET w == [index |-> Upto(q), count |-> n]
             u == Append(q, w)
         IN  u \in Seq([index : Nat, count : Nat]) /\ InOrder(u) /\ Upto(u) = Upto(q) + n
<1> DEFINE w == [index |-> Upto(q), count |-> n]
           u == Append(q, w)
           len == Len(q)
<1>1. len \in Nat /\ DOMAIN q = 1 .. len /\ \A k \in 1 .. len : q[k].index \in Nat /\ q[k].count \in Nat
  <2>1. len \in Nat /\ DOMAIN q = 1 .. len
    BY LenProperties
  <2>2. \A k \in 1 .. len : q[k] \in [index : Nat, count : Nat]
    BY ElementOfSeq
  <2> QED
    BY <2>1, <2>2
<1>2. IF len = 0 THEN q = <<>> /\ Upto(q) = 0
      ELSE q # <<>> /\ Upto(q) = q[len].index + q[len].count
  BY <1>1, EmptySeq DEF Upto, Last
<1>3. Upto(q) \in Nat
  BY <1>1, <1>2
<1>4. w \in [index : Nat, count : Nat]
  BY <1>3
<1>5. /\ u \in Seq([index : Nat, count : Nat]) /\ Len(u) = len + 1 /\ DOMAIN u = 1 .. len + 1
      /\ u[len + 1] = w /\ \A k \in 1 .. len : u[k] = q[k]
  BY <1>1, <1>4, AppendProperties
<1>6. w.index = Upto(q) /\ w.count = n
  OBVIOUS
<1> HIDE DEF u, w, len
<1>7. ASSUME NEW k \in DOMAIN u
      PROVE  /\ u[k].count > 0
             /\ u[k].index = IF k = 1 THEN 0 ELSE u[k - 1].index + u[k - 1].count
  <2>1. CASE k \in 1 .. len
    <3>1. u[k] = q[k] /\ (k # 1 => u[k - 1] = q[k - 1])
      BY <2>1, <1>1, <1>5
    <3> QED
      BY <2>1, <3>1, <1>1 DEF InOrder
  <2>2. CASE k = len + 1
    <3>1. CASE len = 0
      BY <2>2, <3>1, <1>2, <1>5, <1>6
    <3>2. CASE len # 0
      <4>1. u[k - 1] = q[len] /\ k # 1
        BY <2>2, <3>2, <1>1, <1>5
      <4> QED
        BY <2>2, <3>2, <4>1, <1>2, <1>5, <1>6
    <3> QED
      BY <3>1, <3>2
  <2> QED
    BY <2>1, <2>2, <1>1, <1>5
<1>8. Upto(u) = Upto(q) + n
  <2>1. u # <<>>
    BY <1>1, <1>5
  <2> QED
    BY <2>1, <1>5, <1>6 DEF Upto, Last
<1> QED
  BY <1>5, <1>7, <1>8 DEF InOrder, u, w

LEMMA NextMirroredRegionKeeps ==
  ASSUME RegionInv, NEW r \in Region, NEW n \in 1 .. MaxCount, NextMirroredRegion(r, n)
  PROVE  RegionInv'
<1> DEFINE g == mem.region[r]
           units == NumUnits(g, n)
<1>0. Sound(mem) /\ mem \in Memory /\ RegionOK(mem, r) /\ SpacesOK /\ HandedOK(mem, handed[r], r)
  BY DEF RegionInv, Sound
<1>1. /\ g.alive /\ g.index < g.count /\ FreeMirrors(mem) # {} /\ Len(g.list) < MaxList
      /\ mem' = MirrorRegion(mem, r, units)
      /\ handed' = [handed EXCEPT ![r] = Append(@, [index |-> g.index, count |-> units])]
      /\ UNCHANGED space
  BY DEF NextMirroredRegion, Alive
<1>2. g.index \in Nat /\ g.count \in Nat /\ g.data \in Address
  BY <1>0, RegionParts
<1>3. units \in Nat /\ units > 0 /\ g.index + units <= g.count
  <2>1. n \in Nat /\ n > 0
    BY BoundsAssumption
  <2>2. units = IF g.index + n > g.count THEN g.count - g.index ELSE n
    BY DEF NumUnits
  <2>3. g.index < g.count
    BY <1>1
  <2> HIDE DEF g, units
  <2> QED
    BY <2>1, <2>2, <2>3, <1>2
<1> HIDE DEF units
<1>4. /\ Sound(mem')
      /\ \A q \in Region \ {r} : mem'.region[q] = mem.region[q]
      /\ mem'.region[r].index = g.index + units
      /\ mem'.region[r].alive = g.alive
  <2> DEFINE mn == MirrorRegion(mem, r, units)
  <2>1. /\ Sound(mn)
        /\ \A q \in Region \ {r} : mn.region[q] = mem.region[q]
        /\ mn.region[r].index = mem.region[r].index + units
        /\ mn.region[r].alive = mem.region[r].alive
    BY <1>0, <1>1, <1>3, HandsOut
  <2>2. mem' = mn
    BY <1>1
  <2> HIDE DEF mn
  <2> QED
    BY <2>1, <2>2
<1>5. g.data # Null
  BY <1>0, <1>1, <1>2 DEF RegionOK, CountOK
<1>6. g.index = Upto(handed[r])
  BY <1>0, <1>5 DEF HandedOK
<1>7. handed' = [handed EXCEPT ![r] = Append(handed[r], [index |-> Upto(handed[r]), count |-> units])]
  BY <1>1, <1>6
<1>8. /\ DOMAIN handed' = Region
      /\ \A q \in Region \ {r} : handed'[q] = handed[q]
      /\ handed'[r] = Append(handed[r], [index |-> Upto(handed[r]), count |-> units])
  BY <1>7 DEF RegionInv
<1>9. /\ handed'[r] \in Seq([index : Nat, count : Nat]) /\ InOrder(handed'[r])
      /\ Upto(handed'[r]) = g.index + units
  BY <1>0, <1>3, <1>6, <1>8, AppendInOrder DEF HandedOK
<1>10. ASSUME NEW q \in Region
       PROVE  HandedOK(mem', handed'[q], q)
  <2>1. CASE q = r
    BY <2>1, <1>1, <1>4, <1>9 DEF HandedOK
  <2>2. CASE q # r
    BY <2>2, <1>4, <1>8 DEF HandedOK, RegionInv
  <2> QED
    BY <2>1, <2>2
<1>11. SpacesOK'
  <2>1. \A q \in Region : mem'.region[q].alive = mem.region[q].alive
    BY <1>4
  <2>2. \A x \in Spaces, i \in 1 .. MaxRows : <<x, i>> \in Region
    BY DEF Region, Row
  <2> QED
    BY <1>0, <1>1, <2>1, <2>2 DEF SpacesOK
<1>12. Sound(mem)'
  BY <1>4
<1> QED
  BY <1>8, <1>10, <1>11, <1>12 DEF RegionInv

\* Which rows there are.
LEMMA RowIdsAre ==
  ASSUME NEW x \in Spaces, NEW rows \in 0 .. MaxRows
  PROVE  /\ RowIds(x, rows) \in SUBSET Region
         /\ \A i \in 1 .. MaxRows : <<x, i>> \in RowIds(x, rows) <=> i <= rows
         /\ \A t \in Spaces \ {x}, i \in 1 .. MaxRows : <<t, i>> \in Region \ RowIds(x, rows)
         /\ \A i \in 1 .. MaxRows : <<x, i>> \in Region
         /\ \A r \in RowIds(x, rows) : \E i \in 1 .. MaxRows : r = <<x, i>> /\ i <= rows
<1>1. \A i : i \in 1 .. rows <=> i \in 1 .. MaxRows /\ i <= rows
  BY BoundsAssumption
<1>2. \A t \in Spaces, i \in 1 .. MaxRows : <<t, i>> \in Region
  BY DEF Region, Row
<1>3. \A r : r \in RowIds(x, rows) <=> \E i \in 1 .. rows : r = <<x, i>>
  BY DEF RowIds
<1> QED
  BY <1>1, <1>2, <1>3

LEMMA NewSpaceKeeps == ASSUME RegionInv, NEW x \in Spaces, NewSpace(x) PROVE RegionInv'
<1>0. Sound(mem) /\ SpacesOK /\ HandedInv
  BY DEF RegionInv, HandedInv
<1>1. PICK rows \in 1 .. MaxRows : \E cols \in 1 .. MaxCount :
        /\ ~space[x].alive /\ Room(mem, RowIds(x, rows))
        /\ mem' = NewRows(mem, x, rows, cols)
        /\ space' = [space EXCEPT ![x] = [rows |-> rows, cols |-> cols, alive |-> TRUE]]
        /\ UNCHANGED handed
  BY DEF NewSpace
<1>2. PICK cols \in 1 .. MaxCount :
        /\ ~space[x].alive /\ Room(mem, RowIds(x, rows))
        /\ mem' = NewRows(mem, x, rows, cols)
        /\ space' = [space EXCEPT ![x] = [rows |-> rows, cols |-> cols, alive |-> TRUE]]
        /\ UNCHANGED handed
  BY <1>1
<1> DEFINE R == RowIds(x, rows)
           n == [r \in R |-> cols]
           sp == [rows |-> rows, cols |-> cols, alive |-> TRUE]
<1>3. rows \in 0 .. MaxRows /\ n \in [R -> Nat] /\ sp \in SpaceRecord
  BY BoundsAssumption DEF SpaceRecord
<1>4. \A r \in R : ~mem.region[r].alive
  BY <1>0, <1>2, <1>3, RowIdsAre, SpaceRows
<1>5. mem' = Construct(mem, R, n)
  BY <1>2 DEF NewRows
<1> HIDE DEF n
<1>6. Constructed(mem, R, n, mem')
  <2>1. R \in SUBSET Region
    BY <1>3, RowIdsAre
  <2> HIDE DEF R
  <2> QED
    BY <1>0, <1>2, <1>3, <1>4, <1>5, <2>1, Constructs DEF R
<1>7. HandedInv'
  <2>1. R \in SUBSET Region
    BY <1>3, RowIdsAre
  <2> HIDE DEF R
  <2> QED
    BY <1>0, <1>2, <1>4, <1>6, <2>1, NewHandsNothing DEF Constructed
<1>8. SpacesOK'
  <2>1. \A i \in 1 .. MaxRows : mem'.region[<<x, i>>].alive <=> i <= rows
    <3> SUFFICES ASSUME NEW i \in 1 .. MaxRows
                 PROVE  mem'.region[<<x, i>>].alive <=> i <= rows
      OBVIOUS
    <3>1. CASE i <= rows
      BY <3>1, <1>3, <1>6, RowIdsAre DEF Constructed
    <3>2. CASE ~(i <= rows)
      <4>1. <<x, i>> \in Region \ R
        BY <3>2, <1>3, RowIdsAre
      <4>2. ~mem.region[<<x, i>>].alive
        BY <1>0, <1>2, SpaceRows
      <4> QED
        BY <3>2, <4>1, <4>2, <1>6 DEF Constructed
    <3> QED
      BY <3>1, <3>2
  <2>2. \A t \in Spaces \ {x}, i \in 1 .. MaxRows :
          mem'.region[<<t, i>>].alive = mem.region[<<t, i>>].alive
    BY <1>3, <1>6, RowIdsAre DEF Constructed
  <2>3. sp.rows = rows /\ sp.alive
    OBVIOUS
  <2> HIDE DEF sp, R
  <2> QED
    BY <1>0, <1>2, <1>3, <2>1, <2>2, <2>3, SpaceChanges DEF sp
<1>9. Sound(mem)'
  BY <1>6 DEF Constructed
<1> QED
  BY <1>7, <1>8, <1>9 DEF RegionInv, HandedInv

\* A space x that takes the size of another, its rows new or assigned.
LEMMA SpaceCopied ==
  ASSUME SpacesOK, NEW x \in Spaces, NEW from \in Spaces, space[from].alive,
         space' = [space EXCEPT ![x] = space[from]],
         \A r \in RowIds(x, space[from].rows) : mem'.region[r].alive,
         \A i \in 1 .. MaxRows : i > space[from].rows => ~mem'.region[<<x, i>>].alive,
         \A t \in Spaces \ {x}, i \in 1 .. MaxRows :
           mem'.region[<<t, i>>].alive = mem.region[<<t, i>>].alive
  PROVE  SpacesOK'
<1>1. space[from] \in SpaceRecord /\ space[from].rows \in 0 .. MaxRows
  BY SpaceRows
<1>2. \A i \in 1 .. MaxRows : mem'.region[<<x, i>>].alive <=> i <= space[from].rows
  <2> SUFFICES ASSUME NEW i \in 1 .. MaxRows
               PROVE  mem'.region[<<x, i>>].alive <=> i <= space[from].rows
    OBVIOUS
  <2>1. CASE i <= space[from].rows
    BY <2>1, <1>1, RowIdsAre
  <2>2. CASE i > space[from].rows
    BY <2>2, <1>1
  <2> QED
    BY <2>1, <2>2, <1>1, BoundsAssumption
<1> QED
  BY <1>1, <1>2, SpaceChanges

\* Rows that are new in memory mm, and old ones that are in no other space.
LEMMA RowsFree ==
  ASSUME RegionInv, NEW x \in Spaces, NEW from \in Spaces, space[from].alive, ~space[x].alive
  PROVE  LET R == RowIds(x, space[from].rows) IN
         /\ R \in SUBSET Region /\ RowIds(from, space[from].rows) \in SUBSET Region
         /\ \A r \in R : ~mem.region[r].alive
         /\ \A i \in 1 .. MaxRows : ~mem.region[<<x, i>>].alive
         /\ space[from].rows \in 0 .. MaxRows
<1>1. SpacesOK
  BY DEF RegionInv
<1>2. space[from].rows \in 0 .. MaxRows
  BY <1>1, SpaceRows
<1>3. \A i \in 1 .. MaxRows : ~mem.region[<<x, i>>].alive
  BY <1>1, SpaceRows
<1> QED
  BY <1>2, <1>3, RowIdsAre

\* A new space with the rows of another, made by assignments to rows old.
LEMMA SpaceMade ==
  ASSUME RegionInv, NEW x \in Spaces, NEW from \in Spaces, ~space[x].alive, space[from].alive,
         NEW mm, mem' = mm, Sound(mm),
         \A r \in Region \ RowIds(x, space[from].rows) : mm.region[r] = mem.region[r],
         \A r \in RowIds(x, space[from].rows) : mm.region[r].alive /\ mm.region[r].index = 0,
         space' = [space EXCEPT ![x] = space[from]], UNCHANGED handed
  PROVE  RegionInv'
<1> DEFINE R == RowIds(x, space[from].rows)
<1>0. Sound(mem) /\ SpacesOK /\ HandedInv
  BY DEF RegionInv, HandedInv
<1>1. /\ R \in SUBSET Region
      /\ \A r \in R : ~mem.region[r].alive
      /\ \A i \in 1 .. MaxRows : ~mem.region[<<x, i>>].alive
      /\ space[from].rows \in 0 .. MaxRows
  BY RowsFree
<1>2. HandedInv'
  <2> HIDE DEF R
  <2> QED
    BY <1>0, <1>1, NewHandsNothing DEF R
<1>3. SpacesOK'
  <2>1. \A i \in 1 .. MaxRows : i > space[from].rows => <<x, i>> \in Region \ R
    BY <1>1, RowIdsAre
  <2>2. \A t \in Spaces \ {x}, i \in 1 .. MaxRows : <<t, i>> \in Region \ R
    BY <1>1, RowIdsAre
  <2>3. \A i \in 1 .. MaxRows : i > space[from].rows => ~mem'.region[<<x, i>>].alive
    BY <1>1, <2>1
  <2>4. \A t \in Spaces \ {x}, i \in 1 .. MaxRows :
          mem'.region[<<t, i>>].alive = mem.region[<<t, i>>].alive
    BY <2>2
  <2> QED
    BY <1>0, <2>3, <2>4, SpaceCopied
<1>4. Sound(mem)'
  OBVIOUS
<1> QED
  BY <1>2, <1>3, <1>4 DEF RegionInv, HandedInv

LEMMA CloneKeeps ==
  ASSUME RegionInv, NEW x \in Spaces, NEW from \in Spaces, Clone(x, from) PROVE RegionInv'
<1> DEFINE R == RowIds(x, space[from].rows)
           n == [r \in R |-> space[from].cols]
           made == NewRows(mem, x, space[from].rows, space[from].cols)
           gone == Destroy(made, R)
           mm == AssignRows(made, x, R, from)
<1>0. Sound(mem) /\ SpacesOK
  BY DEF RegionInv
<1>1. /\ ~space[x].alive /\ space[from].alive /\ Room(mem, R) /\ mem' = mm
      /\ space' = [space EXCEPT ![x] = space[from]] /\ UNCHANGED handed
  BY DEF Clone
<1>2. /\ R \in SUBSET Region /\ RowIds(from, space[from].rows) \in SUBSET Region
      /\ \A r \in R : ~mem.region[r].alive
  BY <1>1, RowsFree
<1>3. n \in [R -> Nat]
  BY <1>0, SpaceRows DEF SpaceRecord
<1>4. Constructed(mem, R, n, made)
  <2>1. made = Construct(mem, R, n)
    BY DEF NewRows
  <2> HIDE DEF R, n, made
  <2> QED
    BY <1>0, <1>1, <1>2, <1>3, <2>1, Constructs
<1>5. Released(made, R, gone)
  <2> HIDE DEF R, made
  <2> QED
    BY <1>2, <1>4, DestroyReleases DEF Constructed
\* The blocks of the new rows are given back before the copies ask for theirs.
<1>6. FreeBlocks(mem) \subseteq FreeBlocks(gone)
  <2> SUFFICES ASSUME NEW b \in Block, mem.heap[b] = Free
               PROVE  gone.heap[b] = Free
    BY DEF FreeBlocks
  <2> HIDE DEF R, made, gone, n
  <2>1. CASE made.heap[b] = mem.heap[b]
    BY <2>1, <1>5 DEF Released
  <2>2. CASE made.heap[b] # mem.heap[b]
    BY <2>2, <1>4, <1>5 DEF Constructed, Released
  <2> QED
    BY <2>1, <2>2
<1>7. Room(gone, R)
  BY <1>1, <1>6, RoomGrows
<1>8. /\ Sound(mm)
      /\ \A r \in Region \ R : mm.region[r] = made.region[r]
      /\ \A r \in R : mm.region[r].alive /\ mm.region[r].index = 0
  <2> HIDE DEF made
  <2>1. Sound(made)
    BY <1>4 DEF Constructed
  <2>2. Room(Destroy(made, R), R)
    BY <1>7
  <2>3. LET new == RowIds(x, space[from].rows) IN
        /\ Sound(mm)
        /\ \A r \in Region \ (R \cup new) : mm.region[r] = made.region[r]
        /\ \A r \in new : mm.region[r].alive /\ mm.region[r].index = 0
    BY <1>2, <2>1, <2>2, Assigns
  <2> QED
    BY <2>3
<1> HIDE DEF made, gone, mm
<1>9. \A r \in Region \ R : mm.region[r] = mem.region[r]
  BY <1>4, <1>8 DEF Constructed
<1> QED
  BY <1>1, <1>8, <1>9, SpaceMade

LEMMA CopySpaceKeeps ==
  ASSUME RegionInv, NEW x \in Spaces, NEW from \in Spaces, CopySpace(x, from) PROVE RegionInv'
<1> DEFINE R == RowIds(x, space[from].rows)
           mm == AssignRows(mem, x, {}, from)
           gone == Destroy(mem, {})
<1>1. /\ ~space[x].alive /\ space[from].alive /\ Room(mem, R) /\ mem' = mm
      /\ space' = [space EXCEPT ![x] = space[from]] /\ UNCHANGED handed
  BY DEF CopySpace
<1>2. /\ R \in SUBSET Region /\ RowIds(from, space[from].rows) \in SUBSET Region
      /\ \A r \in R : ~mem.region[r].alive
  BY <1>1, RowsFree
<1>3. Sound(mem) /\ {} \in SUBSET Region
  BY DEF RegionInv
<1>4. Room(gone, R)
  <2>1. Released(mem, {}, gone)
    BY <1>3, DestroyReleases
  <2>2. FreeBlocks(mem) \subseteq FreeBlocks(gone)
    BY <2>1, ReleasedFree
  <2> QED
    BY <1>1, <2>2, RoomGrows
<1>5. LET new == RowIds(x, space[from].rows) IN
      /\ Sound(mm)
      /\ \A r \in Region \ ({} \cup new) : mm.region[r] = mem.region[r]
      /\ \A r \in new : mm.region[r].alive /\ mm.region[r].index = 0
  <2> HIDE DEF gone
  <2>1. Room(Destroy(mem, {}), R)
    BY <1>4 DEF gone
  <2> QED
    BY <1>2, <1>3, <2>1, Assigns
<1> HIDE DEF mm
<1> QED
  BY <1>1, <1>5, SpaceMade

LEMMA DeleteSpaceKeeps == ASSUME RegionInv, NEW x \in Spaces, DeleteSpace(x) PROVE RegionInv'
<1> DEFINE R == RowsOf(x)
<1>0. Sound(mem) /\ SpacesOK /\ HandedInv /\ space[x].rows \in 0 .. MaxRows
  BY SpaceRows DEF RegionInv, HandedInv
<1>1. /\ space[x].alive /\ mem' = Destroy(mem, R)
      /\ space' = [space EXCEPT ![x] = NoSpace] /\ Follow(mem')
  BY DEF DeleteSpace
<1>2. R \in SUBSET Region
  BY <1>0, SpaceRows
<1>3. Released(mem, R, mem') /\ \A r \in R : mem'.region[r] = NoRegion
  BY <1>0, <1>1, <1>2, DestroyReleases
<1>4. Sound(mem')
  BY <1>0, <1>2, <1>3, ReleasedSound
<1>5. HandedInv'
  <2>1. IndexKept(mem')
    BY <1>2, <1>3, OthersKept DEF Released
  <2> QED
    BY <1>0, <1>1, <1>4, <2>1, FollowKeeps
<1>6. SpacesOK'
  <2>1. \A i \in 1 .. MaxRows : ~mem'.region[<<x, i>>].alive
    <3> SUFFICES ASSUME NEW i \in 1 .. MaxRows
                 PROVE  ~mem'.region[<<x, i>>].alive
      OBVIOUS
    <3>1. CASE <<x, i>> \in R
      BY <3>1, <1>3 DEF NoRegion
    <3>2. CASE <<x, i>> \notin R
      <4>1. <<x, i>> \in Region /\ ~(i <= space[x].rows)
        BY <3>2, <1>0, RowIdsAre DEF RowsOf
      <4> QED
        BY <3>2, <4>1, <1>0, <1>3 DEF Released, SpacesOK
    <3> QED
      BY <3>1, <3>2
  <2>2. \A t \in Spaces \ {x}, i \in 1 .. MaxRows :
          mem'.region[<<t, i>>].alive = mem.region[<<t, i>>].alive
    BY <1>0, <1>3, RowIdsAre DEF Released, RowsOf
  <2>3. NoSpace \in SpaceRecord /\ ~NoSpace.alive
    BY BoundsAssumption DEF SpaceRecord, NoSpace
  <2> QED
    BY <1>0, <1>1, <2>1, <2>2, <2>3, SpaceChanges
<1> QED
  BY <1>4, <1>5, <1>6 DEF RegionInv, HandedInv

LEMMA AssignSpaceKeeps ==
  ASSUME RegionInv, NEW x \in Spaces, NEW from \in Spaces, AssignSpace(x, from) PROVE RegionInv'
<1> DEFINE old == RowsOf(x)
           new == RowIds(x, space[from].rows)
<1>0. Sound(mem) /\ SpacesOK /\ HandedInv
      /\ space[x].rows \in 0 .. MaxRows /\ space[from].rows \in 0 .. MaxRows
  BY SpaceRows DEF RegionInv, HandedInv
<1>1. /\ space[x].alive /\ space[from].alive /\ Room(Destroy(mem, old), new) /\ x # from
      /\ mem' = AssignRows(mem, x, old, from) /\ Follow(mem')
      /\ space' = [space EXCEPT ![x] = space[from]]
  BY DEF AssignSpace
<1>2. /\ old \in SUBSET Region /\ new \in SUBSET Region
      /\ RowIds(from, space[from].rows) \in SUBSET Region
  BY <1>0, RowIdsAre DEF RowsOf
<1>3. \A r \in new \ old : ~mem.region[r].alive
  <2> SUFFICES ASSUME NEW r \in new, r \notin old
               PROVE  ~mem.region[r].alive
    OBVIOUS
  <2>1. PICK i \in 1 .. MaxRows : r = <<x, i>>
    BY <1>0, RowIdsAre
  <2>2. ~(i <= space[x].rows)
    BY <1>0, <2>1, RowIdsAre DEF RowsOf
  <2> QED
    BY <1>0, <2>1, <2>2 DEF SpacesOK
<1>4. /\ Sound(mem')
      /\ \A r \in Region \ (old \cup new) : mem'.region[r] = mem.region[r]
      /\ \A r \in old \ new : mem'.region[r] = NoRegion
      /\ \A r \in new : mem'.region[r].alive /\ mem'.region[r].index = 0
  <2> HIDE DEF old
  <2> QED
    BY <1>0, <1>1, <1>2, <1>3, Assigns
<1>5. HandedInv'
  <2>1. \A r \in old \cup new : mem'.region[r].index = 0
    BY <1>4 DEF NoRegion
  <2>2. IndexKept(mem')
    <3> HIDE DEF old, new
    <3>1. old \cup new \in SUBSET Region
      BY <1>2
    <3> QED
      BY <1>4, <2>1, <3>1, OthersKept
  <2> QED
    BY <1>0, <1>1, <1>4, <2>2, FollowKeeps
<1>6. SpacesOK'
  <2>1. \A i \in 1 .. MaxRows : i > space[from].rows => ~mem'.region[<<x, i>>].alive
    <3> SUFFICES ASSUME NEW i \in 1 .. MaxRows, i > space[from].rows
                 PROVE  ~mem'.region[<<x, i>>].alive
      OBVIOUS
    <3>0. <<x, i>> \in Region /\ <<x, i>> \notin new
      BY <1>0, RowIdsAre
    <3>1. CASE <<x, i>> \in old
      BY <3>0, <3>1, <1>4 DEF NoRegion
    <3>2. CASE <<x, i>> \notin old
      <4>1. ~(i <= space[x].rows)
        BY <3>2, <1>0, RowIdsAre DEF RowsOf
      <4>2. mem'.region[<<x, i>>] = mem.region[<<x, i>>]
        BY <3>0, <3>2, <1>4
      <4> QED
        BY <4>1, <4>2, <1>0 DEF SpacesOK
    <3> QED
      BY <3>1, <3>2
  <2>2. \A t \in Spaces \ {x}, i \in 1 .. MaxRows :
          mem'.region[<<t, i>>].alive = mem.region[<<t, i>>].alive
    <3>1. \A t \in Spaces \ {x}, i \in 1 .. MaxRows : <<t, i>> \in Region \ (old \cup new)
      BY <1>0, RowIdsAre DEF RowsOf
    <3> QED
      BY <3>1, <1>4
  <2> QED
    BY <1>0, <1>1, <1>4, <2>1, <2>2, SpaceCopied
<1> QED
  BY <1>4, <1>5, <1>6 DEF RegionInv, HandedInv

-----------------------------------------------------------------------------
(* The theorems.                                                           *)

LEMMA NothingSound == RegionInit => RegionInv
<1> SUFFICES ASSUME RegionInit PROVE RegionInv
  OBVIOUS
<1>1. /\ mem = [heap |-> [b \in Block |-> Free], mirrors |-> [m \in Mirror |-> NoWindow],
                region |-> [r \in Region |-> NoRegion], fault |-> FALSE]
      /\ space = [x \in Spaces |-> NoSpace] /\ handed = [r \in Region |-> <<>>]
  BY DEF RegionInit
<1>2. NoWindow \in Window /\ NoRegion \in RegionRecord
  BY NoRegionType DEF Window, NoWindow, Address
<1>3. mem \in Memory /\ ~mem.fault
  BY <1>1, <1>2 DEF Memory
<1>4. /\ \A b \in Block : mem.heap[b] = Free
      /\ \A m \in Mirror : mem.mirrors[m] = NoWindow
      /\ \A r \in Region : mem.region[r] = NoRegion
  BY <1>1
<1>5. NoRegion.data = Null /\ NoRegion.count = 0 /\ NoRegion.list = <<>> /\ ~NoRegion.alive
  BY DEF NoRegion
<1>6. DOMAIN <<>> = {} /\ Len(<<>>) <= MaxList
  BY BoundsAssumption
<1>7. \A r \in Region : RegionOK(mem, r)
  BY <1>4, <1>5, <1>6 DEF RegionOK, CountOK, ListOK, WindowOK
<1>8. \A r, q \in Region : Apart(mem, r, q)
  BY <1>4, <1>5, <1>6 DEF Apart
<1>9. Sound(mem)
  BY <1>3, <1>4, <1>7, <1>8 DEF Sound
<1>10. SpacesOK
  <2>1. NoSpace \in [rows : 0 .. MaxRows, cols : Nat, alive : BOOLEAN] /\ ~NoSpace.alive
    BY BoundsAssumption DEF NoSpace
  <2>2. \A x \in Spaces, i \in 1 .. MaxRows : <<x, i>> \in Region
    BY DEF Region, Row
  <2> QED
    BY <1>1, <1>4, <1>5, <2>1, <2>2 DEF SpacesOK
<1>11. \A r \in Region : HandedOK(mem, handed[r], r)
  BY <1>1, <1>4, <1>5, NothingHanded DEF HandedOK
<1> QED
  BY <1>1, <1>9, <1>10, <1>11 DEF RegionInv

\* Memory stays sound: the regions' blocks, the windows into them and the lists
\* agree, the spaces have the rows they say, and what was handed out of a region's
\* present items reaches to its index.  It is what RegionsKept is proved from.
THEOREM RegionInvariant == RegionSpec => []RegionInv
<1>1. RegionInv /\ [RegionNext]_regionVars => RegionInv'
  <2> SUFFICES ASSUME RegionInv, [RegionNext]_regionVars
               PROVE  RegionInv'
    OBVIOUS
  <2>1. CASE UNCHANGED regionVars
    BY <2>1 DEF regionVars, RegionInv, Sound, SpacesOK
  <2>2. ASSUME NEW r \in Names, New(r) \/ Adopt(r) \/ Delete(r)
        PROVE  RegionInv'
    BY <2>2, NewKeeps, AdoptKeeps, DeleteKeeps
  <2>3. ASSUME NEW r \in Region, NEW from \in Region,
               CopyNew(r, from) \/ MoveNew(r, from) \/ Assign(r, from) \/ Move(r, from)
        PROVE  RegionInv'
    BY <2>3, CopyNewKeeps, MoveNewKeeps, AssignKeeps, MoveKeeps
  <2>4. ASSUME NEW r \in Region, Reset(r)
        PROVE  RegionInv'
    BY <2>4, ResetKeeps
  <2>5. ASSUME NEW r \in Region, NEW n \in 1 .. MaxCount, NextMirroredRegion(r, n)
        PROVE  RegionInv'
    BY <2>5, NextMirroredRegionKeeps
  <2>6. ASSUME NEW x \in Spaces, NewSpace(x) \/ DeleteSpace(x) \/ ResetSpace(x)
        PROVE  RegionInv'
    BY <2>6, NewSpaceKeeps, DeleteSpaceKeeps, ResetSpaceKeeps
  <2>7. ASSUME NEW x \in Spaces, NEW from \in Spaces,
               \/ Clone(x, from) \/ CopySpace(x, from)
               \/ AssignSpace(x, from) \/ CopyInto(x, from)
        PROVE  RegionInv'
    BY <2>7, CloneKeeps, CopySpaceKeeps, AssignSpaceKeeps DEF CopyInto
  <2> QED
    BY <2>1, <2>2, <2>3, <2>4, <2>5, <2>6, <2>7 DEF RegionNext
<1> QED
  BY NothingSound, <1>1, PTL DEF RegionSpec

\* A window is in as many lists as it should be.
LEMMA PlacesOf ==
  ASSUME Sound(mem), NEW m \in Mirror
  PROVE  LET places == {rk \in Live \X (1 .. MaxList) :
                          rk[2] <= Len(mem.region[rk[1]].list) /\ mem.region[rk[1]].list[rk[2]] = m}
         IN  Cardinality(places) = IF mem.mirrors[m] = NoWindow THEN 0 ELSE 1
<1> DEFINE At(rk) == rk[2] <= Len(mem.region[rk[1]].list) /\ mem.region[rk[1]].list[rk[2]] = m
           places == {rk \in Live \X (1 .. MaxList) : At(rk)}
<1>0. mem \in Memory /\ m # Null
  BY DEF Sound, Mirror, Null
<1>1. ASSUME NEW rk \in places
      PROVE  /\ rk[1] \in Region /\ rk = <<rk[1], rk[2]>>
             /\ rk[2] \in DOMAIN mem.region[rk[1]].list /\ mem.region[rk[1]].list[rk[2]] = m
  <2>1. rk[1] \in Region /\ rk = <<rk[1], rk[2]>> /\ rk[2] \in 1 .. MaxList /\ At(rk)
    BY DEF Live
  <2> QED
    BY <2>1, <1>0, RegionParts, BoundsAssumption
<1>2. ASSUME NEW rk \in places
      PROVE  mem.mirrors[m] # NoWindow
  <2>1. RegionOK(mem, rk[1])
    BY <1>1 DEF Sound
  <2> HIDE DEF places
  <2> QED
    BY <1>0, <1>1, <2>1, WindowOKIsOne DEF RegionOK, ListOK
<1>3. CASE mem.mirrors[m] = NoWindow
  <2>1. places = {}
    BY <1>2, <1>3
  <2> QED
    BY <1>3, <2>1, FS_EmptySet
<1>4. CASE mem.mirrors[m] # NoWindow
  <2>1. PICK r \in Region : \E k \in DOMAIN mem.region[r].list : mem.region[r].list[k] = m
    BY <1>4 DEF Sound, ListedIn
  <2>2. PICK k \in DOMAIN mem.region[r].list : mem.region[r].list[k] = m
    BY <2>1
  <2>3. RegionOK(mem, r) /\ \A q \in Region : Apart(mem, r, q)
    BY DEF Sound
  <2>4. mem.region[r].alive
    BY <2>2, <2>3, <1>0 DEF RegionOK, CountOK, NoRegion
  <2>5. k \in 1 .. Len(mem.region[r].list) /\ Len(mem.region[r].list) \in Nat
    BY <1>0, <2>2, RegionParts
  <2>6. k \in 1 .. MaxList
    BY <2>3, <2>5, BoundsAssumption DEF RegionOK, ListOK
  <2>7. <<r, k>> \in places
    BY <2>2, <2>4, <2>5, <2>6 DEF Live
  <2>8. ASSUME NEW rk \in places
        PROVE  rk = <<r, k>>
    <3> HIDE DEF places
    <3>1. rk[1] = r /\ rk[2] = k
      BY <1>0, <1>1, <2>2, <2>3 DEF Apart
    <3> QED
      BY <3>1, <1>1
  <2>9. places = {<<r, k>>}
    <3> HIDE DEF places
    <3> QED
      BY <2>7, <2>8
  <2> HIDE DEF places
  <2>10. Cardinality(places) = 1
    BY <2>9, FS_Singleton
  <2> QED
    BY <1>4, <2>10 DEF places
<1> QED
  BY <1>3, <1>4

\* However regions are copied, moved, assigned, reset and deleted, and spaces cloned,
\* copied and assigned, for any number of regions, blocks and windows of any size: no
\* memory is given back twice, none is lost, no window outlives the items it shows,
\* and what a region hands out is each of its present items once, in order.
THEOREM RegionsKept == RegionSpec => []RegionsHold
<1>1. RegionInv => RegionsHold
  <2> SUFFICES ASSUME RegionInv PROVE RegionsHold
    OBVIOUS
  <2>0. Sound(mem) /\ mem \in Memory /\ ~mem.fault
    BY DEF RegionInv, Sound
  <2>1. \A r \in Live : r \in Region /\ RegionOK(mem, r) /\ mem.region[r].count \in Nat
    BY <2>0, RegionParts DEF Live, Sound
  <2>2. ASSUME NEW b \in Block, mem.heap[b] # Free
        PROVE  \E r \in Live : /\ mem.region[r].data = b /\ mem.region[r].count = mem.heap[b]
                               /\ \A q \in Region \ {r} : mem.region[q].data # b
    <3>1. PICK r \in Region : mem.region[r].data = b
      BY <2>0, <2>2 DEF Sound, Owned
    <3>2. b # Null
      BY DEF Block, Null
    <3>3. RegionOK(mem, r) /\ \A q \in Region : Apart(mem, r, q)
      BY <2>0 DEF Sound
    <3>4. mem.region[r].alive /\ mem.region[r].count = mem.heap[b]
      BY <3>1, <3>2, <3>3 DEF RegionOK, CountOK, NoRegion
    <3>5. \A q \in Region \ {r} : mem.region[q].data # b
      BY <3>1, <3>2, <3>3 DEF Apart
    <3> QED
      BY <3>1, <3>4, <3>5 DEF Live
  <2>3. \A r \in Live : mem.region[r].data # Null => mem.heap[mem.region[r].data] # Free
    BY <2>1 DEF RegionOK, CountOK, Free
  <2>4. \A m \in Mirror :
          LET places == {rk \in Live \X (1 .. MaxList) :
                           rk[2] <= Len(mem.region[rk[1]].list) /\ mem.region[rk[1]].list[rk[2]] = m}
          IN  Cardinality(places) = IF mem.mirrors[m] = NoWindow THEN 0 ELSE 1
    BY <2>0, PlacesOf
  <2>5. WindowsInOwnBlock
    BY <2>1 DEF WindowsInOwnBlock, RegionOK, ListOK, WindowOK
  <2>6. OneOwner
    BY <2>0, <2>2, <2>3, <2>4, <2>5 DEF OneOwner
  <2>7. HandedOutInOrder
    <3> SUFFICES ASSUME NEW r \in Live
                 PROVE  /\ \A k \in DOMAIN handed[r] :
                             /\ handed[r][k].count > 0
                             /\ handed[r][k].index = IF k = 1 THEN 0 ELSE handed[r][k - 1].index + handed[r][k - 1].count
                        /\ mem.region[r].data # Null =>
                             mem.region[r].index = IF handed[r] = <<>> THEN 0
                                                   ELSE Last(handed[r]).index + Last(handed[r]).count
      BY DEF HandedOutInOrder
    <3>1. HandedOK(mem, handed[r], r)
      BY DEF RegionInv, Live
    <3> QED
      BY <3>1 DEF HandedOK, InOrder, Upto
  <2> QED
    BY <2>6, <2>7 DEF RegionsHold
<1> QED
  BY <1>1, RegionInvariant, PTL

-----------------------------------------------------------------------------
(* ART's files.  How often an iteration corrects a value of the image is   *)
(* counted ray by ray: a turn is a ray and a slice.                        *)

Turn == (Proj \X Col) \X Slice
Traced1(ray) == calc_dist(Points(theta[ray[1]], ray[2]))
Corrects(turn, k) == LET segs == Traced1(turn[1]) IN
                     SumDist2(segs) # 0 /\ k \in OnRay(segs, turn[2])

\* The turns of an iteration before one.
Before(pp, dd, ss) ==
  {turn \in Turn : \/ turn[1][1] < pp
                   \/ /\ turn[1][1] = pp
                      /\ turn[1][2] < dd \/ (turn[1][2] = dd /\ turn[2] < ss)}

Count(T, k) == Cardinality({turn \in T : Corrects(turn, k)})
Whole(k) == Count(Turn, k)

Voxel == 0 .. ReconSize - 1
Value == [from : {"garbage", "checkpoint"}, rays : Seq(Int)]

\* Where the image came from, once the checkpoint is read.
Origin == IF path = "none" THEN "garbage" ELSE "checkpoint"

\* How many corrections a value has had.
Calls == outer * NumIter
Had(k) == CASE apc \in {"read", "swap", "failed"} -> 0
            [] apc \in {"outer", "end"} -> Calls * Whole(k)
            [] apc \in {"iterate", "write", "unwritten"} -> (Calls + iter) * Whole(k)
            [] apc = "trace" -> (Calls + iter) * Whole(k) + Count(Before(p, d, 0), k)
            [] apc = "slices" -> (Calls + iter) * Whole(k) + Count(Before(p, d, s), k)

LoopsOK ==
  /\ apc \in {"read", "swap", "outer", "iterate", "trace", "slices", "write", "end",
             "failed", "unwritten"}
  /\ path \in Paths
  /\ outer \in 0 .. NumOuterIter /\ iter \in Nat
  /\ p \in Proj /\ d \in Col /\ s \in 0 .. NumSlices
  /\ apc \in {"read", "swap", "failed"} => outer = 0
  /\ apc \in {"iterate", "trace", "slices"} => iter < NumIter
  /\ apc \in {"write", "unwritten"} => iter = NumIter
  /\ apc \in {"iterate", "trace", "slices", "write"} => outer < NumOuterIter
  /\ apc = "slices" => indi = Traced1(<<p, d>>)

ImageOK ==
  /\ recon \in [Voxel -> Value]
  /\ \A k \in Voxel : Len(recon[k].rays) = Had(k)
  /\ \A k \in Voxel : recon[k].from = IF apc \in {"read", "failed"} THEN "garbage" ELSE Origin

\* A file is the image after a call, with all the corrections of the calls before it.
FileOK(f) ==
  /\ f[2] \in Nat /\ f[2] < outer /\ f = <<OutputName[1], f[2]>>
  /\ files[f].image \in [Voxel -> Value]
  /\ \A k \in Voxel :
       /\ files[f].image[k].from = Origin
       /\ IsPrefix(files[f].image[k].rays, recon[k].rays)
       /\ Len(files[f].image[k].rays) = ((f[2] + 1) * NumIter) * Whole(k)

FilesOK ==
  /\ apc \in {"read", "failed"} => DOMAIN files = {}
  /\ \A f \in DOMAIN files : FileOK(f)
  /\ \A f, g \in DOMAIN files : g[2] < f[2] =>
       \A k \in Voxel : IsPrefix(files[g].image[k].rays, files[f].image[k].rays)

ArtInv == LoopsOK /\ ImageOK /\ FilesOK

-----------------------------------------------------------------------------
LEMMA PrefixOfItself ==
  ASSUME NEW S, NEW q \in Seq(S)
  PROVE  IsPrefix(q, q)
BY LenProperties DEF IsPrefix

LEMMA PrefixGrows ==
  ASSUME NEW S, NEW q \in Seq(S), NEW r \in Seq(S), NEW e \in S, IsPrefix(q, r)
  PROVE  IsPrefix(q, Append(r, e))
<1>1. /\ Len(q) \in Nat /\ Len(r) \in Nat /\ Len(q) <= Len(r)
      /\ Append(r, e) \in Seq(S) /\ Len(Append(r, e)) = Len(r) + 1
      /\ \A i \in 1 .. Len(r) : Append(r, e)[i] = r[i]
  BY LenProperties, AppendProperties DEF IsPrefix
<1>2. SubSeq(Append(r, e), 1, Len(q)) = SubSeq(r, 1, Len(q))
  BY <1>1
<1> QED
  BY <1>1, <1>2 DEF IsPrefix

LEMMA TurnsFinite == IsFiniteSet(Turn)
<1>1. 0 \in Int /\ NumProjs - 1 \in Int /\ NumCols - 1 \in Int /\ NumSlices - 1 \in Int
  BY SizesAssumption
<1>2. IsFiniteSet(Proj) /\ IsFiniteSet(Col) /\ IsFiniteSet(Slice)
  BY <1>1, FS_Interval DEF Proj, Col, Slice
<1>3. IsFiniteSet(Proj \X Col)
  BY <1>2, FS_Product
<1> QED
  BY <1>2, <1>3, FS_Product DEF Turn

LEMMA Counts ==
  ASSUME NEW k, NEW T \in SUBSET Turn
  PROVE  Count(T, k) \in Nat /\ IsFiniteSet({turn \in T : Corrects(turn, k)})
<1>1. {turn \in T : Corrects(turn, k)} \in SUBSET Turn
  OBVIOUS
<1>2. IsFiniteSet({turn \in T : Corrects(turn, k)})
  BY <1>1, TurnsFinite, FS_Subset
<1> QED
  BY <1>2, FS_CardinalityType DEF Count

\* The turn under way is counted once.
LEMMA CountsOne ==
  ASSUME NEW k, NEW pp \in Proj, NEW dd \in Col, NEW ss \in Slice
  PROVE  Count(Before(pp, dd, ss + 1), k) =
           Count(Before(pp, dd, ss), k) + (IF Corrects(<<<<pp, dd>>, ss>>, k) THEN 1 ELSE 0)
<1> DEFINE x == <<<<pp, dd>>, ss>>
           old == {turn \in Before(pp, dd, ss) : Corrects(turn, k)}
           new == {turn \in Before(pp, dd, ss + 1) : Corrects(turn, k)}
<1>1. x \in Turn /\ x[1][1] = pp /\ x[1][2] = dd /\ x[2] = ss
  BY DEF Turn
<1>2. ASSUME NEW turn \in Turn
      PROVE  /\ turn[1][1] \in Int /\ turn[1][2] \in Int /\ turn[2] \in Int
             /\ turn = <<<<turn[1][1], turn[1][2]>>, turn[2]>>
  BY DEF Turn, Proj, Col, Slice
<1>3. ss \in Int /\ pp \in Int /\ dd \in Int
  BY DEF Proj, Col, Slice
<1>4. x \notin Before(pp, dd, ss) /\ x \in Before(pp, dd, ss + 1)
  <2> HIDE DEF x
  <2> QED
    BY <1>1, <1>3 DEF Before
<1>5. \A turn \in Turn : turn \in Before(pp, dd, ss + 1) <=> turn \in Before(pp, dd, ss) \/ turn = x
  BY <1>2, <1>3 DEF Before
<1>6. new = IF Corrects(x, k) THEN old \cup {x} ELSE old
  <2> HIDE DEF x
  <2>1. \A turn : turn \in Before(pp, dd, ss + 1) => turn \in Turn
    BY DEF Before
  <2>2. \A turn : turn \in Before(pp, dd, ss) => turn \in Turn
    BY DEF Before
  <2> QED
    BY <1>1, <1>5, <2>1, <2>2
<1>7. IsFiniteSet(old) /\ Cardinality(old) \in Nat
  <2>1. Before(pp, dd, ss) \in SUBSET Turn
    BY DEF Before
  <2> QED
    BY <2>1, Counts DEF Count
<1>8. x \notin old
  BY <1>4
<1> HIDE DEF x, old, new
<1>9. Cardinality(new) = Cardinality(old) + (IF Corrects(x, k) THEN 1 ELSE 0)
  <2>1. CASE Corrects(x, k)
    <3>1. Cardinality(old \cup {x}) = Cardinality(old) + 1
      BY <1>7, <1>8, FS_AddElement
    <3> QED
      BY <2>1, <3>1, <1>6
  <2>2. CASE ~Corrects(x, k)
    BY <2>2, <1>6, <1>7
  <2> QED
    BY <2>1, <2>2
<1> QED
  BY <1>9 DEF Count, x, old, new

\* When no turn between counts, none is counted.
LEMMA CountsNone ==
  ASSUME NEW k, NEW T \in SUBSET Turn, NEW U \in SUBSET Turn, T \subseteq U,
         \A turn \in U \ T : ~Corrects(turn, k)
  PROVE  Count(U, k) = Count(T, k)
<1>1. {turn \in U : Corrects(turn, k)} = {turn \in T : Corrects(turn, k)}
  OBVIOUS
<1> QED
  BY <1>1 DEF Count

\* An iteration begins before all turns and ends after them.
LEMMA WholeIteration ==
  /\ \A k : Count(Before(0, 0, 0), k) = 0
  /\ Before(NumProjs, 0, 0) = Turn
  /\ \A pp \in Proj : Before(pp, NumCols, 0) = Before(pp + 1, 0, 0)
<1>1. ASSUME NEW turn \in Turn
      PROVE  /\ turn[1][1] \in Nat /\ turn[1][1] < NumProjs
             /\ turn[1][2] \in Nat /\ turn[1][2] < NumCols /\ turn[2] \in Nat
  BY SizesAssumption DEF Turn, Proj, Col, Slice
<1>2. Before(0, 0, 0) = {}
  BY <1>1 DEF Before
<1>3. \A k : Count(Before(0, 0, 0), k) = 0
  BY <1>2, FS_EmptySet DEF Count
<1>4. Before(NumProjs, 0, 0) = Turn
  BY <1>1 DEF Before
<1>5. ASSUME NEW pp \in Proj
      PROVE  Before(pp, NumCols, 0) = Before(pp + 1, 0, 0)
  <2>1. pp \in Int
    BY DEF Proj
  <2> QED
    BY <1>1, <2>1 DEF Before
<1> QED
  BY <1>3, <1>4, <1>5

\* A ray whose slices are done, or that has no segments, is behind.
LEMMA NextRay ==
  ASSUME NEW k, NEW pp \in Proj, NEW dd \in Col, NEW ss \in 0 .. NumSlices,
         ss = NumSlices \/ SumDist2(Traced1(<<pp, dd>>)) = 0
  PROVE  Count(Before(pp, dd + 1, 0), k) = Count(Before(pp, dd, ss), k)
<1>1. ASSUME NEW turn \in Turn
      PROVE  /\ turn[1][1] \in Nat /\ turn[1][2] \in Nat /\ turn[2] \in Nat /\ turn[2] < NumSlices
             /\ turn[1] = <<turn[1][1], turn[1][2]>>
  BY SizesAssumption DEF Turn, Proj, Col, Slice
<1>2. pp \in Nat /\ dd \in Nat /\ ss \in Nat /\ ss <= NumSlices /\ NumSlices \in Nat
  BY SizesAssumption DEF Proj, Col
<1>3. Before(pp, dd, ss) \subseteq Before(pp, dd + 1, 0)
  BY <1>1, <1>2 DEF Before
<1>4. ASSUME NEW turn \in Before(pp, dd + 1, 0) \ Before(pp, dd, ss)
      PROVE  ~Corrects(turn, k)
  <2>0. turn \in Turn
    BY DEF Before
  <2>1. turn[1][1] = pp /\ turn[1][2] = dd /\ ~(turn[2] < ss)
    BY <2>0, <1>1, <1>2 DEF Before
  <2>2. turn[1] = <<pp, dd>> /\ ss # NumSlices
    BY <2>0, <2>1, <1>1
  <2> QED
    BY <2>2 DEF Corrects
<1>5. Before(pp, dd, ss) \in SUBSET Turn /\ Before(pp, dd + 1, 0) \in SUBSET Turn
  BY DEF Before
<1> QED
  BY <1>3, <1>4, <1>5, CountsNone

\* The angles and the centre of a scan do not change, and so neither does what a ray corrects.
LEMMA Steady ==
  ASSUME UNCHANGED <<theta, center>>
  PROVE  /\ \A ray : Traced1(ray)' = Traced1(ray)
         /\ \A turn, k : Corrects(turn, k)' <=> Corrects(turn, k)
<1>1. \A ray : Traced1(ray)' = Traced1(ray)
  BY DEF Traced1, Points, AYi, preprocessing
<1> QED
  BY <1>1 DEF Corrects

LEMMA SteadyCounts ==
  ASSUME UNCHANGED <<theta, center>>
  PROVE  \A k : /\ Whole(k)' = Whole(k)
                /\ Count(Before(p, d, 0), k)' = Count(Before(p', d', 0), k)
                /\ Count(Before(p, d, s), k)' = Count(Before(p', d', s'), k)
BY Steady DEF Whole, Count, Before

LEMMA HadNext ==
  ASSUME UNCHANGED <<theta, center>>, NEW k
  PROVE  Had(k)' = CASE apc' \in {"read", "swap", "failed"} -> 0
                     [] apc' \in {"outer", "end"} -> (outer' * NumIter) * Whole(k)
                     [] apc' \in {"iterate", "write", "unwritten"} -> (outer' * NumIter + iter') * Whole(k)
                     [] apc' = "trace" -> (outer' * NumIter + iter') * Whole(k)
                                            + Count(Before(p', d', 0), k)
                     [] apc' = "slices" -> (outer' * NumIter + iter') * Whole(k)
                                            + Count(Before(p', d', s'), k)
<1>1. /\ Whole(k)' = Whole(k)
      /\ Count(Before(p, d, 0), k)' = Count(Before(p', d', 0), k)
      /\ Count(Before(p, d, s), k)' = Count(Before(p', d', s'), k)
  BY SteadyCounts
<1> QED
  BY <1>1 DEF Had, Calls

LEMMA Wholes == \A k : Whole(k) \in Nat
BY Counts DEF Whole

LEMMA VoxelsExist == ReconSize \in Nat /\ 0 \in Voxel
<1>1. NumSlices \in Nat \ {0} /\ NumCols \in Nat \ {0}
  BY SizesAssumption
<1>2. \A a, b \in Nat \ {0} : a * b \in Nat \ {0}
  OBVIOUS
<1>3. ReconSize \in Nat \ {0}
  BY <1>1, <1>2 DEF ReconSize
<1> QED
  BY <1>3 DEF Voxel

\* An action between two corrections keeps the image and the files.
LEMMA ImageStays ==
  ASSUME ArtInv, LoopsOK', UNCHANGED <<theta, center, path, recon, files>>, outer' = outer,
         apc \notin {"read", "failed"}, apc' \notin {"read", "failed"},
         \A k \in Voxel : Had(k)' = Had(k)
  PROVE  ArtInv'
<1>1. Origin' = Origin /\ OutputName' = OutputName
  BY DEF Origin, OutputName
<1>2. ImageOK'
  <2>1. \A k \in Voxel : Len(recon'[k].rays) = Had(k)'
    BY DEF ArtInv, ImageOK
  <2>2. recon' \in [Voxel -> Value] /\ \A k \in Voxel : recon'[k].from = Origin'
    BY <1>1 DEF ArtInv, ImageOK
  <2> QED
    BY <2>1, <2>2 DEF ImageOK, Voxel
<1>3. FilesOK'
  BY <1>1, Steady, SteadyCounts DEF ArtInv, FilesOK, FileOK
<1> QED
  BY <1>2, <1>3 DEF ArtInv

LEMMA InitHolds == ASSUME ArtInit PROVE ArtInv
<1>1. LoopsOK
  BY SizesAssumption, IterationsAssumption DEF ArtInit, LoopsOK, Proj, Col
<1>2. recon \in [Voxel -> Value] /\ \A k \in Voxel : recon[k].rays = <<>> /\ recon[k].from = "garbage"
  BY DEF ArtInit, Image, Voxel, Value
<1>3. \A k \in Voxel : Len(recon[k].rays) = Had(k)
  BY <1>2 DEF ArtInit, Had
<1>4. DOMAIN files = {}
  BY DEF ArtInit
<1> QED
  BY <1>1, <1>2, <1>3, <1>4 DEF ArtInv, ImageOK, FilesOK, ArtInit

LEMMA ReadCheckPointKeeps ==
  ASSUME ArtInv, UNCHANGED <<theta, center>>, ReadCheckPoint PROVE ArtInv'
<1>1. /\ apc = "read" /\ apc' \in {"swap", "failed"} /\ DOMAIN files = {}
      /\ UNCHANGED <<path, outer, iter, p, d, s, indi, files>>
  BY DEF ReadCheckPoint, Goto, loops, ArtInv, FilesOK
<1>2. LoopsOK'
  BY <1>1 DEF ArtInv, LoopsOK
<1>3. \A k \in Voxel : Len(recon[k].rays) = 0 /\ recon[k].from = "garbage"
  BY <1>1 DEF ArtInv, ImageOK, Had
<1>4. \/ path = "with recon" /\ recon' = Image("checkpoint") /\ apc' = "swap"
      \/ path = "none" /\ recon' = recon /\ apc' = "swap"
      \/ apc' = "failed" /\ recon' = recon
  BY DEF ReadCheckPoint, Goto
<1>5. recon' \in [Voxel -> Value] /\ \A k \in Voxel : Len(recon'[k].rays) = 0
  <2>1. CASE recon' = Image("checkpoint")
    BY <2>1 DEF Image, Voxel, Value
  <2>2. CASE recon' = recon
    BY <2>2, <1>3 DEF ArtInv, ImageOK
  <2> QED
    BY <2>1, <2>2, <1>4
<1>6. \A k \in Voxel : Had(k)' = 0
  BY <1>1, HadNext
<1>7. \A k \in Voxel : recon'[k].from = IF apc' = "failed" THEN "garbage" ELSE Origin'
  <2>1. CASE path = "with recon" /\ recon' = Image("checkpoint") /\ apc' = "swap"
    BY <2>1, <1>1 DEF Image, Voxel, Origin
  <2>2. CASE path = "none" /\ recon' = recon /\ apc' = "swap"
    BY <2>2, <1>1, <1>3 DEF Origin
  <2>3. CASE apc' = "failed" /\ recon' = recon
    BY <2>3, <1>3
  <2> QED
    BY <2>1, <2>2, <2>3, <1>4
<1>8. ImageOK'
  BY <1>1, <1>5, <1>6, <1>7 DEF ImageOK, Voxel
<1>9. FilesOK'
  BY <1>1 DEF FilesOK
<1> QED
  BY <1>2, <1>8, <1>9 DEF ArtInv

LEMMA SwapDimensionsKeeps ==
  ASSUME ArtInv, UNCHANGED <<theta, center>>, SwapDimensions PROVE ArtInv'
<1>1. /\ apc = "swap" /\ apc' = "outer" /\ outer = 0
      /\ UNCHANGED <<path, outer, iter, p, d, s, indi, recon, files>>
  BY DEF SwapDimensions, Goto, loops, ArtInv, LoopsOK
<1>2. LoopsOK'
  BY <1>1 DEF ArtInv, LoopsOK
<1>3. ASSUME NEW k \in Voxel
      PROVE  Had(k)' = Had(k)
  <2>1. Had(k)' = (0 * NumIter) * Whole(k)
    BY <1>1, HadNext
  <2>2. Had(k)' = 0
    BY <2>1, Wholes, IterationsAssumption
  <2> QED
    BY <2>2, <1>1 DEF Had
<1> QED
  BY <1>1, <1>2, <1>3, ImageStays

LEMMA CallArtKeeps ==
  ASSUME ArtInv, UNCHANGED <<theta, center>>, CallArt PROVE ArtInv'
<1>1. /\ apc = "outer" /\ iter' = 0
      /\ apc' = IF outer = NumOuterIter THEN "end" ELSE IF NumIter = 0 THEN "write" ELSE "iterate"
      /\ UNCHANGED <<path, outer, p, d, s, indi, recon, files>>
  BY DEF CallArt, Goto
<1>2. LoopsOK'
  BY <1>1, IterationsAssumption DEF ArtInv, LoopsOK
<1>3. ASSUME NEW k \in Voxel
      PROVE  Had(k)' = Had(k)
  <2>1. outer * NumIter \in Nat /\ Whole(k) \in Nat
    BY Wholes, IterationsAssumption DEF ArtInv, LoopsOK
  <2>2. (outer * NumIter + 0) * Whole(k) = (outer * NumIter) * Whole(k)
    BY <2>1
  <2>3. Had(k)' = (outer * NumIter) * Whole(k)
    BY <1>1, <2>2, HadNext
  <2> QED
    BY <2>3, <1>1 DEF Had, Calls
<1> QED
  BY <1>1, <1>2, <1>3, ImageStays

LEMMA IterateKeeps ==
  ASSUME ArtInv, UNCHANGED <<theta, center>>, Iterate PROVE ArtInv'
<1>1. /\ apc = "iterate" /\ p' = 0 /\ d' = 0 /\ apc' = "trace"
      /\ UNCHANGED <<path, outer, iter, s, indi, recon, files>>
  BY DEF Iterate, Goto
<1>2. LoopsOK'
  BY <1>1, SizesAssumption DEF ArtInv, LoopsOK, Proj, Col
<1>3. ASSUME NEW k \in Voxel
      PROVE  Had(k)' = Had(k)
  <2>1. (outer * NumIter + iter) * Whole(k) \in Nat
    BY Wholes, IterationsAssumption DEF ArtInv, LoopsOK
  <2>2. Had(k)' = (outer * NumIter + iter) * Whole(k) + Count(Before(0, 0, 0), k)
    BY <1>1, HadNext
  <2>3. Count(Before(0, 0, 0), k) = 0
    BY WholeIteration
  <2> QED
    BY <2>1, <2>2, <2>3, <1>1 DEF Had, Calls
<1> QED
  BY <1>1, <1>2, <1>3, ImageStays

LEMMA TraceKeeps ==
  ASSUME ArtInv, UNCHANGED <<theta, center>>, Trace PROVE ArtInv'
<1>1. /\ apc = "trace" /\ indi' = Traced1(<<p, d>>) /\ s' = 0 /\ apc' = "slices"
      /\ UNCHANGED <<path, outer, iter, p, d, recon, files>>
  BY DEF Trace, Goto, Traced1
<1>2. LoopsOK'
  <2>1. Traced1(<<p, d>>)' = Traced1(<<p', d'>>)
    BY Steady DEF Traced1, Points, AYi, preprocessing
  <2>2. indi' = Traced1(<<p, d>>)'
    BY <1>1, <2>1
  <2> QED
    BY <1>1, <2>2, SizesAssumption DEF ArtInv, LoopsOK
<1>3. ASSUME NEW k \in Voxel
      PROVE  Had(k)' = Had(k)
  <2>1. Had(k)' = (outer * NumIter + iter) * Whole(k) + Count(Before(p, d, 0), k)
    BY <1>1, HadNext
  <2> QED
    BY <2>1, <1>1 DEF Had, Calls
<1> QED
  BY <1>1, <1>2, <1>3, ImageStays

\* A correction is counted, and only adds to what files carry.
LEMMA UpdateSliceKeeps ==
  ASSUME ArtInv, UNCHANGED <<theta, center>>, UpdateSlice PROVE ArtInv'
<1> DEFINE k0 == DataIndex(p, s, d)
<1>1. /\ apc = "slices" /\ apc' = "slices" /\ SumDist2(indi) # 0 /\ s < NumSlices /\ s' = s + 1
      /\ recon' = [m \in DOMAIN recon |->
                     IF m \in OnRay(indi, s) THEN [recon[m] EXCEPT !.rays = Append(@, k0)] ELSE recon[m]]
      /\ UNCHANGED <<path, outer, iter, p, d, indi, files>>
  BY DEF UpdateSlice
<1>2. /\ p \in Proj /\ d \in Col /\ s \in Slice /\ s \in Nat /\ indi = Traced1(<<p, d>>)
      /\ outer \in Nat /\ iter \in Nat
  BY <1>1, SizesAssumption, IterationsAssumption DEF ArtInv, LoopsOK, Slice
<1>3. k0 \in Int
  BY <1>2, SizesAssumption DEF DataIndex, Proj, Col
<1> HIDE DEF k0
<1>4. LoopsOK'
  <2>1. Traced1(<<p, d>>)' = indi
    BY <1>1, <1>2, Steady
  <2>2. indi' = Traced1(<<p, d>>)'
    BY <1>1, <2>1
  <2>3. s' \in 0 .. NumSlices
    BY <1>1, <1>2, SizesAssumption
  <2> QED
    BY <1>1, <2>2, <2>3 DEF ArtInv, LoopsOK
<1>5. ASSUME NEW m \in Voxel
      PROVE  /\ recon'[m] \in Value /\ recon'[m].from = recon[m].from
             /\ recon'[m].rays = IF Corrects(<<<<p, d>>, s>>, m) THEN Append(recon[m].rays, k0)
                                 ELSE recon[m].rays
  <2>1. recon[m] \in Value /\ m \in DOMAIN recon
    BY DEF ArtInv, ImageOK
  <2>2. Corrects(<<<<p, d>>, s>>, m) <=> m \in OnRay(indi, s)
    BY <1>1, <1>2 DEF Corrects
  <2>3. CASE m \in OnRay(indi, s)
    <3>1. recon'[m] = [recon[m] EXCEPT !.rays = Append(recon[m].rays, k0)]
      BY <1>1, <2>1, <2>3
    <3>2. Append(recon[m].rays, k0) \in Seq(Int)
      BY <2>1, <1>3, AppendProperties DEF Value
    <3> QED
      BY <2>1, <2>2, <2>3, <3>1, <3>2 DEF Value
  <2>4. CASE m \notin OnRay(indi, s)
    BY <1>1, <2>1, <2>2, <2>4
  <2> QED
    BY <2>3, <2>4
<1>6. recon' \in [Voxel -> Value]
  <2>1. DOMAIN recon = Voxel
    BY DEF ArtInv, ImageOK
  <2>2. recon' = [m \in Voxel |-> recon'[m]]
    BY <1>1, <2>1
  <2> QED
    BY <1>5, <2>2
<1>7. ASSUME NEW m \in Voxel
      PROVE  Len(recon'[m].rays) = Had(m)'
  <2>1. recon[m].rays \in Seq(Int) /\ Len(recon[m].rays) = Had(m) /\ Len(recon[m].rays) \in Nat
    BY LenProperties DEF ArtInv, ImageOK, Value
  <2>2. Len(recon'[m].rays) = Len(recon[m].rays) + (IF Corrects(<<<<p, d>>, s>>, m) THEN 1 ELSE 0)
    <3>1. Len(Append(recon[m].rays, k0)) = Len(recon[m].rays) + 1
      BY <2>1, <1>3, AppendProperties
    <3>2. CASE Corrects(<<<<p, d>>, s>>, m)
      BY <3>1, <3>2, <1>5
    <3>3. CASE ~Corrects(<<<<p, d>>, s>>, m)
      <4>1. recon'[m].rays = recon[m].rays
        BY <3>3, <1>5
      <4>2. Len(recon[m].rays) + 0 = Len(recon[m].rays)
        BY <2>1
      <4> QED
        BY <3>3, <4>1, <4>2
    <3> QED
      BY <3>2, <3>3
  <2>3. Count(Before(p, d, s + 1), m) =
          Count(Before(p, d, s), m) + (IF Corrects(<<<<p, d>>, s>>, m) THEN 1 ELSE 0)
    BY <1>2, CountsOne
  <2>4. Had(m) = (outer * NumIter + iter) * Whole(m) + Count(Before(p, d, s), m)
    BY <1>1 DEF Had, Calls
  <2>5. Had(m)' = (outer * NumIter + iter) * Whole(m) + Count(Before(p, d, s + 1), m)
    BY <1>1, HadNext
  <2>6. Count(Before(p, d, s), m) \in Nat
    <3>1. Before(p, d, s) \in SUBSET Turn
      BY DEF Before
    <3> QED
      BY <3>1, Counts
  <2>7. (outer * NumIter + iter) * Whole(m) \in Nat
    BY <1>2, Wholes, IterationsAssumption
  <2> QED
    BY <2>1, <2>2, <2>3, <2>4, <2>5, <2>6, <2>7
<1>8. Origin' = Origin /\ OutputName' = OutputName
  BY <1>1 DEF Origin, OutputName
<1>9. ImageOK'
  <2>1. \A m \in Voxel : recon'[m].from = Origin'
    BY <1>1, <1>5, <1>8 DEF ArtInv, ImageOK
  <2> QED
    BY <1>1, <1>6, <1>7, <2>1 DEF ImageOK, Voxel
<1>10. ASSUME NEW f \in DOMAIN files
       PROVE  FileOK(f)'
  <2>1. FileOK(f)
    BY DEF ArtInv, FilesOK
  <2>2. ASSUME NEW m \in Voxel
        PROVE  /\ IsPrefix(files[f].image[m].rays, recon'[m].rays)
               /\ Whole(m)' = Whole(m)
    <3>1. files[f].image[m].rays \in Seq(Int) /\ recon[m].rays \in Seq(Int)
      BY <2>1 DEF FileOK, ArtInv, ImageOK, Value
    <3>2. IsPrefix(files[f].image[m].rays, recon[m].rays)
      BY <2>1 DEF FileOK
    <3>3. IsPrefix(files[f].image[m].rays, Append(recon[m].rays, k0))
      BY <3>1, <3>2, <1>3, PrefixGrows
    <3> QED
      BY <3>2, <3>3, <1>5, SteadyCounts
  <2> QED
    BY <2>1, <2>2, <1>1, <1>8 DEF FileOK, Voxel
<1>11. FilesOK'
  BY <1>1, <1>10 DEF ArtInv, FilesOK, Voxel
<1> QED
  BY <1>4, <1>9, <1>11 DEF ArtInv

LEMMA OneMore == ASSUME NEW a \in Nat, NEW w \in Nat PROVE (a + 1) * w = a * w + w
OBVIOUS

\* The next ray, the next angle, or the end of an iteration: no correction is between.
LEMMA NextArtRayKeeps ==
  ASSUME ArtInv, UNCHANGED <<theta, center>>, NextArtRay PROVE ArtInv'
<1>1. /\ apc = "slices" /\ (SumDist2(indi) = 0 \/ s = NumSlices)
      /\ UNCHANGED <<path, outer, s, indi, recon, files>>
  BY DEF NextArtRay
<1>2. \/ d + 1 < NumCols /\ d' = d + 1 /\ apc' = "trace" /\ UNCHANGED <<iter, p>>
      \/ ~(d + 1 < NumCols) /\ p + 1 < NumProjs /\ d' = 0 /\ p' = p + 1 /\ apc' = "trace" /\ UNCHANGED iter
      \/ /\ ~(d + 1 < NumCols) /\ ~(p + 1 < NumProjs) /\ iter' = iter + 1 /\ UNCHANGED <<p, d>>
         /\ apc' = IF iter + 1 < NumIter THEN "iterate" ELSE "write"
  BY DEF NextArtRay, Goto
<1>3. /\ p \in Proj /\ d \in Col /\ s \in 0 .. NumSlices /\ indi = Traced1(<<p, d>>)
      /\ outer \in Nat /\ iter \in Nat /\ iter < NumIter /\ outer < NumOuterIter
      /\ p \in Nat /\ d \in Nat /\ d < NumCols /\ p < NumProjs
  BY <1>1, SizesAssumption, IterationsAssumption DEF ArtInv, LoopsOK, Proj, Col
<1>4. LoopsOK'
  <2>1. p' \in Proj /\ d' \in Col /\ iter' \in Nat
    BY <1>2, <1>3, SizesAssumption DEF Proj, Col
  <2>2. apc' = "iterate" => iter' < NumIter
    BY <1>2
  <2>3. apc' = "write" => iter' = NumIter
    BY <1>2, <1>3, IterationsAssumption
  <2>4. apc' = "trace" => iter' < NumIter
    BY <1>2, <1>3
  <2>5. apc' \in {"trace", "iterate", "write"}
    BY <1>2
  <2> QED
    BY <1>1, <1>3, <2>1, <2>2, <2>3, <2>4, <2>5 DEF ArtInv, LoopsOK
<1>5. ASSUME NEW k \in Voxel
      PROVE  Had(k)' = Had(k)
  <2> DEFINE a == outer * NumIter + iter
             w == Whole(k)
  <2>1. a \in Nat /\ w \in Nat
    BY <1>3, Wholes, IterationsAssumption
  <2>2. Had(k) = a * w + Count(Before(p, d, s), k)
    BY <1>1 DEF Had, Calls
  <2>3. Count(Before(p, d, s), k) = Count(Before(p, d + 1, 0), k)
    BY <1>1, <1>3, NextRay
  <2>4. CASE d + 1 < NumCols
    <3>1. Had(k)' = a * w + Count(Before(p, d + 1, 0), k)
      BY <1>1, <1>2, <2>4, HadNext
    <3> QED
      BY <2>2, <2>3, <3>1
  <2>5. CASE ~(d + 1 < NumCols)
    <3>1. d + 1 = NumCols
      BY <2>5, <1>3, SizesAssumption
    <3>2. Count(Before(p, d, s), k) = Count(Before(p + 1, 0, 0), k)
      BY <2>3, <3>1, <1>3, WholeIteration
    <3>3. CASE p + 1 < NumProjs
      <4>1. Had(k)' = a * w + Count(Before(p + 1, 0, 0), k)
        BY <1>1, <1>2, <2>5, <3>3, HadNext
      <4> QED
        BY <2>2, <3>2, <4>1
    <3>4. CASE ~(p + 1 < NumProjs)
      <4>1. p + 1 = NumProjs
        BY <3>4, <1>3, SizesAssumption
      <4>2. Count(Before(p, d, s), k) = w
        BY <3>2, <4>1, WholeIteration DEF Whole
      <4>3. Had(k)' = (outer * NumIter + (iter + 1)) * w
        BY <1>1, <1>2, <2>5, <3>4, HadNext
      <4>4. outer * NumIter + (iter + 1) = a + 1
        <5>1. outer * NumIter \in Nat
          BY <1>3, IterationsAssumption
        <5> QED
          BY <5>1, <1>3
      <4> HIDE DEF a, w
      <4>5. (a + 1) * w = a * w + w
        BY <2>1, OneMore
      <4> QED
        BY <2>2, <4>2, <4>3, <4>4, <4>5
    <3> QED
      BY <3>3, <3>4
  <2> QED
    BY <2>4, <2>5
<1>6. apc' \notin {"read", "failed"}
  BY <1>2
<1> QED
  BY <1>1, <1>4, <1>5, <1>6, ImageStays

\* The file of a call is the image after it, and continues the files before it.
LEMMA WriteOutputKeeps ==
  ASSUME ArtInv, UNCHANGED <<theta, center>>, WriteOutput PROVE ArtInv'
<1>1. /\ apc = "write" /\ apc' = "outer" /\ outer' = outer + 1
      /\ files' = [f \in DOMAIN files \cup {OutputName} |->
                     IF f = OutputName THEN [dataset |-> "/data", image |-> recon] ELSE files[f]]
      /\ UNCHANGED <<path, iter, p, d, s, indi, recon>>
  BY DEF WriteOutput, Goto
<1>2. outer \in Nat /\ outer < NumOuterIter /\ iter = NumIter /\ NumIter \in Nat /\ NumOuterIter \in Nat
  BY <1>1, IterationsAssumption DEF ArtInv, LoopsOK
<1>3. LoopsOK'
  BY <1>1, <1>2 DEF ArtInv, LoopsOK
<1>4. ASSUME NEW k \in Voxel
      PROVE  /\ Had(k) = ((outer + 1) * NumIter) * Whole(k)
             /\ Had(k)' = ((outer + 1) * NumIter) * Whole(k)
             /\ Whole(k)' = Whole(k)
  <2>1. (outer + 1) * NumIter = outer * NumIter + NumIter
    BY <1>2, OneMore
  <2> QED
    BY <2>1, <1>1, <1>2, HadNext, SteadyCounts DEF Had, Calls
<1>5. Origin' = Origin /\ OutputName = <<OutputName[1], outer>> /\ OutputName'[1] = OutputName[1]
  BY <1>1 DEF Origin, OutputName
<1>6. /\ recon \in [Voxel -> Value]
      /\ \A k \in Voxel : Len(recon[k].rays) = Had(k) /\ recon[k].from = Origin
  BY <1>1 DEF ArtInv, ImageOK
<1>7. ImageOK'
  BY <1>1, <1>4, <1>5, <1>6 DEF ImageOK, Voxel
<1>8. ASSUME NEW f \in DOMAIN files
      PROVE  FileOK(f) /\ f # OutputName /\ f \in DOMAIN files' /\ files'[f] = files[f]
  <2>1. FileOK(f)
    BY DEF ArtInv, FilesOK
  <2>2. f[2] < outer /\ f[2] \in Nat
    BY <2>1 DEF FileOK
  <2>3. f # OutputName
    BY <2>2, <1>2, <1>5
  <2> QED
    BY <2>1, <2>3, <1>1
<1>9. files'[OutputName].image = recon /\ OutputName[2] = outer
  BY <1>1, <1>5
<1>10. DOMAIN files' = DOMAIN files \cup {OutputName}
  BY <1>1
<1>11. ASSUME NEW f \in DOMAIN files'
       PROVE  FileOK(f)'
  <2>1. CASE f = OutputName
    <3>1. \A k \in Voxel : IsPrefix(recon[k].rays, recon[k].rays)
      BY <1>6, PrefixOfItself DEF Value
    <3>2. f[2] \in Nat /\ f[2] < outer + 1 /\ f = <<OutputName[1], f[2]>>
      BY <2>1, <1>2, <1>5, <1>9
    <3> QED
      BY <2>1, <3>1, <3>2, <1>1, <1>4, <1>5, <1>6, <1>9 DEF FileOK, Voxel
  <2>2. CASE f \in DOMAIN files
    <3>1. f[2] \in Nat /\ f[2] < outer + 1
      BY <2>2, <1>2, <1>8 DEF FileOK
    <3> QED
      BY <2>2, <3>1, <1>1, <1>4, <1>5, <1>8 DEF FileOK, Voxel
  <2> QED
    BY <2>1, <2>2, <1>10
<1>12. ASSUME NEW f \in DOMAIN files', NEW g \in DOMAIN files', g[2] < f[2], NEW k \in Voxel
       PROVE  IsPrefix(files'[g].image[k].rays, files'[f].image[k].rays)
  <2>1. CASE f \in DOMAIN files /\ g \in DOMAIN files
    BY <2>1, <1>8, <1>12 DEF ArtInv, FilesOK
  <2>2. CASE f = OutputName /\ g \in DOMAIN files
    BY <2>2, <1>8, <1>9 DEF FileOK
  <2>3. CASE g = OutputName
    <3>1. f \in DOMAIN files => f[2] < outer /\ f[2] \in Nat
      BY <1>8 DEF FileOK
    <3>2. f = OutputName => f[2] = outer
      BY <1>9
    <3> QED
      BY <2>3, <3>1, <3>2, <1>2, <1>9, <1>10, <1>12
  <2> QED
    BY <2>1, <2>2, <2>3, <1>10
<1>13. FilesOK'
  BY <1>1, <1>11, <1>12 DEF FilesOK, Voxel
<1> QED
  BY <1>3, <1>7, <1>13 DEF ArtInv

\* Without a new file, the files are those of the calls before.
LEMMA CreateFailsKeeps ==
  ASSUME ArtInv, UNCHANGED <<theta, center>>, CreateFails PROVE ArtInv'
<1>1. /\ apc = "write" /\ apc' = "unwritten"
      /\ UNCHANGED <<path, outer, iter, p, d, s, indi, recon, files>>
  BY DEF CreateFails, Goto, loops
<1>2. LoopsOK'
  BY <1>1 DEF ArtInv, LoopsOK
<1>3. \A k \in Voxel : Had(k)' = Had(k)
  BY <1>1, HadNext DEF Had, Calls
<1> QED
  BY <1>1, <1>2, <1>3, ImageStays

LEMMA StutterKeeps ==
  ASSUME ArtInv, UNCHANGED <<theta, center, artVars>> PROVE ArtInv'
<1>1. UNCHANGED <<theta, center, apc, path, outer, iter, p, d, s, indi, recon, files>>
  BY DEF artVars, loops
<1>2. LoopsOK'
  <2>1. apc = "slices" => Traced1(<<p, d>>)' = indi
    BY <1>1, Steady DEF ArtInv, LoopsOK
  <2> QED
    BY <1>1, <2>1 DEF ArtInv, LoopsOK
<1>3. \A k \in Voxel : Had(k)' = Had(k)
  BY <1>1, HadNext DEF Had, Calls
<1>4. CASE apc \in {"read", "failed"}
  <2>1. ImageOK'
    BY <1>1, <1>3, <1>4 DEF ArtInv, ImageOK, Voxel
  <2>2. FilesOK'
    BY <1>1, <1>4 DEF ArtInv, FilesOK
  <2> QED
    BY <1>2, <2>1, <2>2 DEF ArtInv
<1>5. CASE apc \notin {"read", "failed"}
  BY <1>1, <1>2, <1>3, <1>5, ImageStays
<1> QED
  BY <1>4, <1>5

\* art_simple: each value of the image has had as many corrections as rays have crossed
\* it, in as many calls and iterations, and a file is a beginning of what it carries.
THEOREM ArtInvariant == ArtSpec => []ArtInv
<1>1. ArtSpec => ArtInv /\ [][ArtNext /\ UNCHANGED <<theta, center>>]_<<theta, center, artVars>>
  BY InitHolds, PTL DEF ArtSpec
<1>2. ASSUME ArtInv, [ArtNext /\ UNCHANGED <<theta, center>>]_<<theta, center, artVars>> PROVE ArtInv'
  <2>1. CASE ArtNext /\ UNCHANGED <<theta, center>>
    BY <1>2, <2>1, ReadCheckPointKeeps, SwapDimensionsKeeps, CallArtKeeps, IterateKeeps, TraceKeeps,
       UpdateSliceKeeps, NextArtRayKeeps, WriteOutputKeeps, CreateFailsKeeps DEF ArtNext
  <2>2. CASE UNCHANGED <<theta, center, artVars>>
    BY <1>2, <2>2, StutterKeeps
  <2> QED
    BY <1>2, <2>1, <2>2
<1> QED
  BY <1>1, <1>2, PTL

\* What is in the counts of two files: both products are the same.
LEMMA SameProduct ==
  ASSUME NEW a \in Nat, NEW b \in Nat, NEW n \in Nat, NEW w \in Nat
  PROVE  ((a * n) * w) * b = ((b * n) * w) * a
OBVIOUS

\* A file written after a checkpoint was read starts from that checkpoint, and every
\* file carries all the corrections of the files before it, as many for each call.
THEOREM FilesGoOn == ArtSpec => []FilesContinue
<1>1. ASSUME ArtInv PROVE FilesContinue
  <2>1. DOMAIN recon = Voxel
    BY <1>1 DEF ArtInv, ImageOK
  <2>2. ASSUME NEW f \in DOMAIN files
        PROVE  (path # "none") <=> (\A k \in Voxel : files[f].image[k].from = "checkpoint")
    <3>1. \A k \in Voxel : files[f].image[k].from = Origin
      BY <1>1 DEF ArtInv, FilesOK, FileOK
    <3> QED
      BY <3>1, VoxelsExist DEF Origin
  <2>3. ASSUME NEW f \in DOMAIN files, NEW g \in DOMAIN files, g[2] < f[2], NEW k \in Voxel
        PROVE  /\ IsPrefix(files[g].image[k].rays, files[f].image[k].rays)
               /\ Len(files[f].image[k].rays) * (g[2] + 1) = Len(files[g].image[k].rays) * (f[2] + 1)
    <3>1. FileOK(f) /\ FileOK(g) /\ IsPrefix(files[g].image[k].rays, files[f].image[k].rays)
      BY <1>1, <2>3 DEF ArtInv, FilesOK
    <3>2. /\ f[2] + 1 \in Nat /\ Len(files[f].image[k].rays) = ((f[2] + 1) * NumIter) * Whole(k)
          /\ g[2] + 1 \in Nat /\ Len(files[g].image[k].rays) = ((g[2] + 1) * NumIter) * Whole(k)
      BY <3>1 DEF FileOK
    <3>3. Whole(k) \in Nat /\ NumIter \in Nat
      BY Wholes, IterationsAssumption
    <3> DEFINE a == f[2] + 1
               b == g[2] + 1
               w == Whole(k)
    <3>4. a \in Nat /\ b \in Nat /\ w \in Nat
      BY <3>2, <3>3
    <3>5. Len(files[f].image[k].rays) = (a * NumIter) * w /\ Len(files[g].image[k].rays) = (b * NumIter) * w
      BY <3>2
    <3> HIDE DEF a, b, w
    <3>6. ((a * NumIter) * w) * b = ((b * NumIter) * w) * a
      BY <3>3, <3>4, SameProduct
    <3>7. Len(files[f].image[k].rays) * b = Len(files[g].image[k].rays) * a
      BY <3>5, <3>6
    <3> QED
      BY <3>1, <3>7 DEF a, b
  <2> QED
    BY <2>1, <2>2, <2>3 DEF FilesContinue
<1> QED
  BY <1>1, ArtInvariant, PTL
===============================================================================
