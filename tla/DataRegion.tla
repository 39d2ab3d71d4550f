------------------------------ MODULE DataRegion ------------------------------
(***************************************************************************)
(* Who owns which memory.  A data region owns a block of numbers and the   *)
(* mirrored regions it has handed out, windows into that block; a client   *)
(* may construct, copy, move, assign and delete regions in any order.  A   *)
(* 2D region owns one region per row, and a reduction space owns a 2D      *)
(* region and its work buffers; the engine clones the space it is given.   *)
(*                                                                         *)
(* Memory is one record, and every operation of the code an operator from  *)
(* memory to memory, so that an operation that calls others is written as  *)
(* the code writes it.  What the code does to the rows of a 2D region one  *)
(* after the other is done to a set of regions.  Addresses are reused.     *)
(***************************************************************************)
EXTENDS Integers, Sequences, FiniteSets, Functions, SequencesExt

CONSTANTS Names,        \* the variables of a client that hold a region
          Spaces,       \* the reduction spaces
          MaxRows,      \* rows of a 2D region, at most
          MaxCount,     \* items of a region, at most
          MaxBlocks, MaxMirrors, MaxList  \* addresses, and entries of mirrored_regions_

ASSUME BoundsAssumption ==
  {MaxRows, MaxCount, MaxBlocks, MaxMirrors, MaxList} \subseteq Nat \ {0}

\* A region is a variable of a client or a row of a space, never both.
ASSUME NamesAssumption == Names \cap (Spaces \X (1 .. MaxRows)) = {}

Null == 0          \* nullptr
Free == -1         \* a block nothing is allocated at
NoWindow == [data |-> Null, index |-> 0, count |-> 0]   \* the same of a window
Block == 1 .. MaxBlocks
Mirror == 1 .. MaxMirrors
Row == Spaces \X (1 .. MaxRows)
Region == Names \cup Row

VARIABLES mem,      \* heap, mirrors, region: what is at each address, and the regions
          space,    \* space[s]: its rows and columns, or none
          handed    \* handed[r]: the windows handed out of its items since index_ was 0

regionVars == <<mem, space, handed>>

NoRegion == [data |-> Null, count |-> 0, index |-> 0, list |-> <<>>, alive |-> FALSE]
Empty == [NoRegion EXCEPT !.alive = TRUE]
NoSpace == [rows |-> 0, cols |-> 0, alive |-> FALSE]

RegionInit ==
        /\ mem = [heap |-> [b \in Block |-> Free],
                  mirrors |-> [m \in Mirror |-> NoWindow],
                  region |-> [r \in Region |-> NoRegion],
                  fault |-> FALSE]
        /\ space = [s \in Spaces |-> NoSpace]
        /\ handed = [r \in Region |-> <<>>]

FreeBlocks(mm) == {b \in Block : mm.heap[b] = Free}
FreeMirrors(mm) == {m \in Mirror : mm.mirrors[m] = NoWindow}

-----------------------------------------------------------------------------
(***************************************************************************)
(* ADataRegion.                                                            *)
(***************************************************************************)

\* delete [] data_, of every region of R: a fault when there is nothing at the
\* address, or no longer.
DeleteBlocks(mm, R) ==
  LET gone == {mm.region[r].data : r \in R} \ {Null} IN
  [mm EXCEPT !.heap = [b \in Block |-> IF b \in gone THEN Free ELSE mm.heap[b]],
             !.fault = \/ @
                       \/ \E b \in gone : mm.heap[b] = Free
                       \/ \E r, q \in R : r # q /\ mm.region[r].data = mm.region[q].data
                                            /\ mm.region[r].data \in gone]

\* delete of every window in the lists of R.
DeleteMirrors(mm, R) ==
  LET list(r) == mm.region[r].list
      entries == {rk \in R \X (1 .. MaxList) : rk[2] \in DOMAIN list(rk[1])}
      gone == {list(rk[1])[rk[2]] : rk \in entries} \ {Null}
  IN  [mm EXCEPT !.mirrors = [m \in Mirror |-> IF m \in gone THEN NoWindow ELSE mm.mirrors[m]],
                 !.fault = \/ @
                           \/ \E m \in gone : mm.mirrors[m] = NoWindow
                           \/ \E e, f \in entries : e # f /\ list(e[1])[e[2]] = list(f[1])[f[2]]
                                                     /\ list(e[1])[e[2]] \in gone]

\* data_ = new T[n], for every region of R.
NewBlocks(mm, R, n) ==
  LET at == CHOOSE f \in Injection(R, FreeBlocks(mm)) : TRUE IN
  [mm EXCEPT !.heap = [b \in Block |-> IF b \in Range(at) THEN n[CHOOSE r \in R : at[r] = b] ELSE mm.heap[b]],
             !.region = [r \in Region |-> IF r \in R THEN [mm.region[r] EXCEPT !.data = at[r], !.count = n[r]]
                                          ELSE mm.region[r]]]

\* Faulty variant: index_ is not reset.
ClearKeepingIndex(mm, R) ==
  [DeleteMirrors(DeleteBlocks(mm, R), R) EXCEPT
     !.region = [r \in Region |->
                   IF r \in R THEN [mm.region[r] EXCEPT !.data = Null, !.count = 0,
                                               !.list = [k \in DOMAIN @ |-> Null]]
                   ELSE mm.region[r]]]

\* Clear: the list keeps its length, with null pointers.
Clear(mm, R) ==
  [DeleteMirrors(DeleteBlocks(mm, R), R) EXCEPT
     !.region = [r \in Region |->
                   IF r \in R THEN [mm.region[r] EXCEPT !.data = Null, !.count = 0, !.index = 0,
                                               !.list = [k \in DOMAIN @ |-> Null]]
                   ELSE mm.region[r]]]

\* Regions of R begin or end.
Begin(mm, R) == [mm EXCEPT !.region = [r \in Region |-> IF r \in R THEN Empty ELSE mm.region[r]]]
Gone(mm, R) == [mm EXCEPT !.region = [r \in Region |-> IF r \in R THEN NoRegion ELSE mm.region[r]]]

\* ADataRegion(count)
Construct(mm, R, n) == NewBlocks(Begin(mm, R), R, n)

\* The copy constructor copies the items, not the mirrored regions.
CopyConstruct(mm, r, from) == Construct(mm, {r}, [q \in {r} |-> mm.region[from].count])

\* ~ADataRegion
Destroy(mm, R) == Gone(Clear(mm, R), R)

\* The copy assignment: the block is kept when the counts agree.
CopyAssign(mm, r, from) ==
  LET n == mm.region[from].count IN
  IF r = from \/ n = mm.region[r].count THEN mm
  ELSE NewBlocks(Clear(mm, {r}), {r}, [q \in {r} |-> n])

\* The move assignment: block and list move; index_ of the source stays as it is.
MoveAssign(mm, r, from) ==
  IF r = from THEN mm
  ELSE LET c == Clear(mm, {r})
           source == mm.region[from]
       IN  [c EXCEPT !.region =
              [c.region EXCEPT ![r] = [c.region[r] EXCEPT !.data = source.data, !.count = source.count,
                                                          !.list = source.list],
                               ![from] = [source EXCEPT !.data = Null, !.count = 0, !.list = <<>>]]]

\* The move constructor: an empty region, then the move assignment.
MoveConstruct(mm, r, from) == MoveAssign(Begin(mm, {r}), r, from)

\* As many items as asked for, or as are left.
NumUnits(region, n) == IF region.index + n > region.count THEN region.count - region.index ELSE n

\* MirrorRegion: a window of n items at index_, and its entry in the list.
MirrorRegion(mm, r, n) ==
  LET region == mm.region[r]
      m == CHOOSE free \in FreeMirrors(mm) : TRUE
      win == [data |-> region.data, index |-> region.index, count |-> n]
  IN  [mm EXCEPT !.mirrors[m] = win,
                 !.region[r] = [region EXCEPT !.list = Append(region.list, m),
                                              !.index = region.index + n]]

\* ResetMirroredRegionIter, DeleteMirroredRegions
ResetMirroredRegionIter(mm, R) ==
  [DeleteMirrors(mm, R) EXCEPT
     !.region = [r \in Region |-> IF r \in R THEN [mm.region[r] EXCEPT !.index = 0, !.list = <<>>] ELSE mm.region[r]]]

-----------------------------------------------------------------------------
(***************************************************************************)
(* DataRegion2DBareBase and AReductionSpaceBase.                           *)
(***************************************************************************)
RowIds(s, rows) == {s} \X (1 .. rows)
RowsOf(s) == RowIds(s, space[s].rows)

\* rows new regions of cols items each.
NewRows(mm, s, rows, cols) == Construct(mm, RowIds(s, rows), [r \in RowIds(s, rows) |-> cols])

\* The 2D copy assignment: the old rows are deleted, the other's copied one by one.
AssignRows(mm, s, old, from) ==
  LET new == RowIds(s, space[from].rows) IN
  Construct(Destroy(mm, old), new, [r \in new |-> mm.region[<<from, r[2]>>].count])

-----------------------------------------------------------------------------
Alive(r) == mem.region[r].alive
Room(mm, R) == Injection(R, FreeBlocks(mm)) # {}

\* What was handed out of other items, or before a reset of index_, no longer counts.
Follow(mm) ==
  LET same(r) == /\ mm.region[r].data = mem.region[r].data
                 /\ mm.region[r].count = mem.region[r].count
                 /\ mm.region[r].index # 0
  IN  handed' = [r \in Region |-> IF same(r) THEN handed[r] ELSE <<>>]
Do(mm) == mem' = mm /\ Follow(mm) /\ UNCHANGED space

\* DataRegionBareBase r(n), for a name that holds no region.
New(r) == /\ r \in Names /\ ~Alive(r) /\ Room(mem, {r})
          /\ \E n \in [{r} -> 0 .. MaxCount] : Do(Construct(mem, {r}, n))

\* SetupTraceDataRegion: the client allocates the block, the region takes it over,
\* and its windows are reset.
Adopt(r) ==
  /\ r \in Names /\ ~Alive(r) /\ Room(mem, {r})
  /\ \E n \in [{r} -> 0 .. MaxCount] :
       Do(ResetMirroredRegionIter(Construct(mem, {r}, n), {r}))

CopyNew(r, from) == /\ r \in Names /\ ~Alive(r) /\ Alive(from) /\ Room(mem, {r})
                    /\ Do(CopyConstruct(mem, r, from))

MoveNew(r, from) == /\ {r, from} \subseteq Names /\ ~Alive(r) /\ Alive(from)
                    /\ Do(MoveConstruct(mem, r, from))

Assign(r, from) == /\ r \in Names /\ Alive(r) /\ Alive(from) /\ Room(mem, {r})
                   /\ Do(CopyAssign(mem, r, from))

Move(r, from) == /\ {r, from} \subseteq Names /\ Alive(r) /\ Alive(from)
                 /\ Do(MoveAssign(mem, r, from))

Delete(r) == r \in Names /\ Alive(r) /\ Do(Destroy(mem, {r}))

Reset(r) == Alive(r) /\ Do(ResetMirroredRegionIter(mem, {r}))

\* NextMirroredRegion(n): nothing when index_ is at the end.
NextMirroredRegion(r, n) ==
  LET region == mem.region[r]
      units == NumUnits(region, n)
  IN  /\ Alive(r) /\ region.index < region.count
      /\ FreeMirrors(mem) # {} /\ Len(region.list) < MaxList
      /\ mem' = MirrorRegion(mem, r, units)
      /\ handed' = [handed EXCEPT ![r] = Append(@, [index |-> region.index, count |-> units])]
      /\ UNCHANGED space

\* new CT(rows, cols)
NewSpace(s) ==
  \E rows \in 1 .. MaxRows, cols \in 1 .. MaxCount :
    /\ ~space[s].alive /\ Room(mem, RowIds(s, rows))
    /\ mem' = NewRows(mem, s, rows, cols)
    /\ space' = [space EXCEPT ![s] = [rows |-> rows, cols |-> cols, alive |-> TRUE]]
    /\ UNCHANGED handed

\* Clone: a new space of the same size, whose rows are then assigned.
Clone(s, from) ==
  /\ ~space[s].alive /\ space[from].alive /\ Room(mem, RowIds(s, space[from].rows))
  /\ mem' = LET new == NewRows(mem, s, space[from].rows, space[from].cols) IN
            AssignRows(new, s, RowIds(s, space[from].rows), from)
  /\ space' = [space EXCEPT ![s] = space[from]]
  /\ UNCHANGED handed

\* The copy constructor of the 2D region.
CopySpace(s, from) ==
  /\ ~space[s].alive /\ space[from].alive /\ Room(mem, RowIds(s, space[from].rows))
  /\ mem' = AssignRows(mem, s, {}, from)
  /\ space' = [space EXCEPT ![s] = space[from]]
  /\ UNCHANGED handed

\* ~AReductionSpaceBase
DeleteSpace(s) ==
  /\ space[s].alive
  /\ mem' = Destroy(mem, RowsOf(s))
  /\ space' = [space EXCEPT ![s] = NoSpace]
  /\ Follow(mem')

\* reduction_objects() = ..., for spaces of any sizes.
AssignSpace(s, from) ==
  /\ space[s].alive /\ space[from].alive
  /\ Room(Destroy(mem, RowsOf(s)), RowIds(s, space[from].rows))
  /\ s # from
  /\ mem' = AssignRows(mem, s, RowsOf(s), from)
  /\ Follow(mem')
  /\ space' = [space EXCEPT ![s] = space[from]]

\* from.reduction_objects().copy(s's): an assignment, for spaces of one size; others throw.
CopyInto(s, from) == /\ space[s] = space[from] /\ AssignSpace(s, from)

ResetSpace(s) == space[s].alive /\ Do(ResetMirroredRegionIter(mem, RowsOf(s)))

RegionNext ==
        \/ \E r \in Names : New(r) \/ Adopt(r) \/ Delete(r)
        \/ \E r, from \in Region : \/ CopyNew(r, from) \/ MoveNew(r, from)
                                   \/ Assign(r, from) \/ Move(r, from)
        \/ \E r \in Region : Reset(r) \/ \E n \in 1 .. MaxCount : NextMirroredRegion(r, n)
        \/ \E s \in Spaces : \/ NewSpace(s) \/ DeleteSpace(s) \/ ResetSpace(s)
                             \/ \E from \in Spaces : Clone(s, from) \/ CopySpace(s, from)
                                                     \/ AssignSpace(s, from) \/ CopyInto(s, from)

RegionSpec == RegionInit /\ [][RegionNext]_regionVars

-----------------------------------------------------------------------------
Live == {r \in Region : mem.region[r].alive}

\* A window in a region's list lies inside that region's own block.
WindowsInOwnBlock ==
  \A r \in Live : \A k \in DOMAIN mem.region[r].list :
    LET m == mem.region[r].list[k] IN
    m # Null => /\ mem.mirrors[m].data = mem.region[r].data
                /\ mem.mirrors[m].index + mem.mirrors[m].count <= mem.region[r].count

\* Nothing is deleted twice; every block belongs to one region, which knows its
\* size, and every window is in the list of one region, once: whatever is copied,
\* moved or assigned, deleting the regions frees everything and only once.  And
\* after a block was moved, or replaced by an assignment, no window is left that
\* points to memory given back.
OneOwner ==
  /\ ~mem.fault
  /\ \A b \in Block : mem.heap[b] # Free =>
       \E r \in Live : /\ mem.region[r].data = b /\ mem.region[r].count = mem.heap[b]
                       /\ \A q \in Region \ {r} : mem.region[q].data # b
  /\ \A r \in Live : mem.region[r].data # Null => mem.heap[mem.region[r].data] # Free
  /\ \A m \in Mirror :
       LET places == {rk \in Live \X (1 .. MaxList) :
                        rk[2] <= Len(mem.region[rk[1]].list) /\ mem.region[rk[1]].list[rk[2]] = m}
       IN  Cardinality(places) = IF mem.mirrors[m] = NoWindow THEN 0 ELSE 1
  /\ WindowsInOwnBlock

\* The windows handed out of a region's present items since index_ was last reset
\* follow each other from the first item to index_: none overlap, none is empty,
\* none is left out.  A region whose items were moved away keeps its index_, and
\* must not have it still when it is given new items.
HandedOutInOrder ==
  \A r \in Live :
    /\ \A k \in DOMAIN handed[r] :
         /\ handed[r][k].count > 0
         /\ handed[r][k].index = IF k = 1 THEN 0 ELSE handed[r][k - 1].index + handed[r][k - 1].count
    /\ mem.region[r].data # Null =>
         mem.region[r].index = IF handed[r] = <<>> THEN 0
                               ELSE Last(handed[r]).index + Last(handed[r]).count

\* However regions are copied, moved, assigned, cleared and deleted, every block has
\* one owner and no window outlives its block; and what a region hands out is each
\* of its present items once, in order.
RegionsHold == OneOwner /\ HandedOutInOrder
=============================================================================
