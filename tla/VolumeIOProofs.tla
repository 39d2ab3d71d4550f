--------------------------- MODULE VolumeIOProofs ---------------------------
(***************************************************************************)
(* Proofs about VolumeIO, for every number of rows, ranks and iterations:  *)
(* DistributeSlices cuts as the distributor does, the exchange of border   *)
(* rows (GlobalNeighborUpdate) leaves every rank with its neighbours'      *)
(* newest rows, what a rank reads is where the kernels look for it, and    *)
(* the file that the ranks write together is whole.                        *)
(***************************************************************************)
EXTENDS VolumeIO, FiniteSetTheorems, TLAPS

-----------------------------------------------------------------------------
(* The partition (SinogramPartition).                                      *)

\* Division with remainder.
LEMMA DivMod ==
  ASSUME NEW total \in Nat, NEW size \in Nat \ {0}
  PROVE  /\ total \div size \in Nat /\ total % size \in Nat
         /\ total % size < size
         /\ total = ((total \div size) * size) + (total % size)
<1>1. total \in Int /\ size \in Int /\ size > 0
  OBVIOUS
<1>2. total \div size \in Nat
  OBVIOUS
<1>3. total % size \in 0 .. (size - 1)
  BY <1>1
<1>4. total = size * (total \div size) + (total % size)
  BY <1>1
<1>5. total \div size \in Int /\ size * (total \div size) = (total \div size) * size
  BY <1>1, <1>2
<1> QED BY <1>1, <1>2, <1>3, <1>4, <1>5

\* The closed form, at the first rank, from each rank to the next, at the last.
LEMMA Adjacent ==
  ASSUME NEW total \in Nat, NEW size \in Nat \ {0}
  PROVE  /\ assign_data(0, size, total).beg = 0
         /\ \A r \in Nat : /\ assign_data(r, size, total) \in BlockSet
                           /\ assign_data(r + 1, size, total).beg
                                = assign_data(r, size, total).beg + assign_data(r, size, total).n
         /\ assign_data(size - 1, size, total).beg + assign_data(size - 1, size, total).n = total
<1> DEFINE q == total \div size
           l == total % size
<1>1. q \in Nat /\ l \in Nat /\ l < size /\ total = (q * size) + l
  BY DivMod
<1>2. ASSUME NEW r \in Nat
      PROVE  assign_data(r, size, total)
               = [beg |-> IF r < l THEN (1 + q) * r ELSE (1 + q) * l + q * (r - l),
                  n   |-> IF r < l THEN q + 1 ELSE q]
  BY DEF assign_data, Block
<1> HIDE DEF q, l
<1>3. ASSUME NEW r \in Nat, r < l
      PROVE  assign_data(r, size, total) = [beg |-> (1 + q) * r, n |-> q + 1]
  BY <1>2, <1>3
<1>4. ASSUME NEW r \in Nat, ~(r < l)
      PROVE  assign_data(r, size, total) = [beg |-> (1 + q) * l + q * (r - l), n |-> q]
  BY <1>2, <1>4
<1>5. ASSUME NEW r \in Nat
      PROVE  /\ assign_data(r, size, total) \in BlockSet
             /\ assign_data(r + 1, size, total).beg
                  = assign_data(r, size, total).beg + assign_data(r, size, total).n
  <2>0. r + 1 \in Nat
    OBVIOUS
  <2>1. CASE r + 1 < l
    <3>1. /\ (1 + q) * r \in Nat /\ q + 1 \in Nat
          /\ (1 + q) * (r + 1) = (1 + q) * r + (q + 1)
      BY <1>1
    <3>2. r < l
      BY <1>1, <2>1
    <3>3. assign_data(r, size, total) = [beg |-> (1 + q) * r, n |-> q + 1]
      BY <1>3, <3>2
    <3>4. assign_data(r + 1, size, total) = [beg |-> (1 + q) * (r + 1), n |-> q + 1]
      BY <1>3, <2>0, <2>1
    <3> QED BY <3>1, <3>3, <3>4 DEF BlockSet
  <2>2. CASE r + 1 = l
    <3>1. /\ (1 + q) * r \in Nat /\ q + 1 \in Nat
          /\ (1 + q) * l + q * ((r + 1) - l) = (1 + q) * r + (q + 1)
      BY <1>1, <2>2
    <3>2. r < l /\ ~(r + 1 < l)
      BY <1>1, <2>2
    <3>3. assign_data(r, size, total) = [beg |-> (1 + q) * r, n |-> q + 1]
      BY <1>3, <3>2
    <3>4. assign_data(r + 1, size, total)
            = [beg |-> (1 + q) * l + q * ((r + 1) - l), n |-> q]
      BY <1>4, <2>0, <3>2
    <3> QED BY <3>1, <3>3, <3>4 DEF BlockSet
  <2>3. CASE ~(r < l)
    <3>1. /\ (1 + q) * l + q * (r - l) \in Nat /\ q \in Nat
          /\ (1 + q) * l + q * ((r + 1) - l) = (1 + q) * l + q * (r - l) + q
      <4>1. r - l \in Nat /\ (1 + q) * l \in Nat /\ q * (r - l) \in Nat
        BY <1>1, <2>3
      <4>2. q * ((r + 1) - l) = q * (r - l) + q
        BY <1>1
      <4> QED BY <1>1, <4>1, <4>2
    <3>2. ~(r + 1 < l)
      BY <1>1, <2>3
    <3>3. assign_data(r, size, total) = [beg |-> (1 + q) * l + q * (r - l), n |-> q]
      BY <1>4, <2>3
    <3>4. assign_data(r + 1, size, total)
            = [beg |-> (1 + q) * l + q * ((r + 1) - l), n |-> q]
      BY <1>4, <2>0, <3>2
    <3> QED BY <3>1, <3>3, <3>4 DEF BlockSet
  <2>4. r + 1 < l \/ r + 1 = l \/ ~(r < l)
    BY <1>1
  <2> QED BY <2>1, <2>2, <2>3, <2>4
<1>6. assign_data(0, size, total).beg = 0
  <2>1. CASE 0 < l
    <3>1. (1 + q) * 0 = 0
      BY <1>1
    <3> QED BY <1>3, <2>1, <3>1
  <2>2. CASE ~(0 < l)
    <3>1. l = 0 /\ (1 + q) * l + q * (0 - l) = 0
      BY <1>1, <2>2
    <3> QED BY <1>4, <2>2, <3>1
  <2> QED BY <2>1, <2>2
<1>7. assign_data(size - 1, size, total).beg + assign_data(size - 1, size, total).n = total
  <2>1. size \in Nat /\ size - 1 \in Nat /\ (size - 1) + 1 = size /\ ~(size < l)
    BY <1>1
  <2>2. assign_data(size, size, total) = [beg |-> (1 + q) * l + q * (size - l), n |-> q]
    BY <1>4, <2>1
  <2>3. (1 + q) * l + q * (size - l) = total
    <3>1. (1 + q) * l = l + (q * l) /\ q * (size - l) = (q * size) - (q * l)
      BY <1>1
    <3>2. q * l \in Int /\ q * size \in Int
      BY <1>1
    <3> QED BY <1>1, <3>1, <3>2
  <2>4. assign_data((size - 1) + 1, size, total).beg
          = assign_data(size - 1, size, total).beg + assign_data(size - 1, size, total).n
    BY <1>5, <2>1
  <2> QED BY <2>1, <2>2, <2>3, <2>4
<1> QED BY <1>5, <1>6, <1>7

-----------------------------------------------------------------------------
\* The first state: nothing announced yet.
LEMMA PartitionInit == Init => PartitionInv
<1> SUFFICES ASSUME Init PROVE PartitionInv
  OBVIOUS
<1> USE DEF Init, Ranks
<1>1. n_ranks \in Nat \ {0} /\ rows \in Nat
  BY MaxRowsAssumption, MaxRanksAssumption
<1>2. None \in BlockSet
  BY DEF None, Block, BlockSet
<1>3. TypeOK
  BY <1>1, <1>2 DEF TypeOK
<1>4. \A r \in Ranks : ~(r < k)
  BY <1>1
<1> QED BY <1>3, <1>4 DEF PartitionInv, CutAsAnnounced

\* What assign_data returns for a rank of the communicator is a block.
LEMMA AssignTyped ==
  ASSUME TypeOK, NEW r \in Ranks
  PROVE  assign_data(r, n_ranks, rows) \in BlockSet
<1>1. r \in Nat
  BY DEF TypeOK, Ranks
<1> QED BY <1>1, Adjacent DEF TypeOK

\* A turn of the loop that announces.
LEMMA AnnounceKeeps == PartitionInv /\ Announce => PartitionInv'
<1> SUFFICES ASSUME PartitionInv, Announce PROVE PartitionInv'
  OBVIOUS
<1> USE DEF Announce, MoreTurns
<1>1. TypeOK
  BY DEF PartitionInv
<1>2. k \in Ranks /\ n_ranks \in Nat \ {0} /\ rows \in Nat /\ k \in Nat
  BY <1>1 DEF TypeOK, Ranks
<1>3. Ranks' = Ranks
  BY DEF Ranks
<1>4. /\ info' \in [Ranks -> BlockSet]
      /\ info'[k] = assign_data(k, n_ranks, rows)
      /\ \A r \in Ranks : r # k => info'[r] = info[r]
  BY <1>1, <1>2, AssignTyped DEF TypeOK
<1>5. /\ rows' = rows /\ n_ranks' = n_ranks /\ curr' = curr /\ msg' = msg
      /\ pc = "announce" /\ curr = 0
  BY DEF PartitionInv
<1>6. \A r \in Ranks : (r < k \/ r = k) => info'[r] = assign_data(r, n_ranks', rows')
  BY <1>4, <1>5 DEF PartitionInv
<1>7. CASE MoreTurns /\ k' = k + 1 /\ UNCHANGED <<pc, remaining>>
  <2>1. k' \in Ranks /\ pc' = "announce" /\ remaining' = remaining
    BY <1>2, <1>5, <1>7 DEF Ranks
  <2>2. TypeOK'
    BY <1>1, <1>3, <1>4, <1>5, <2>1 DEF TypeOK
  <2>3. \A r \in Ranks : r < k' => (r < k \/ r = k)
    BY <1>2, <1>7 DEF Ranks
  <2>4. CutAsAnnounced'
    BY <2>1 DEF CutAsAnnounced
  <2> QED BY <1>3, <1>5, <1>6, <2>1, <2>2, <2>3, <2>4 DEF PartitionInv
<1>8. CASE ~MoreTurns /\ k' = 0 /\ pc' = "cut" /\ remaining' = rows % n_ranks
  <2>1. k' \in Ranks /\ remaining' \in Int
    BY <1>2, <1>8, DivMod DEF Ranks
  <2>2. TypeOK'
    BY <1>1, <1>3, <1>4, <1>5, <1>8, <2>1 DEF TypeOK
  <2>3. \A r \in Ranks : (r < k \/ r = k) /\ ~(r < k')
    BY <1>2, <1>8 DEF Ranks
  <2>4. CutAsAnnounced'
    BY <1>3, <1>8, <2>3 DEF CutAsAnnounced
  <2>5. curr' = assign_data(k', n_ranks', rows').beg
    BY <1>2, <1>5, <1>8, Adjacent
  <2>6. remaining' = (rows' % n_ranks') - k'
    BY <1>2, <1>5, <1>8, DivMod
  <2> QED BY <1>3, <1>6, <1>8, <2>2, <2>3, <2>4, <2>5, <2>6 DEF PartitionInv
<1> QED BY <1>7, <1>8

\* A turn of the loop that cuts.
LEMMA CutKeeps == PartitionInv /\ Cut => PartitionInv'
<1> SUFFICES ASSUME PartitionInv, Cut PROVE PartitionInv'
  OBVIOUS
<1> USE DEF Cut, MoreTurns
<1> DEFINE n == (rows \div n_ranks) + Extra
<1>1. TypeOK /\ pc = "cut" /\ remaining = (rows % n_ranks) - k
  BY DEF PartitionInv
<1>2. k \in Ranks /\ n_ranks \in Nat \ {0} /\ rows \in Nat /\ k \in Nat
  BY <1>1 DEF TypeOK, Ranks
<1>3. Ranks' = Ranks
  BY DEF Ranks
<1>4. assign_data(k, n_ranks, rows) = Block(curr, n)
  <2>1. rows % n_ranks \in Nat /\ (remaining > 0 <=> k < rows % n_ranks)
    BY <1>1, <1>2, DivMod
  <2>2. n = IF k < rows % n_ranks THEN (rows \div n_ranks) + 1 ELSE rows \div n_ranks
    BY <1>2, <2>1, DivMod DEF Extra
  <2>3. assign_data(k, n_ranks, rows).beg = curr
    BY <1>1 DEF PartitionInv
  <2> QED BY <2>2, <2>3 DEF assign_data, Block
<1>5. /\ curr \in Nat /\ n \in Nat
      /\ \A r \in Ranks : info[r] = assign_data(r, n_ranks, rows)
  BY <1>1, <1>2, <1>4, AssignTyped DEF PartitionInv, Block, BlockSet
<1> HIDE DEF n
<1>6. /\ msg' = [msg EXCEPT ![k] = Block(curr, n)] /\ curr' = curr + n
      /\ remaining' = remaining - 1 /\ rows' = rows /\ n_ranks' = n_ranks /\ info' = info
  BY DEF n
<1>7. /\ msg' \in [Ranks -> BlockSet]
      /\ msg'[k] = info[k]
      /\ \A r \in Ranks : r # k => msg'[r] = msg[r]
  BY <1>1, <1>2, <1>4, <1>5, <1>6, AssignTyped DEF TypeOK
<1>8. \A r \in Ranks : (r < k \/ r = k) => msg'[r] = info'[r]
  BY <1>1, <1>6, <1>7 DEF PartitionInv, CutAsAnnounced
<1>9. remaining' \in Int /\ curr' \in Nat
  BY <1>1, <1>5, <1>6 DEF TypeOK
<1>10. CASE MoreTurns /\ k' = k + 1 /\ UNCHANGED pc
  <2>1. k' \in Ranks /\ pc' = "cut"
    BY <1>1, <1>2, <1>10 DEF Ranks
  <2>2. TypeOK'
    BY <1>1, <1>3, <1>6, <1>7, <1>9, <2>1 DEF TypeOK
  <2>3. \A r \in Ranks : r < k' => (r < k \/ r = k)
    BY <1>2, <1>10 DEF Ranks
  <2>4. CutAsAnnounced'
    BY <1>3, <1>8, <2>1, <2>3 DEF CutAsAnnounced
  <2>5. curr' = assign_data(k', n_ranks', rows').beg
    <3>1. assign_data(k + 1, n_ranks, rows).beg
            = assign_data(k, n_ranks, rows).beg + assign_data(k, n_ranks, rows).n
      BY <1>2, Adjacent
    <3>2. assign_data(k, n_ranks, rows).beg + assign_data(k, n_ranks, rows).n = curr + n
      BY <1>4 DEF Block
    <3>3. curr' = curr + n /\ k' = k + 1 /\ n_ranks' = n_ranks /\ rows' = rows
      BY <1>6, <1>10
    <3> QED BY <3>1, <3>2, <3>3
  <2>6. remaining' = (rows' % n_ranks') - k'
    BY <1>1, <1>2, <1>6, <1>10, DivMod
  <2> QED BY <1>3, <1>5, <1>6, <2>1, <2>2, <2>4, <2>5, <2>6 DEF PartitionInv
<1>11. CASE ~MoreTurns /\ k' = 0 /\ pc' = "end"
  <2>1. k' \in Ranks /\ \A r \in Ranks : r < k \/ r = k
    BY <1>2, <1>11 DEF Ranks
  <2>2. TypeOK'
    BY <1>1, <1>3, <1>6, <1>7, <1>9, <1>11, <2>1 DEF TypeOK
  <2>3. CutAsAnnounced'
    BY <1>3, <1>8, <1>11, <2>1 DEF CutAsAnnounced
  <2> QED BY <1>3, <1>5, <1>6, <1>11, <2>2, <2>3 DEF PartitionInv
<1> QED BY <1>10, <1>11

\* A step that changes nothing.
LEMMA StutterKeeps == PartitionInv /\ UNCHANGED vars => PartitionInv'
BY DEF PartitionInv, TypeOK, CutAsAnnounced, Ranks, vars

\* The invariant of the two loops holds for every number of rows and ranks.
THEOREM PartitionInvariant == Spec => []PartitionInv
<1>1. PartitionInv /\ [Next]_vars => PartitionInv'
  BY AnnounceKeeps, CutKeeps, StutterKeeps DEF Next, Finished
<1> QED BY PartitionInit, <1>1, PTL DEF Spec

\* The variables keep their types.
THEOREM PartitionTyped == Spec => []TypeOK
<1>1. PartitionInv => TypeOK
  BY DEF PartitionInv
<1> QED BY <1>1, PartitionInvariant, PTL

\* push_image cuts for every rank the block that handshake announced to it.
THEOREM CutsMatch == Spec => []CutAsAnnounced
<1>1. PartitionInv => CutAsAnnounced
  BY DEF PartitionInv
<1> QED BY <1>1, PartitionInvariant, PTL

\* The announced blocks tile the rows, from the first to the last.
THEOREM Tiling == Spec => []BlocksTile
<1>1. PartitionInv => BlocksTile
  <2> SUFFICES ASSUME PartitionInv, pc # "announce" PROVE BlocksTile
    BY DEF BlocksTile
  <2>1. n_ranks \in Nat \ {0} /\ rows \in Nat
    BY DEF PartitionInv, TypeOK
  <2>2. \A r \in Ranks : info[r] = assign_data(r, n_ranks, rows)
    BY DEF PartitionInv
  <2>3. 0 \in Ranks /\ n_ranks - 1 \in Ranks
    BY <2>1 DEF Ranks
  <2>4. ASSUME NEW r \in Ranks, r + 1 < n_ranks
        PROVE  info[r + 1].beg = info[r].beg + info[r].n
    <3>1. r \in Nat /\ r + 1 \in Ranks
      BY <2>1, <2>4 DEF Ranks
    <3>2. assign_data(r + 1, n_ranks, rows).beg
            = assign_data(r, n_ranks, rows).beg + assign_data(r, n_ranks, rows).n
      BY <2>1, <3>1, Adjacent
    <3> QED BY <2>2, <3>1, <3>2
  <2>5. info[0].beg = 0 /\ info[n_ranks - 1].beg + info[n_ranks - 1].n = rows
    <3>1. /\ assign_data(0, n_ranks, rows).beg = 0
          /\ assign_data(n_ranks - 1, n_ranks, rows).beg
               + assign_data(n_ranks - 1, n_ranks, rows).n = rows
      BY <2>1, Adjacent
    <3>2. /\ info[0] = assign_data(0, n_ranks, rows)
          /\ info[n_ranks - 1] = assign_data(n_ranks - 1, n_ranks, rows)
      BY <2>2, <2>3
    <3> QED BY <3>1, <3>2
  <2> QED BY <2>4, <2>5 DEF BlocksTile
<1> QED BY <1>1, PartitionInvariant, PTL

-----------------------------------------------------------------------------
(* The volume.                                                             *)

\* DistributeSlices (trace_h5io.cc) and assign_data (trace_streamer.c), two closed
\* forms written differently, give every rank the same rows.
THEOREM SameDivision ==
  ASSUME NEW total \in Nat, NEW size \in Nat \ {0}, NEW r \in Nat
  PROVE  DistributeSlices(r, size, total) = assign_data(r, size, total)
<1> DEFINE q == total \div size
           l == total % size
<1>1. q \in Nat /\ l \in Nat /\ l < size /\ total = (q * size) + l
  BY DivMod
<1>2. q * size \in Nat /\ total - q * size = l
  BY <1>1
<1>3. DistributeSlices(r, size, total)
        = LET beg == IF r < l THEN (q + 1) * r ELSE (q + 1) * l + q * (r - l)
              final == IF r < l THEN beg + q + 1 ELSE beg + q
          IN  Block(beg, final - beg)
  BY <1>2 DEF DistributeSlices
<1>4. assign_data(r, size, total)
        = Block(IF r < l THEN (1 + q) * r ELSE (1 + q) * l + q * (r - l),
                IF r < l THEN q + 1 ELSE q)
  BY DEF assign_data
<1> HIDE DEF q, l
<1>5. /\ (q + 1) * r \in Int /\ (q + 1) * r = (1 + q) * r
      /\ (q + 1) * l \in Int /\ (q + 1) * l = (1 + q) * l
      /\ q * (r - l) \in Int
  BY <1>1
<1>6. CASE r < l
  <2>1. DistributeSlices(r, size, total) = Block((q + 1) * r, ((q + 1) * r + q + 1) - (q + 1) * r)
    BY <1>3, <1>6
  <2>2. ((q + 1) * r + q + 1) - (q + 1) * r = q + 1
    BY <1>1, <1>5
  <2> QED
    BY <1>4, <1>5, <1>6, <2>1, <2>2
<1>7. CASE ~(r < l)
  <2> DEFINE b == (q + 1) * l + q * (r - l)
  <2>1. DistributeSlices(r, size, total) = Block(b, (b + q) - b)
    BY <1>3, <1>7
  <2>2. b \in Int /\ (b + q) - b = q
    BY <1>1, <1>5
  <2>3. b = (1 + q) * l + q * (r - l)
    BY <1>5
  <2> QED
    BY <1>4, <1>7, <2>1, <2>2, <2>3
<1> QED
  BY <1>6, <1>7

-----------------------------------------------------------------------------
(* The inductive invariant.                                                *)

\* The client with border rows, with a row for every rank.
Bordered == job = "slices" /\ rows >= n_ranks

\* The rows of rank r.
Share(r) == assign_data(r, n_ranks, rows)

\* The neighbours of rank r.
Nb(r) == {s \in Ranks : s = r - 1 \/ s = r + 1}

\* The requests of rank r: the row it sends to s, and the row s sends to it.
At(r, op, s) == IF op = "send" THEN IF s < r THEN 1 ELSE Share(r).n
                               ELSE IF s < r THEN 0 ELSE Share(r).n + 1
Request(r, op, s) == [op |-> op, peer |-> s, at |-> At(r, op, s)]

\* How many rows rank r has sent to s, or received from s.
Count(r, op, s) ==
  IF stage[r] = "update" \/ Request(r, op, s) \in reqs[r] THEN iter[r] - 1 ELSE iter[r]

\* The row of r next to s, of iteration i.
Edge(r, s, i) == [row |-> IF s < r THEN Share(r).beg ELSE Share(r).beg + Share(r).n - 1,
                  iter |-> i]

Stages == {"begin", "thrown", "iterate", "update", "waitall", "create", "write", "close", "done"}
RowSet == [row : Int, iter : Nat]

VolumeTypeOK ==
  /\ stage \in [Ranks -> Stages]
  /\ iter \in [Ranks -> Nat]
  /\ DOMAIN own = Ranks /\ DOMAIN recon = Ranks /\ DOMAIN reqs = Ranks
  /\ chan \in [Ranks -> [Ranks -> Seq(RowSet)]]

\* A rank that has read has its share, each of its rows as of its last iteration,
\* and room for two more; requests are pending only while it waits for them.
RankOK(r) ==
  /\ stage[r] \in {"begin", "thrown"} => iter[r] = 0
  /\ stage[r] \in {"update", "waitall"} => iter[r] > 0
  /\ stage[r] \notin {"begin", "thrown"} =>
       /\ own[r] = Share(r)
       /\ recon[r] \in [0 .. Share(r).n + 1 -> RowSet]
       /\ \A i \in 1 .. Share(r).n :
            recon[r][i] = [row |-> Share(r).beg + i - 1, iter |-> iter[r]]
  /\ stage[r] # "waitall" => reqs[r] = {}
  /\ \A q \in reqs[r] : \E s \in Nb(r), op \in {"send", "recv"} : q = Request(r, op, s)

\* Between neighbours r and s: what r has sent and s not received is under way, in
\* order, and what s has received last is in its border.
EdgeOK(r, s) ==
  LET sent == Count(r, "send", s)
      got  == Count(s, "recv", r)
  IN  /\ Len(chan[r][s]) = sent - got
      /\ \A i \in 1 .. Len(chan[r][s]) : chan[r][s][i] = Edge(r, s, got + i)
      /\ got > 0 => recon[s][At(s, "recv", r)] = Edge(r, s, got)

BorderInv == VolumeTypeOK /\ \A r \in Ranks : RankOK(r) /\ \A s \in Nb(r) : EdgeOK(r, s)

VolumeInv ==
  /\ rows \in Nat /\ n_ranks \in Nat \ {0}
  /\ job = "slices" => dataset \in {<< >>, <<Projs>>, <<Projs, rows, Cols>>}
  /\ Bordered => BorderInv

-----------------------------------------------------------------------------
\* Shares have a row at least, and follow each other.
LEMMA Shares ==
  ASSUME rows \in Nat, n_ranks \in Nat \ {0}, rows >= n_ranks, NEW r \in Ranks
  PROVE  /\ Share(r).beg \in Nat /\ Share(r).n \in Nat /\ Share(r).n >= 1
         /\ Share(r) = Block(Share(r).beg, Share(r).n)
         /\ DistributeSlices(r, n_ranks, rows) = Share(r)
         /\ Share(r + 1).beg = Share(r).beg + Share(r).n
<1>1. r \in Nat
  BY DEF Ranks
<1>2. /\ Share(r) \in BlockSet /\ Share(r + 1).beg = Share(r).beg + Share(r).n
  BY <1>1, Adjacent DEF Share
<1>3. rows \div n_ranks >= 1
  <2> DEFINE q == rows \div n_ranks
             l == rows % n_ranks
  <2>1. q \in Nat /\ l \in Nat /\ l < n_ranks /\ rows = (q * n_ranks) + l
    BY DivMod
  <2> HIDE DEF q, l
  <2>2. ASSUME q = 0
        PROVE  FALSE
    <3>1. q * n_ranks = 0
      BY <2>2
    <3> QED
      BY <2>1, <3>1
  <2>3. q >= 1
    BY <2>1, <2>2
  <2> QED
    BY <2>3 DEF q
<1>4. Share(r).n >= 1
  BY <1>3, DivMod DEF Share, assign_data, Block
<1>5. DistributeSlices(r, n_ranks, rows) = Share(r)
  BY <1>1, SameDivision DEF Share
<1> QED
  BY <1>2, <1>4, <1>5 DEF BlockSet, Block

\* Neighbours are two ranks, and one is before the other.
LEMMA Neighbours ==
  ASSUME n_ranks \in Nat \ {0}, NEW r \in Ranks, NEW s \in Nb(r)
  PROVE  /\ s \in Ranks /\ r \in Nb(s) /\ r # s /\ r \in Int /\ s \in Int
         /\ (s < r /\ s + 1 = r) \/ (r < s /\ r + 1 = s)
BY DEF Nb, Ranks

\* Requests of different kinds, or to different neighbours, are different.
LEMMA RequestsDiffer ==
  ASSUME NEW r, NEW s, NEW u, NEW o, NEW p
  PROVE  Request(r, o, s) = Request(r, p, u) => o = p /\ s = u
BY DEF Request

\* What a rank posts.
LEMMA Posted2 ==
  ASSUME rows \in Nat, n_ranks \in Nat \ {0}, Bordered, NEW r \in Ranks, own[r] = Share(r)
  PROVE  Requests(r) = {Request(r, op, s) : op \in {"send", "recv"}, s \in Nb(r)}
<1>1. Share(r).n \in Nat /\ r \in Nat /\ n_ranks \in Nat
  BY Shares DEF Bordered, Ranks
<1>2. Neighbors = 1
  BY DEF Neighbors, Bordered
<1>3. r > 0 => r - 1 \in Nb(r) /\ r - 1 < r
  BY <1>1 DEF Nb, Ranks
<1>4. r < n_ranks - 1 => r + 1 \in Nb(r) /\ ~(r + 1 < r)
  BY <1>1 DEF Nb, Ranks
<1>5. r > 0 => WithUp(r) = {Request(r, op, r - 1) : op \in {"send", "recv"}}
  BY <1>3 DEF WithUp, Request, At
<1>6. r < n_ranks - 1 => WithBottom(r) = {Request(r, op, r + 1) : op \in {"send", "recv"}}
  <2>1. /\ (own[r].n + 2 * Neighbors) - 2 = Share(r).n
        /\ (own[r].n + 2 * Neighbors) - 1 = Share(r).n + 1
    BY <1>1, <1>2
  <2>2. WithBottom(r) = {[op |-> "send", peer |-> r + 1, at |-> Share(r).n],
                         [op |-> "recv", peer |-> r + 1, at |-> Share(r).n + 1]}
    BY <2>1 DEF WithBottom
  <2> QED
    BY <1>4, <2>2 DEF Request, At
<1>7. \A s \in Nb(r) : (s = r - 1 /\ r > 0) \/ (s = r + 1 /\ r < n_ranks - 1)
  BY <1>1 DEF Nb, Ranks
<1> QED
  BY <1>3, <1>4, <1>5, <1>6, <1>7 DEF Requests

-----------------------------------------------------------------------------
(* Steps that send and receive nothing.                                    *)

\* No step changes the client, its volume or its ranks.
LEMMA SizesStay ==
  ASSUME [VolumeNext]_<<vars, volvars>>
  PROVE  UNCHANGED <<rows, n_ranks, job, dataset>>
<1>1. CASE Distribute
  BY <1>1 DEF Distribute, Announce, Cut, volvars
<1>2. ASSUME NEW r \in Ranks,
             \/ TakeAnnounced(r) \/ Throw(r) \/ LoadTheta(r) \/ Load(r) \/ Iterate(r)
             \/ BeginWrite(r) \/ Write(r) \/ WriteData(r)
      PROVE  UNCHANGED <<rows, n_ranks, job, dataset>>
  BY <1>2 DEF TakeAnnounced, Throw, LoadTheta, Load, Iterate, BeginWrite, Write, WriteData, vars
<1>3. ASSUME NEW r \in Ranks, Post(r) \/ Waitall(r) \/ \E q \in reqs[r] : Depart(r, q) \/ Arrive(r, q)
      PROVE  UNCHANGED <<rows, n_ranks, job, dataset>>
  BY <1>3 DEF Post, Waitall, Depart, Arrive, vars
<1>4. CASE Create \/ Close \/ Ended \/ UNCHANGED <<vars, volvars>>
  BY <1>4 DEF Create, Close, Ended, vars, volvars
<1> QED
  BY <1>1, <1>2, <1>3, <1>4, Zenon DEF VolumeNext

\* Rank r is as it was.
SameRank(r) == /\ stage'[r] = stage[r] /\ iter'[r] = iter[r] /\ own'[r] = own[r]
               /\ recon'[r] = recon[r] /\ reqs'[r] = reqs[r]

\* The counts of rank r are as they were, and so are the borders it has received.
SameEdges(r) ==
  \A s \in Nb(r) :
    /\ Count(r, "send", s)' = Count(r, "send", s)
    /\ Count(r, "recv", s)' = Count(r, "recv", s)
    /\ Count(r, "recv", s) > 0 => recon'[r][At(r, "recv", s)] = recon[r][At(r, "recv", s)]

\* A rank that is as it was stays in order, and so do its counts and borders.
LEMMA RankStays ==
  ASSUME UNCHANGED <<rows, n_ranks>>, NEW r \in Ranks, SameRank(r)
  PROVE  /\ RankOK(r) => RankOK(r)'
         /\ SameEdges(r)
<1>1. /\ \A s, op : At(r, op, s)' = At(r, op, s) /\ Request(r, op, s)' = Request(r, op, s)
      /\ Share(r)' = Share(r) /\ Nb(r)' = Nb(r)
  BY DEF At, Request, Share, Nb, Ranks
<1>2. \A s, op : Count(r, op, s)' = Count(r, op, s)
  BY <1>1 DEF Count, SameRank
<1>3. RankOK(r) => RankOK(r)'
  BY <1>1 DEF RankOK, SameRank
<1> QED
  BY <1>2, <1>3 DEF SameEdges, SameRank

\* What is between two ranks depends on their counts, the channel and the border.
LEMMA EdgeStays ==
  ASSUME UNCHANGED <<rows, n_ranks>>, NEW r, NEW s, EdgeOK(r, s),
         Count(r, "send", s)' = Count(r, "send", s),
         Count(s, "recv", r)' = Count(s, "recv", r),
         chan'[r][s] = chan[r][s],
         Count(s, "recv", r) > 0 => recon'[s][At(s, "recv", r)] = recon[s][At(s, "recv", r)]
  PROVE  EdgeOK(r, s)'
<1>1. \A i : Edge(r, s, i)' = Edge(r, s, i)
  BY DEF Edge, Share
<1>2. At(s, "recv", r)' = At(s, "recv", r)
  BY DEF At, Share
<1> QED
  BY <1>1, <1>2 DEF EdgeOK

\* If every rank stays in order and no count changes, so does everything between
\* them.
LEMMA QuietStep ==
  ASSUME VolumeInv, Bordered, UNCHANGED <<rows, n_ranks, job, dataset, chan>>, VolumeTypeOK',
         \A r \in Ranks : RankOK(r)' /\ SameEdges(r)
  PROVE  VolumeInv'
<1>1. Ranks' = Ranks /\ \A r \in Ranks : Nb(r)' = Nb(r)
  BY DEF Ranks, Nb
<1>2. ASSUME NEW r \in Ranks, NEW s \in Nb(r)
      PROVE  EdgeOK(r, s)'
  <2>1. s \in Ranks /\ r \in Nb(s) /\ EdgeOK(r, s)
    BY Neighbours DEF VolumeInv, BorderInv
  <2> QED
    BY <2>1, EdgeStays DEF SameEdges
<1>3. BorderInv'
  BY <1>1, <1>2 DEF BorderInv
<1> QED
  BY <1>3 DEF VolumeInv

\* A step of one rank that touches no channel.
LEMMA OneRank ==
  ASSUME VolumeInv, Bordered, UNCHANGED <<rows, n_ranks, job, dataset, chan>>, VolumeTypeOK',
         NEW r \in Ranks, \A u \in Ranks \ {r} : SameRank(u), RankOK(r)', SameEdges(r)
  PROVE  VolumeInv'
<1>1. \A u \in Ranks : RankOK(u)' /\ SameEdges(u)
  BY RankStays DEF VolumeInv, BorderInv
<1> QED
  BY <1>1, QuietStep

\* Where nothing is pending, what was sent and received is what was iterated.
LEMMA NothingPending ==
  ASSUME NEW r, NEW op, NEW s, reqs[r] = {}, stage[r] # "update"
  PROVE  Count(r, op, s) = iter[r]
BY DEF Count

-----------------------------------------------------------------------------
(* One lemma per action.                                                   *)

\* Nobody has read, and nothing is under way.
LEMMA VolumeInitOK == VolumeInit => VolumeInv
<1> SUFFICES ASSUME VolumeInit
             PROVE  VolumeInv
  OBVIOUS
<1>1. /\ rows \in Nat /\ n_ranks \in Nat \ {0} /\ Ranks = 0 .. n_ranks - 1
      /\ job = "slices" => dataset \in {<< >>, <<Projs>>, <<Projs, rows, Cols>>}
  BY MaxRowsAssumption, MaxRanksAssumption DEF VolumeInit, Init, Ranks
<1>2. \A r \in Ranks : /\ stage[r] = "begin" /\ iter[r] = 0 /\ reqs[r] = {}
                       /\ \A s \in Ranks : chan[r][s] = << >>
  BY <1>1 DEF VolumeInit
<1>3. VolumeTypeOK
  <2>1. /\ stage \in [Ranks -> Stages] /\ iter \in [Ranks -> Nat]
        /\ DOMAIN own = Ranks /\ DOMAIN recon = Ranks /\ DOMAIN reqs = Ranks
    BY <1>1 DEF VolumeInit, Stages
  <2>2. << >> \in Seq(RowSet)
    OBVIOUS
  <2>3. chan \in [Ranks -> [Ranks -> Seq(RowSet)]]
    BY <1>1, <2>2 DEF VolumeInit
  <2> QED
    BY <2>1, <2>3 DEF VolumeTypeOK
<1>4. \A r \in Ranks : RankOK(r)
  BY <1>2 DEF RankOK
<1>5. ASSUME NEW r \in Ranks, NEW s \in Nb(r)
      PROVE  EdgeOK(r, s)
  <2>1. s \in Ranks /\ r \in Ranks
    BY <1>1, Neighbours
  <2>2. Count(r, "send", s) = 0 /\ Count(s, "recv", r) = 0
    BY <1>2, <2>1, NothingPending
  <2>3. chan[r][s] = << >>
    BY <1>2, <2>1
  <2> QED
    BY <2>2, <2>3 DEF EdgeOK
<1> QED
  BY <1>1, <1>3, <1>4, <1>5 DEF VolumeInv, BorderInv

\* A rank stops because it cannot read.
LEMMA ThrowOK ==
  ASSUME VolumeInv, Bordered, UNCHANGED <<rows, n_ranks, job, dataset>>, NEW r \in Ranks, Throw(r)
  PROVE  VolumeInv'
<1>1. /\ stage[r] = "begin" /\ stage' = [stage EXCEPT ![r] = "thrown"]
      /\ UNCHANGED <<iter, own, recon, reqs, chan>>
  BY DEF Throw
<1>2. VolumeTypeOK /\ RankOK(r) /\ stage \in [Ranks -> Stages] /\ Ranks' = Ranks
  BY DEF VolumeInv, BorderInv, VolumeTypeOK, Ranks
<1>3. stage'[r] = "thrown" /\ \A u \in Ranks \ {r} : SameRank(u)
  BY <1>1, <1>2 DEF SameRank
<1>4. VolumeTypeOK'
  BY <1>1, <1>2 DEF VolumeTypeOK, Stages
<1>5. reqs[r] = {} /\ RankOK(r)'
  BY <1>1, <1>2, <1>3 DEF RankOK
<1>6. SameEdges(r)
  BY <1>1, <1>3, <1>5 DEF SameEdges, Count
<1> QED
  BY <1>1, <1>3, <1>4, <1>5, <1>6, OneRank

\* A rank reads its share; its rows are those of no iteration yet.
LEMMA LoadOK ==
  ASSUME VolumeInv, Bordered, UNCHANGED <<rows, n_ranks, job, dataset>>, NEW r \in Ranks, Load(r)
  PROVE  VolumeInv'
<1> DEFINE n == Share(r).n
<1>1. /\ stage[r] = "begin" /\ Readable
      /\ own' = [own EXCEPT ![r] = DistributeSlices(r, n_ranks, Dim[2])]
      /\ recon' = [recon EXCEPT ![r] = FreshRecon(DistributeSlices(r, n_ranks, Dim[2]))]
      /\ stage' = [stage EXCEPT ![r] = "iterate"]
      /\ UNCHANGED <<iter, reqs, chan>>
  <2>1. job = "slices" /\ BySlices
    BY DEF Bordered, BySlices
  <2>2. (CASE job = "slices"      -> "iterate"
           [] job = "projections" -> "done"
           [] Copying             -> "create") = "iterate"
    BY <2>1 DEF Copying
  <2>3. stage' = [stage EXCEPT ![r] = CASE job = "slices"      -> "iterate"
                                        [] job = "projections" -> "done"
                                        [] Copying             -> "create"]
    BY DEF Load
  <2>4. stage' = [stage EXCEPT ![r] = "iterate"]
    BY <2>2, <2>3, Zenon
  <2> QED
    BY <2>1, <2>4 DEF Load
<1>2. /\ VolumeTypeOK /\ RankOK(r) /\ Ranks' = Ranks
      /\ rows \in Nat /\ n_ranks \in Nat \ {0} /\ rows >= n_ranks
      /\ stage \in [Ranks -> Stages] /\ DOMAIN own = Ranks /\ DOMAIN recon = Ranks
  BY DEF VolumeInv, BorderInv, VolumeTypeOK, Ranks, Bordered
<1>3. Dim[2] = rows
  <2>1. dataset \in {<< >>, <<Projs>>, <<Projs, rows, Cols>>} /\ Len(dataset) = 3
    BY <1>1 DEF Readable, VolumeInv, Bordered
  <2>2. Len(<< >>) # 3 /\ Len(<<Projs>>) # 3
    OBVIOUS
  <2>3. dataset = <<Projs, rows, Cols>>
    BY <2>1, <2>2
  <2> QED
    BY <2>3 DEF Dim
<1>4. /\ n \in Nat /\ n >= 1 /\ Share(r).beg \in Nat
      /\ DistributeSlices(r, n_ranks, Dim[2]) = Share(r)
  BY <1>2, <1>3, Shares
<1>5. own'[r] = Share(r) /\ recon'[r] = FreshRecon(Share(r)) /\ stage'[r] = "iterate"
  BY <1>1, <1>2, <1>4
<1>6. Neighbors = 1 /\ (n + 2 * Neighbors) - 1 = n + 1 /\ (n + Neighbors) - 1 = n
  BY <1>4 DEF Neighbors, Bordered
<1>7. /\ recon'[r] \in [0 .. n + 1 -> RowSet]
      /\ \A i \in 1 .. n : recon'[r][i] = [row |-> Share(r).beg + i - 1, iter |-> 0]
  <2> DEFINE F == FreshRecon(Share(r))
             Value(i) == IF i \in Neighbors .. n + Neighbors - 1
                           THEN [row |-> Share(r).beg + i - Neighbors, iter |-> 0] ELSE NoRow
  <2>1. F = [i \in 0 .. n + 2 * Neighbors - 1 |-> Value(i)]
    BY Zenon DEF FreshRecon
  <2>2. \A i \in 1 .. n : Value(i) = [row |-> Share(r).beg + i - 1, iter |-> 0]
    <3> TAKE i \in 1 .. n
    <3>1. /\ i \in Neighbors .. n + Neighbors - 1
          /\ Share(r).beg + i - Neighbors = Share(r).beg + i - 1
      BY <1>4, <1>6
    <3> QED
      BY <3>1, Zenon
  <2>3. ASSUME NEW i \in 0 .. n + 1
        PROVE  Value(i) \in RowSet
    <3>1. i \in Int /\ Share(r).beg + i - Neighbors \in Int
      BY <1>4, <1>6
    <3>2. [row |-> Share(r).beg + i - Neighbors, iter |-> 0] \in RowSet /\ NoRow \in RowSet
      BY <3>1 DEF RowSet, NoRow
    <3> QED
      BY <3>2
  <2> HIDE DEF Value, F, n
  <2>4. F = [i \in 0 .. n + 1 |-> Value(i)] /\ \A i \in 1 .. n : i \in 0 .. n + 1
    BY <1>4, <1>6, <2>1
  <2>5. recon'[r] = F
    BY <1>5 DEF F
  <2> QED
    BY <2>2, <2>3, <2>4, <2>5
<1>8. \A u \in Ranks \ {r} : SameRank(u)
  BY <1>1, <1>2 DEF SameRank
<1>9. VolumeTypeOK'
  BY <1>1, <1>2 DEF VolumeTypeOK, Stages
<1>10. iter[r] = 0 /\ reqs[r] = {}
  BY <1>1, <1>2 DEF RankOK
<1>11. Share(r)' = Share(r)
  BY DEF Share
<1>12. RankOK(r)'
  BY <1>1, <1>5, <1>7, <1>10, <1>11 DEF RankOK
<1>13. SameEdges(r)
  BY <1>1, <1>5, <1>10 DEF SameEdges, Count
<1> QED
  BY <1>1, <1>8, <1>9, <1>12, <1>13, OneRank

\* A row, one iteration on.
LEMMA NextIter ==
  ASSUME NEW a, NEW b, NEW c
  PROVE  [[row |-> a, iter |-> b] EXCEPT !.iter = c] = [row |-> a, iter |-> c]
OBVIOUS

\* A rank renews its rows; what it will send is not sent yet.
LEMMA IterateOK ==
  ASSUME VolumeInv, Bordered, UNCHANGED <<rows, n_ranks, job, dataset>>, NEW r \in Ranks, Iterate(r)
  PROVE  VolumeInv'
<1> DEFINE n == Share(r).n
<1>1. /\ stage[r] = "iterate"
      /\ iter' = [iter EXCEPT ![r] = @ + 1]
      /\ recon' = [recon EXCEPT ![r] =
           [i \in DOMAIN recon[r] |-> IF i \in Neighbors .. own[r].n + Neighbors - 1
                                        THEN [recon[r][i] EXCEPT !.iter = iter[r] + 1] ELSE recon[r][i]]]
      /\ stage' = [stage EXCEPT ![r] = "update"]
      /\ UNCHANGED <<own, reqs, chan>>
  BY DEF Iterate, Bordered
<1>2. /\ VolumeTypeOK /\ RankOK(r) /\ Ranks' = Ranks
      /\ rows \in Nat /\ n_ranks \in Nat \ {0} /\ rows >= n_ranks
      /\ stage \in [Ranks -> Stages] /\ DOMAIN recon = Ranks
      /\ iter \in [Ranks -> Nat] /\ iter[r] \in Nat
  BY DEF VolumeInv, BorderInv, VolumeTypeOK, Ranks, Bordered
<1>3. n \in Nat /\ n >= 1 /\ Share(r).beg \in Nat /\ Share(r)' = Share(r)
  BY <1>2, Shares DEF Share
<1>4. /\ own[r] = Share(r) /\ reqs[r] = {}
      /\ recon[r] \in [0 .. n + 1 -> RowSet]
      /\ \A i \in 1 .. n : recon[r][i] = [row |-> Share(r).beg + i - 1, iter |-> iter[r]]
  BY <1>1, <1>2 DEF RankOK
<1>5. Neighbors = 1 /\ (n + 1) - 1 = n
  BY <1>3 DEF Neighbors, Bordered
<1>6. recon'[r] = [i \in 0 .. n + 1 |-> IF i \in 1 .. n THEN [recon[r][i] EXCEPT !.iter = iter[r] + 1]
                                                        ELSE recon[r][i]]
  <2>1. recon'[r] = [i \in DOMAIN recon[r] |->
                       IF i \in Neighbors .. own[r].n + Neighbors - 1
                         THEN [recon[r][i] EXCEPT !.iter = iter[r] + 1] ELSE recon[r][i]]
    <3> DEFINE F == [i \in DOMAIN recon[r] |->
                       IF i \in Neighbors .. own[r].n + Neighbors - 1
                         THEN [recon[r][i] EXCEPT !.iter = iter[r] + 1] ELSE recon[r][i]]
    <3>1. recon' = [recon EXCEPT ![r] = F]
      BY <1>1, Zenon
    <3> HIDE DEF F
    <3>2. recon'[r] = F
      BY <1>2, <3>1
    <3> QED
      BY <3>2 DEF F
  <2>2. DOMAIN recon[r] = 0 .. n + 1 /\ own[r].n + Neighbors - 1 = n
    BY <1>3, <1>4, <1>5
  <2> QED
    BY <1>5, <2>1, <2>2, Zenon
<1>7. \A i \in 1 .. n : recon'[r][i] = [row |-> Share(r).beg + i - 1, iter |-> iter[r] + 1]
  <2> TAKE i \in 1 .. n
  <2>1. i \in 0 .. n + 1
    BY <1>3
  <2>2. recon'[r][i] = [recon[r][i] EXCEPT !.iter = iter[r] + 1]
    BY <1>6, <2>1
  <2>3. recon[r][i] = [row |-> Share(r).beg + i - 1, iter |-> iter[r]]
    BY <1>4
  <2> QED
    BY <2>2, <2>3, NextIter
<1>8. recon'[r] \in [0 .. n + 1 -> RowSet]
  <2>1. ASSUME NEW i \in 0 .. n + 1
        PROVE  recon'[r][i] \in RowSet
    <3>1. CASE i \in 1 .. n
      <4>1. Share(r).beg + i - 1 \in Int /\ iter[r] + 1 \in Nat
        BY <1>2, <1>3
      <4>2. [row |-> Share(r).beg + i - 1, iter |-> iter[r] + 1] \in RowSet
        BY <4>1 DEF RowSet
      <4> QED
        BY <1>7, <3>1, <4>2, Zenon
    <3>2. CASE i \notin 1 .. n
      BY <1>4, <1>6, <3>2
    <3> QED
      BY <3>1, <3>2
  <2>2. recon'[r] = [i \in 0 .. n + 1 |-> recon'[r][i]]
    BY <1>6
  <2> QED
    BY <2>1, <2>2
<1>9. \A u \in Ranks \ {r} : SameRank(u)
  BY <1>1, <1>2 DEF SameRank
<1>10. stage'[r] = "update" /\ iter'[r] = iter[r] + 1
  BY <1>1, <1>2
<1>11. VolumeTypeOK'
  BY <1>1, <1>2 DEF VolumeTypeOK, Stages
<1>12. RankOK(r)'
  <2>1. own'[r] = Share(r) /\ reqs'[r] = {} /\ iter'[r] > 0
    BY <1>1, <1>2, <1>4, <1>10
  <2> HIDE DEF n
  <2>2. \A i \in 1 .. n : recon'[r][i] = [row |-> Share(r).beg + i - 1, iter |-> iter'[r]]
    BY <1>7, <1>10
  <2> QED
    BY <1>3, <1>8, <1>10, <2>1, <2>2 DEF RankOK, n
<1>13. SameEdges(r)
  <2>1. ASSUME NEW s \in Nb(r), NEW op
        PROVE  Count(r, op, s)' = Count(r, op, s)
    BY <1>1, <1>2, <1>4, <1>10 DEF Count
  <2>2. ASSUME NEW s \in Nb(r)
        PROVE  recon'[r][At(r, "recv", s)] = recon[r][At(r, "recv", s)]
    <3>1. At(r, "recv", s) \in 0 .. n + 1 /\ At(r, "recv", s) \notin 1 .. n
      BY <1>3 DEF At
    <3> QED
      BY <1>6, <3>1
  <2> QED
    BY <2>1, <2>2 DEF SameEdges
<1> QED
  BY <1>1, <1>9, <1>11, <1>12, <1>13, OneRank

\* The requests of a rank are pending: it has sent and received what it had.
LEMMA PostOK ==
  ASSUME VolumeInv, Bordered, UNCHANGED <<rows, n_ranks, job, dataset>>, NEW r \in Ranks, Post(r)
  PROVE  VolumeInv'
<1>1. /\ stage[r] = "update" /\ reqs' = [reqs EXCEPT ![r] = Requests(r)]
      /\ stage' = [stage EXCEPT ![r] = "waitall"]
      /\ UNCHANGED <<iter, own, recon, chan>>
  BY DEF Post
<1>2. /\ VolumeTypeOK /\ RankOK(r) /\ Ranks' = Ranks
      /\ rows \in Nat /\ n_ranks \in Nat \ {0}
      /\ stage \in [Ranks -> Stages] /\ DOMAIN reqs = Ranks
  BY DEF VolumeInv, BorderInv, VolumeTypeOK, Ranks
<1>3. own[r] = Share(r)
  BY <1>1, <1>2 DEF RankOK
<1>4. reqs'[r] = {Request(r, op, s) : op \in {"send", "recv"}, s \in Nb(r)}
  BY <1>1, <1>2, <1>3, Posted2
<1>5. stage'[r] = "waitall" /\ \A u \in Ranks \ {r} : SameRank(u)
  BY <1>1, <1>2 DEF SameRank
<1>6. VolumeTypeOK'
  BY <1>1, <1>2 DEF VolumeTypeOK, Stages
<1>7. /\ \A s, op : Request(r, op, s)' = Request(r, op, s)
      /\ Share(r)' = Share(r) /\ Nb(r)' = Nb(r)
  BY DEF Request, At, Share, Nb, Ranks
<1>8. RankOK(r)'
  BY <1>1, <1>2, <1>4, <1>5, <1>7 DEF RankOK
<1>9. SameEdges(r)
  BY <1>1, <1>4, <1>5, <1>7 DEF SameEdges, Count
<1> QED
  BY <1>1, <1>5, <1>6, <1>8, <1>9, OneRank

\* Ranks that wait for nothing go on to a place where they wait for nothing.
LEMMA StagesMove ==
  ASSUME VolumeInv, Bordered,
         UNCHANGED <<rows, n_ranks, job, dataset, iter, own, recon, reqs, chan>>,
         stage' \in [Ranks -> Stages],
         \A r \in Ranks : \/ stage'[r] = stage[r]
                          \/ /\ reqs[r] = {} /\ stage[r] \notin {"begin", "thrown", "update"}
                             /\ stage'[r] \notin {"begin", "thrown", "update", "waitall"}
  PROVE  VolumeInv'
<1>1. VolumeTypeOK'
  BY DEF VolumeInv, BorderInv, VolumeTypeOK, Ranks
<1>2. ASSUME NEW r \in Ranks
      PROVE  RankOK(r)' /\ SameEdges(r)
  <2>1. RankOK(r)
    BY DEF VolumeInv, BorderInv
  <2>2. CASE stage'[r] = stage[r]
    BY <2>1, <2>2, RankStays DEF SameRank
  <2>3. CASE /\ reqs[r] = {} /\ stage[r] \notin {"begin", "thrown", "update"}
             /\ stage'[r] \notin {"begin", "thrown", "update", "waitall"}
    <3>1. Share(r)' = Share(r)
      BY DEF Share
    <3>2. RankOK(r)'
      BY <2>1, <2>3, <3>1 DEF RankOK
    <3>3. SameEdges(r)
      BY <2>3 DEF SameEdges, Count
    <3> QED
      BY <3>2, <3>3
  <2> QED
    BY <2>2, <2>3
<1> QED
  BY <1>1, <1>2, QuietStep

\* A rank has all its answers, or is through with its iterations, or writes.
LEMMA RankMovesOn ==
  ASSUME VolumeInv, Bordered, UNCHANGED <<rows, n_ranks, job, dataset>>, NEW r \in Ranks,
         Waitall(r) \/ BeginWrite(r) \/ Write(r)
  PROVE  VolumeInv'
<1>1. PICK b \in {"iterate", "create", "close"} : stage' = [stage EXCEPT ![r] = b]
  BY DEF Waitall, BeginWrite, Write
<1>2. /\ stage[r] \in {"waitall", "iterate", "write"}
      /\ stage[r] = "waitall" => reqs[r] = {}
      /\ UNCHANGED <<iter, own, recon, reqs, chan>>
  BY DEF Waitall, BeginWrite, Write, Complete
<1>3. RankOK(r) /\ stage \in [Ranks -> Stages]
  BY DEF VolumeInv, BorderInv, VolumeTypeOK
<1>4. reqs[r] = {}
  BY <1>2, <1>3 DEF RankOK
<1>5. /\ stage' \in [Ranks -> Stages] /\ stage'[r] = b
      /\ \A u \in Ranks \ {r} : stage'[u] = stage[u]
  BY <1>1, <1>3 DEF Stages
<1> QED
  BY <1>2, <1>4, <1>5, StagesMove

\* All ranks create the file, or close it.
LEMMA CollectiveOK ==
  ASSUME VolumeInv, Bordered, UNCHANGED <<rows, n_ranks, job, dataset>>, Create \/ Close
  PROVE  VolumeInv'
<1>1. PICK b \in {"write", "done"} : stage' = [r \in Ranks |-> b]
  BY DEF Create, Close
<1>2. /\ \A r \in Ranks : stage[r] \in {"create", "close"}
      /\ UNCHANGED <<iter, own, recon, reqs, chan>>
  BY DEF Create, Close, Everywhere
<1>3. \A r \in Ranks : reqs[r] = {}
  BY <1>2 DEF VolumeInv, BorderInv, RankOK
<1>4. stage' \in [Ranks -> Stages] /\ \A r \in Ranks : stage'[r] = b
  BY <1>1 DEF Stages
<1>5. \A r \in Ranks : /\ reqs[r] = {} /\ stage[r] \notin {"begin", "thrown", "update"}
                       /\ stage'[r] \notin {"begin", "thrown", "update", "waitall"}
  BY <1>1, <1>2, <1>3, <1>4
<1> QED
  BY <1>2, <1>4, <1>5, StagesMove

\* Counts are numbers: a rank that sends or receives has iterated.
LEMMA CountTyped ==
  ASSUME VolumeInv, Bordered, NEW r \in Ranks, NEW op, NEW s
  PROVE  Count(r, op, s) \in Nat
<1>1. RankOK(r) /\ iter[r] \in Nat
  BY DEF VolumeInv, BorderInv, VolumeTypeOK
<1>2. stage[r] = "update" \/ Request(r, op, s) \in reqs[r] => iter[r] > 0
  BY <1>1 DEF RankOK
<1> QED
  BY <1>1, <1>2 DEF Count

\* A pending request is of the row that the kind and the neighbour say; when it is
\* complete only this count has changed.
LEMMA RequestDone ==
  ASSUME VolumeInv, Bordered, UNCHANGED <<rows, n_ranks, iter, stage>>,
         NEW r \in Ranks, NEW q \in reqs[r], reqs' = [reqs EXCEPT ![r] = reqs[r] \ {q}]
  PROVE  /\ q.peer \in Nb(r) /\ q = Request(r, q.op, q.peer) /\ stage[r] = "waitall"
         /\ q.op \in {"send", "recv"} /\ q.at = At(r, q.op, q.peer)
         /\ Count(r, q.op, q.peer) = iter[r] - 1 /\ Count(r, q.op, q.peer)' = iter[r]
         /\ \A u \in Ranks : \A s, op :
              u # r \/ s # q.peer \/ op # q.op => Count(u, op, s)' = Count(u, op, s)
<1>1. RankOK(r) /\ DOMAIN reqs = Ranks
  BY DEF VolumeInv, BorderInv, VolumeTypeOK
<1>2. PICK s \in Nb(r), op \in {"send", "recv"} : q = Request(r, op, s)
  BY <1>1 DEF RankOK
<1>3. q.peer = s /\ q.op = op /\ q.at = At(r, op, s)
  BY <1>2 DEF Request
<1>4. stage[r] = "waitall"
  BY <1>1 DEF RankOK
<1>5. reqs'[r] = reqs[r] \ {q} /\ \A u \in Ranks \ {r} : reqs'[u] = reqs[u]
  BY <1>1
<1>6. \A u, o, v : Request(u, o, v)' = Request(u, o, v)
  BY DEF Request, At, Share
<1>7. Count(r, op, s) = iter[r] - 1 /\ Count(r, op, s)' = iter[r]
  BY <1>2, <1>4, <1>5, <1>6 DEF Count
<1>8. ASSUME NEW u \in Ranks, NEW v, NEW o, u # r \/ v # s \/ o # op
      PROVE  Count(u, o, v)' = Count(u, o, v)
  <2>1. Request(u, o, v) \in reqs'[u] <=> Request(u, o, v) \in reqs[u]
    <3>1. CASE u # r
      BY <1>5, <3>1
    <3>2. CASE u = r
      <4>1. Request(r, o, v) # q
        BY <1>2, <1>8, <3>2, RequestsDiffer
      <4> QED
        BY <1>5, <3>2, <4>1
    <3> QED
      BY <3>1, <3>2
  <2> QED
    BY <1>6, <2>1 DEF Count
<1> QED
  BY <1>2, <1>3, <1>4, <1>7, <1>8

\* A row leaves: it is the edge of the iteration that the rank has done.
LEMMA DepartOK ==
  ASSUME VolumeInv, Bordered, UNCHANGED <<rows, n_ranks, job, dataset>>,
         NEW r \in Ranks, NEW q \in reqs[r], Depart(r, q)
  PROVE  VolumeInv'
<1> DEFINE s == q.peer
           n == Share(r).n
<1>1. /\ q.op = "send"
      /\ chan' = [chan EXCEPT ![r][q.peer] = Append(chan[r][q.peer], recon[r][q.at])]
      /\ reqs' = [reqs EXCEPT ![r] = reqs[r] \ {q}]
      /\ UNCHANGED <<stage, iter, own, recon>>
  BY DEF Depart
<1>2. /\ s \in Nb(r) /\ stage[r] = "waitall" /\ q.at = At(r, "send", s)
      /\ Count(r, "send", s) = iter[r] - 1 /\ Count(r, "send", s)' = iter[r]
      /\ \A u \in Ranks : \A v, op : u # r \/ v # s \/ op # "send" => Count(u, op, v)' = Count(u, op, v)
  <2>1. /\ q.peer \in Nb(r) /\ stage[r] = "waitall" /\ q.at = At(r, q.op, q.peer)
        /\ Count(r, q.op, q.peer) = iter[r] - 1 /\ Count(r, q.op, q.peer)' = iter[r]
        /\ \A u \in Ranks : \A v, op :
             u # r \/ v # q.peer \/ op # q.op => Count(u, op, v)' = Count(u, op, v)
    BY <1>1, RequestDone
  <2> QED
    BY <1>1, <2>1, Zenon
<1>3. /\ s \in Ranks /\ r \in Nb(s) /\ r # s /\ r \in Int /\ s \in Int
      /\ n \in Nat /\ n >= 1 /\ Share(r).beg \in Nat
  BY <1>2, Neighbours, Shares DEF VolumeInv, Bordered
<1>4. /\ VolumeTypeOK /\ RankOK(r) /\ iter[r] \in Nat /\ chan[r][s] \in Seq(RowSet)
      /\ chan \in [Ranks -> [Ranks -> Seq(RowSet)]] /\ DOMAIN reqs = Ranks
  BY <1>3 DEF VolumeInv, BorderInv, VolumeTypeOK
<1>5. recon[r][q.at] = Edge(r, s, iter[r]) /\ recon[r][q.at] \in RowSet
  <2>1. q.at = (IF s < r THEN 1 ELSE n) /\ q.at \in 1 .. n /\ q.at \in 0 .. n + 1
    BY <1>2, <1>3 DEF At
  <2>2. /\ recon[r][q.at] = [row |-> Share(r).beg + q.at - 1, iter |-> iter[r]]
        /\ recon[r][q.at] \in RowSet
    BY <1>2, <1>4, <2>1 DEF RankOK
  <2>3. Share(r).beg + 1 - 1 = Share(r).beg
    BY <1>3
  <2> QED
    BY <2>1, <2>2, <2>3 DEF Edge
<1>6. /\ chan'[r][s] = Append(chan[r][s], recon[r][q.at])
      /\ \A u, v \in Ranks : u # r \/ v # s => chan'[u][v] = chan[u][v]
      /\ chan' \in [Ranks -> [Ranks -> Seq(RowSet)]]
  BY <1>1, <1>3, <1>4, <1>5
<1>7. /\ Ranks' = Ranks /\ Share(r)' = Share(r)
      /\ \A u \in Ranks : Nb(u)' = Nb(u)
      /\ \A u, v, op, i : Edge(u, v, i)' = Edge(u, v, i) /\ At(u, op, v)' = At(u, op, v)
      /\ \A u, v, op : Request(u, op, v)' = Request(u, op, v)
  BY DEF Ranks, Share, Nb, Edge, At, Request
<1>8. VolumeTypeOK'
  BY <1>1, <1>4, <1>6, <1>7 DEF VolumeTypeOK
<1>9. ASSUME NEW u \in Ranks
      PROVE  RankOK(u)'
  <2>1. RankOK(u)
    BY DEF VolumeInv, BorderInv
  <2>2. CASE u = r
    <3>1. reqs'[r] \subseteq reqs[r]
      BY <1>1, <1>4
    <3> QED
      BY <1>1, <1>2, <1>7, <2>1, <2>2, <3>1 DEF RankOK
  <2>3. CASE u # r
    <3>1. SameRank(u)
      BY <1>1, <1>4, <2>3 DEF SameRank
    <3> QED
      BY <2>1, <3>1, RankStays
  <2> QED
    BY <2>2, <2>3
<1>10. EdgeOK(r, s)'
  <2> DEFINE got == Count(s, "recv", r)
             c == chan[r][s]
  <2>1. /\ got \in Nat /\ Count(s, "recv", r)' = got
    BY <1>2, <1>3, CountTyped
  <2>2. /\ Len(c) = iter[r] - 1 - got
        /\ \A i \in 1 .. Len(c) : c[i] = Edge(r, s, got + i)
        /\ got > 0 => recon[s][At(s, "recv", r)] = Edge(r, s, got)
    BY <1>2 DEF EdgeOK, VolumeInv, BorderInv
  <2> HIDE DEF got, c
  <2>3. /\ Len(chan'[r][s]) = Len(c) + 1 /\ Len(c) \in Nat
        /\ \A i \in 1 .. Len(c) : chan'[r][s][i] = c[i]
        /\ chan'[r][s][Len(c) + 1] = Edge(r, s, iter[r])
    BY <1>4, <1>5, <1>6 DEF c
  <2>4. Len(chan'[r][s]) = iter[r] - got /\ got + (Len(c) + 1) = iter[r]
    <3>1. iter[r] \in Nat /\ Len(c) \in Nat /\ got \in Nat /\ Len(c) = iter[r] - 1 - got
      BY <1>4, <2>1, <2>2, <2>3
    <3>2. Len(c) + 1 = iter[r] - got /\ got + (Len(c) + 1) = iter[r]
      BY <3>1
    <3> QED
      BY <2>3, <3>2
  <2>5. ASSUME NEW i \in 1 .. Len(chan'[r][s])
        PROVE  chan'[r][s][i] = Edge(r, s, got + i)
    <3>1. i \in 1 .. Len(c) \/ i = Len(c) + 1
      BY <2>3
    <3> QED
      BY <2>2, <2>3, <2>4, <3>1
  <2> QED
    BY <1>1, <1>2, <1>7, <2>1, <2>2, <2>4, <2>5 DEF EdgeOK, got
<1>11. ASSUME NEW u \in Ranks, NEW v \in Nb(u)
       PROVE  EdgeOK(u, v)'
  <2>1. v \in Ranks /\ EdgeOK(u, v)
    BY Neighbours DEF VolumeInv, BorderInv
  <2>2. CASE u # r \/ v # s
    <3>1. Count(u, "send", v)' = Count(u, "send", v) /\ Count(v, "recv", u)' = Count(v, "recv", u)
      BY <1>2, <2>1, <2>2
    <3> QED
      BY <1>1, <1>6, <2>1, <2>2, <3>1, EdgeStays
  <2> QED
    BY <1>10, <2>2
<1> QED
  BY <1>7, <1>8, <1>9, <1>11 DEF VolumeInv, BorderInv

\* A row arrives: it is the oldest that is under way, and goes into the border on
\* the side of its sender.
LEMMA ArriveOK ==
  ASSUME VolumeInv, Bordered, UNCHANGED <<rows, n_ranks, job, dataset>>,
         NEW r \in Ranks, NEW q \in reqs[r], Arrive(r, q)
  PROVE  VolumeInv'
<1> DEFINE s == q.peer
           n == Share(r).n
           c == chan[s][r]
           got == Count(r, "recv", s)
           sent == Count(s, "send", r)
<1>1. /\ q.op = "recv" /\ c # << >>
      /\ recon' = [recon EXCEPT ![r] = [recon[r] EXCEPT ![q.at] = Head(c)]]
      /\ chan' = [chan EXCEPT ![q.peer][r] = Tail(c)]
      /\ reqs' = [reqs EXCEPT ![r] = reqs[r] \ {q}]
      /\ UNCHANGED <<stage, iter, own>>
  BY DEF Arrive
<1>2. /\ s \in Nb(r) /\ stage[r] = "waitall" /\ q.at = At(r, "recv", s)
      /\ got = iter[r] - 1 /\ got' = iter[r]
      /\ \A u \in Ranks : \A v, op : u # r \/ v # s \/ op # "recv" => Count(u, op, v)' = Count(u, op, v)
  <2>1. /\ q.peer \in Nb(r) /\ stage[r] = "waitall" /\ q.at = At(r, q.op, q.peer)
        /\ Count(r, q.op, q.peer) = iter[r] - 1 /\ Count(r, q.op, q.peer)' = iter[r]
        /\ \A u \in Ranks : \A v, op :
             u # r \/ v # q.peer \/ op # q.op => Count(u, op, v)' = Count(u, op, v)
    BY <1>1, RequestDone
  <2> QED
    BY <1>1, <2>1, Zenon
<1>3. /\ s \in Ranks /\ r \in Nb(s) /\ r # s /\ r \in Int /\ s \in Int
      /\ n \in Nat /\ n >= 1 /\ Share(r).beg \in Nat
  BY <1>2, Neighbours, Shares DEF VolumeInv, Bordered
<1>4. /\ VolumeTypeOK /\ RankOK(r) /\ iter[r] \in Nat /\ c \in Seq(RowSet)
      /\ chan \in [Ranks -> [Ranks -> Seq(RowSet)]] /\ DOMAIN reqs = Ranks /\ DOMAIN recon = Ranks
  BY <1>3 DEF VolumeInv, BorderInv, VolumeTypeOK
<1>5. /\ Len(c) = sent - got /\ got \in Nat /\ sent \in Nat
      /\ \A i \in 1 .. Len(c) : c[i] = Edge(s, r, got + i)
  BY <1>3, CountTyped DEF EdgeOK, VolumeInv, BorderInv
<1>6. /\ Len(c) \in Nat /\ Len(c) >= 1 /\ Head(c) = c[1] /\ Head(c) \in RowSet
      /\ Tail(c) \in Seq(RowSet) /\ Len(Tail(c)) = Len(c) - 1
      /\ \A i \in 1 .. Len(c) - 1 : Tail(c)[i] = c[i + 1]
  <2> HIDE DEF c
  <2> QED
    BY <1>1, <1>4
<1>7. /\ chan'[s][r] = Tail(c)
      /\ \A u, v \in Ranks : u # s \/ v # r => chan'[u][v] = chan[u][v]
      /\ chan' \in [Ranks -> [Ranks -> Seq(RowSet)]]
  BY <1>1, <1>3, <1>4, <1>6
<1>8. /\ recon[r] \in [0 .. n + 1 -> RowSet]
      /\ \A i \in 1 .. n : recon[r][i] = [row |-> Share(r).beg + i - 1, iter |-> iter[r]]
  BY <1>2, <1>4 DEF RankOK
<1>9. q.at = (IF s < r THEN 0 ELSE n + 1) /\ q.at \in 0 .. n + 1 /\ q.at \notin 1 .. n
  BY <1>2, <1>3 DEF At
<1>10. /\ recon'[r][q.at] = Head(c)
       /\ \A i \in 0 .. n + 1 : i # q.at => recon'[r][i] = recon[r][i]
       /\ recon'[r] \in [0 .. n + 1 -> RowSet]
       /\ \A u \in Ranks \ {r} : recon'[u] = recon[u]
  <2> HIDE DEF n, c
  <2>1. recon'[r] = [recon[r] EXCEPT ![q.at] = Head(c)] /\ \A u \in Ranks \ {r} : recon'[u] = recon[u]
    BY <1>1, <1>4
  <2> QED
    BY <1>6, <1>8, <1>9, <2>1
<1>11. /\ Ranks' = Ranks /\ Share(r)' = Share(r)
       /\ \A u \in Ranks : Nb(u)' = Nb(u)
       /\ \A u, v, i : Edge(u, v, i)' = Edge(u, v, i)
       /\ \A u, v, op : At(u, op, v)' = At(u, op, v) /\ Request(u, op, v)' = Request(u, op, v)
  BY DEF Ranks, Share, Nb, Edge, At, Request
<1>12. VolumeTypeOK'
  BY <1>1, <1>4, <1>7, <1>11 DEF VolumeTypeOK
<1>13. ASSUME NEW u \in Ranks
       PROVE  RankOK(u)'
  <2>1. RankOK(u)
    BY DEF VolumeInv, BorderInv
  <2>2. CASE u = r
    <3>1. reqs'[r] \subseteq reqs[r]
      BY <1>1, <1>4
    <3>2. \A i \in 1 .. n : recon'[r][i] = [row |-> Share(r).beg + i - 1, iter |-> iter[r]]
      <4> TAKE i \in 1 .. n
      <4>1. i \in 0 .. n + 1 /\ i # q.at
        BY <1>3, <1>9
      <4> QED
        BY <1>8, <1>10, <4>1
    <3> QED
      BY <1>1, <1>2, <1>10, <1>11, <2>1, <2>2, <3>1, <3>2 DEF RankOK
  <2>3. CASE u # r
    <3>1. SameRank(u)
      BY <1>1, <1>4, <1>10, <2>3 DEF SameRank
    <3> QED
      BY <2>1, <3>1, RankStays
  <2> QED
    BY <2>2, <2>3
<1>14. EdgeOK(s, r)'
  <2>1. sent' = sent /\ got' = got + 1
    <3>1. Count(s, "send", r)' = Count(s, "send", r)
      BY <1>2, <1>3
    <3>2. got' = iter[r] /\ iter[r] = got + 1
      BY <1>2, <1>4
    <3> QED
      BY <3>1, <3>2, Zenon
  <2>2. recon'[r][At(r, "recv", s)] = Edge(s, r, got + 1)
    BY <1>2, <1>5, <1>6, <1>10
  <2>3. Len(chan'[s][r]) = sent - (got + 1)
    <3> HIDE DEF got, sent, c
    <3> QED
      BY <1>5, <1>6, <1>7
  <2>4. ASSUME NEW i \in 1 .. Len(chan'[s][r])
        PROVE  chan'[s][r][i] = Edge(s, r, (got + 1) + i)
    <3> HIDE DEF got, sent, c
    <3>1. i \in 1 .. Len(c) - 1 /\ i + 1 \in 1 .. Len(c) /\ got + (i + 1) = (got + 1) + i
      BY <1>5, <1>6, <1>7
    <3> QED
      BY <1>5, <1>6, <1>7, <3>1
  <2> QED
    BY <1>11, <2>1, <2>2, <2>3, <2>4 DEF EdgeOK
<1>15. ASSUME NEW u \in Ranks, NEW v \in Nb(u)
       PROVE  EdgeOK(u, v)'
  <2>1. v \in Ranks /\ EdgeOK(u, v)
    BY Neighbours DEF VolumeInv, BorderInv
  <2>2. CASE u # s \/ v # r
    <3>1. Count(u, "send", v)' = Count(u, "send", v) /\ Count(v, "recv", u)' = Count(v, "recv", u)
      BY <1>2, <2>1, <2>2
    <3>2. recon'[v][At(v, "recv", u)] = recon[v][At(v, "recv", u)]
      <4>1. CASE v # r
        BY <1>10, <2>1, <4>1
      <4>2. CASE v = r
        <5>1. u # s /\ u \in Nb(r)
          BY <2>1, <2>2, <4>2, Neighbours DEF VolumeInv
        <5>2. (u < r /\ ~(s < r)) \/ (~(u < r) /\ s < r)
          BY <1>2, <1>3, <5>1, Neighbours DEF VolumeInv
        <5>3. At(r, "recv", u) \in 0 .. n + 1 /\ At(r, "recv", u) # q.at
          BY <1>3, <1>9, <5>2 DEF At
        <5> QED
          BY <1>10, <4>2, <5>3
      <4> QED
        BY <4>1, <4>2
    <3> QED
      BY <1>7, <2>1, <2>2, <3>1, <3>2, EdgeStays
  <2> QED
    BY <1>14, <2>2
<1> QED
  BY <1>11, <1>12, <1>13, <1>15 DEF VolumeInv, BorderInv

\* Every step preserves the invariant.
LEMMA VolumeNextOK == VolumeInv /\ [VolumeNext]_<<vars, volvars>> => VolumeInv'
<1> SUFFICES ASSUME VolumeInv, [VolumeNext]_<<vars, volvars>>
             PROVE  VolumeInv'
  OBVIOUS
<1>1. UNCHANGED <<rows, n_ranks, job, dataset>>
  BY SizesStay
<1>2. CASE ~Bordered
  BY <1>1, <1>2 DEF VolumeInv, Bordered
<1>3. CASE Bordered
  <2> USE <1>1, <1>3
  <2>1. job = "slices" /\ ~Copying
    BY DEF Bordered, Copying
  <2>2. CASE UNCHANGED <<vars, volvars>>
    <3>1. UNCHANGED <<stage, iter, own, recon, reqs, chan>>
      BY <2>2 DEF volvars
    <3>2. VolumeTypeOK'
      BY <3>1 DEF VolumeInv, BorderInv, VolumeTypeOK, Ranks
    <3>3. \A r \in Ranks : SameRank(r)
      BY <3>1 DEF SameRank
    <3>4. \A r \in Ranks : RankOK(r)' /\ SameEdges(r)
      BY <3>3, RankStays DEF VolumeInv, BorderInv
    <3> QED
      BY <3>1, <3>2, <3>4, QuietStep
  <2>3. ~Distribute /\ \A r \in Ranks : ~TakeAnnounced(r) /\ ~LoadTheta(r) /\ ~WriteData(r)
    BY <2>1 DEF Distribute, TakeAnnounced, LoadTheta, WriteData
  <2>4. ASSUME NEW r \in Ranks,
               Throw(r) \/ Load(r) \/ Iterate(r) \/ Post(r) \/ Waitall(r) \/ BeginWrite(r) \/ Write(r)
        PROVE  VolumeInv'
    BY <2>4, ThrowOK, LoadOK, IterateOK, PostOK, RankMovesOn
  <2>5. ASSUME NEW r \in Ranks, NEW q \in reqs[r], Depart(r, q) \/ Arrive(r, q)
        PROVE  VolumeInv'
    BY <2>5, DepartOK, ArriveOK
  <2>6. CASE Create \/ Close
    BY <2>6, CollectiveOK
  <2>7. CASE Ended
    BY <2>2, <2>7 DEF Ended
  <2> QED
    BY <2>2, <2>3, <2>4, <2>5, <2>6, <2>7 DEF VolumeNext
<1> QED
  BY <1>2, <1>3

\* The inductive invariant of the ranks that exchange rows, for any number of
\* them, any volume and any number of iterations.
THEOREM VolumeInvariant == VolumeSpec => []VolumeInv
BY VolumeInitOK, VolumeNextOK, PTL DEF VolumeSpec

\* A rank that iterates has around its own rows the neighbours' rows of the same
\* iteration, however much faster or slower they are and whenever MPI moves the
\* rows (GlobalNeighborUpdate).
THEOREM NewestBorders == VolumeSpec => []HaloIsNewest
<1>1. VolumeInv => HaloIsNewest
  <2> SUFFICES ASSUME VolumeInv, Bordered, NEW r \in Ranks, stage[r] = "iterate", iter[r] > 0
               PROVE  /\ r > 0 => recon[r][0] = [row |-> own[r].beg - 1, iter |-> iter[r]]
                      /\ r < n_ranks - 1 =>
                           recon[r][own[r].n + 1] = [row |-> own[r].beg + own[r].n, iter |-> iter[r]]
    BY DEF HaloIsNewest, Bordered
  <2>1. /\ rows \in Nat /\ n_ranks \in Nat \ {0} /\ rows >= n_ranks
        /\ own[r] = Share(r) /\ reqs[r] = {} /\ r \in Int
    BY DEF VolumeInv, BorderInv, RankOK, Bordered, Ranks
  <2>2. ASSUME NEW s \in Nb(r)
        PROVE  recon[r][At(r, "recv", s)] = Edge(s, r, iter[r])
    <3>1. s \in Ranks /\ r \in Nb(s)
      BY <2>1, Neighbours
    <3>2. Count(r, "recv", s) = iter[r]
      BY <2>1, NothingPending
    <3> QED
      BY <3>1, <3>2 DEF VolumeInv, BorderInv, EdgeOK
  <2>3. ASSUME r > 0
        PROVE  recon[r][0] = [row |-> own[r].beg - 1, iter |-> iter[r]]
    <3>1. r - 1 \in Nb(r) /\ r - 1 \in Ranks /\ (r - 1) + 1 = r /\ r - 1 < r /\ ~(r < r - 1)
      BY <2>1, <2>3 DEF Nb, Ranks
    <3>2. /\ Share(r - 1).beg \in Nat /\ Share(r - 1).n \in Nat
          /\ Share(r - 1).beg + Share(r - 1).n = Share(r).beg
      BY <2>1, <3>1, Shares
    <3>3. Share(r - 1).beg + Share(r - 1).n - 1 = Share(r).beg - 1
      BY <3>2
    <3>4. recon[r][0] = [row |-> Share(r - 1).beg + Share(r - 1).n - 1, iter |-> iter[r]]
      BY <2>2, <3>1 DEF At, Edge
    <3> QED
      BY <2>1, <3>3, <3>4
  <2>4. ASSUME r < n_ranks - 1
        PROVE  recon[r][own[r].n + 1] = [row |-> own[r].beg + own[r].n, iter |-> iter[r]]
    <3>1. r + 1 \in Nb(r) /\ ~(r + 1 < r) /\ r < r + 1
      BY <2>1, <2>4 DEF Nb, Ranks
    <3>2. Share(r + 1).beg = Share(r).beg + Share(r).n
      BY <2>1, Shares
    <3> QED
      BY <2>1, <2>2, <3>1, <3>2 DEF At, Edge
  <2> QED
    BY <2>3, <2>4
<1> QED
  BY <1>1, VolumeInvariant, PTL

-----------------------------------------------------------------------------
(* Selections: boxes of elements, and the order of their elements.         *)

Triples == Nat \X Nat \X Nat

\* The elements from b on, m of them along each dimension.
Box(b, m) == (b[1] .. b[1] + m[1] - 1) \X (b[2] .. b[2] + m[2] - 1) \X (b[3] .. b[3] + m[3] - 1)

\* Where element e is, seen from b; what is at e, seen from b.
From(b, e) == <<e[1] - b[1], e[2] - b[2], e[3] - b[3]>>
Onto(b, e) == <<b[1] + e[1], b[2] + e[2], b[3] + e[3]>>

\* How many elements there are, and where number o is.
Size(m) == (m[1] * m[2]) * m[3]
Place(o, m) == <<(o \div m[3]) \div m[2], (o \div m[3]) % m[2], o % m[3]>>

\* The order of the elements, dimension by dimension.
Before(c, e) == \/ c[1] < e[1]
                \/ c[1] = e[1] /\ c[2] < e[2]
                \/ c[1] = e[1] /\ c[2] = e[2] /\ c[3] < e[3]

\* A number of two digits is smaller if its first digit is, or its second.
LEMMA Digits ==
  ASSUME NEW d \in Nat, NEW a \in Nat, NEW e \in Nat, NEW p \in 0 .. d - 1, NEW q \in 0 .. d - 1
  PROVE  /\ a * d + p \in Nat
         /\ a * d + p < e * d + q <=> a < e \/ (a = e /\ p < q)
<1>1. ASSUME NEW x \in Nat, NEW y \in Nat, NEW u \in 0 .. d - 1, NEW v \in 0 .. d - 1, x < y
      PROVE  x * d + u < y * d + v
  <2>1. y - x \in Nat /\ y - x >= 1 /\ x * d \in Nat /\ y * d \in Nat
    BY <1>1
  <2>2. (y - x) * d >= d
    BY <2>1
  <2>3. y * d = x * d + (y - x) * d
    BY <2>1
  <2>4. (y - x) * d \in Nat
    BY <2>1
  <2> QED
    BY <2>1, <2>2, <2>3, <2>4
<1>2. a * d \in Nat /\ e * d \in Nat
  OBVIOUS
<1>3. CASE a < e
  BY <1>1, <1>2, <1>3
<1>4. CASE a = e
  BY <1>2, <1>4
<1>5. CASE e < a
  <2>1. e * d + q < a * d + p
    BY <1>1, <1>5
  <2> QED
    BY <1>2, <1>5, <2>1
<1> QED
  BY <1>3, <1>4, <1>5

\* Row-major order is the order of the dimensions.
LEMMA RowMajor ==
  ASSUME NEW dims \in Triples, NEW c \in Extent(dims), NEW e \in Extent(dims)
  PROVE  /\ Linear(c, dims) \in Nat
         /\ Linear(c, dims) < Linear(e, dims) <=> Before(c, e)
         /\ Linear(c, dims) = Linear(e, dims) => c = e
<1>1. /\ dims[2] \in Nat /\ dims[3] \in Nat
      /\ c[1] \in Nat /\ c[2] \in 0 .. dims[2] - 1 /\ c[3] \in 0 .. dims[3] - 1
      /\ e[1] \in Nat /\ e[2] \in 0 .. dims[2] - 1 /\ e[3] \in 0 .. dims[3] - 1
      /\ c = <<c[1], c[2], c[3]>> /\ e = <<e[1], e[2], e[3]>>
  BY DEF Triples, Extent
<1> DEFINE a == c[1] * dims[2] + c[2]
           f == e[1] * dims[2] + e[2]
<1>2. /\ a \in Nat /\ f \in Nat
      /\ a < f <=> c[1] < e[1] \/ (c[1] = e[1] /\ c[2] < e[2])
      /\ f < a <=> e[1] < c[1] \/ (e[1] = c[1] /\ e[2] < c[2])
  <2>1. a \in Nat /\ (a < f <=> c[1] < e[1] \/ (c[1] = e[1] /\ c[2] < e[2]))
    <3> DEFINE x == c[1]
               y == e[1]
               u == c[2]
               v == e[2]
               d == dims[2]
    <3>1. x \in Nat /\ y \in Nat /\ d \in Nat /\ u \in 0 .. d - 1 /\ v \in 0 .. d - 1
      BY <1>1
    <3> HIDE DEF x, y, u, v, d
    <3>2. x * d + u \in Nat /\ (x * d + u < y * d + v <=> x < y \/ (x = y /\ u < v))
      BY <3>1, Digits
    <3> QED
      BY <3>2 DEF x, y, u, v, d
  <2>2. f \in Nat /\ (f < a <=> e[1] < c[1] \/ (e[1] = c[1] /\ e[2] < c[2]))
    <3> DEFINE x == c[1]
               y == e[1]
               u == c[2]
               v == e[2]
               d == dims[2]
    <3>1. x \in Nat /\ y \in Nat /\ d \in Nat /\ u \in 0 .. d - 1 /\ v \in 0 .. d - 1
      BY <1>1
    <3> HIDE DEF x, y, u, v, d
    <3>2. y * d + v \in Nat /\ (y * d + v < x * d + u <=> y < x \/ (y = x /\ v < u))
      BY <3>1, Digits
    <3> QED
      BY <3>2 DEF x, y, u, v, d
  <2> QED
    BY <2>1, <2>2
<1>3. Linear(c, dims) = a * dims[3] + c[3] /\ Linear(e, dims) = f * dims[3] + e[3]
  BY DEF Linear
<1> HIDE DEF a, f
<1>4. /\ Linear(c, dims) \in Nat /\ Linear(e, dims) \in Nat
      /\ Linear(c, dims) < Linear(e, dims) <=> a < f \/ (a = f /\ c[3] < e[3])
      /\ Linear(e, dims) < Linear(c, dims) <=> f < a \/ (f = a /\ e[3] < c[3])
  <2>1. /\ Linear(c, dims) \in Nat
        /\ Linear(c, dims) < Linear(e, dims) <=> a < f \/ (a = f /\ c[3] < e[3])
    <3>1. /\ a * dims[3] + c[3] \in Nat
          /\ a * dims[3] + c[3] < f * dims[3] + e[3] <=> a < f \/ (a = f /\ c[3] < e[3])
      BY <1>1, <1>2, Digits, Zenon
    <3> QED
      BY <1>3, <3>1
  <2>2. /\ Linear(e, dims) \in Nat
        /\ Linear(e, dims) < Linear(c, dims) <=> f < a \/ (f = a /\ e[3] < c[3])
    <3>1. /\ f * dims[3] + e[3] \in Nat
          /\ f * dims[3] + e[3] < a * dims[3] + c[3] <=> f < a \/ (f = a /\ e[3] < c[3])
      BY <1>1, <1>2, Digits, Zenon
    <3> QED
      BY <1>3, <3>1
  <2> QED
    BY <2>1, <2>2
<1>5. a = f <=> c[1] = e[1] /\ c[2] = e[2]
  BY <1>1, <1>2 DEF a, f
<1>6. Linear(c, dims) < Linear(e, dims) <=> Before(c, e)
  BY <1>2, <1>4, <1>5 DEF Before
<1>7. ASSUME Linear(c, dims) = Linear(e, dims)
      PROVE  c = e
  <2>1. ~(a < f) /\ ~(f < a) /\ ~(a = f /\ c[3] < e[3]) /\ ~(f = a /\ e[3] < c[3])
    BY <1>4, <1>7
  <2>2. a = f
    BY <1>2, <2>1
  <2>3. c[3] = e[3]
    BY <1>1, <2>1, <2>2
  <2> QED
    BY <1>1, <1>5, <2>2, <2>3
<1> QED
  BY <1>4, <1>6, <1>7

\* Division, with its remainder.
LEMMA Parts ==
  ASSUME NEW n \in Nat, NEW m \in Nat, NEW d \in Nat, n < m * d
  PROVE  /\ d > 0 /\ n \div d \in 0 .. m - 1 /\ n % d \in 0 .. d - 1
         /\ n = (n \div d) * d + (n % d)
<1>1. d > 0
  <2>1. CASE d = 0
    BY <2>1
  <2> QED
    BY <2>1
<1>2. /\ n \div d \in Nat /\ n % d \in Nat /\ n % d < d /\ n = ((n \div d) * d) + (n % d)
  BY <1>1, DivMod
<1> DEFINE q == n \div d
           l == n % d
<1>3. q \in Nat /\ l \in Nat /\ n = (q * d) + l
  BY <1>2
<1> HIDE DEF q, l
<1>4. ASSUME q >= m
      PROVE  FALSE
  <2>1. q - m \in Nat /\ (q - m) * d >= 0 /\ q * d = m * d + (q - m) * d
    BY <1>3, <1>4
  <2>2. m * d \in Nat /\ q * d \in Nat
    BY <1>3
  <2> QED
    BY <1>3, <2>1, <2>2
<1>5. q \in 0 .. m - 1
  BY <1>3, <1>4
<1> QED
  BY <1>1, <1>2, <1>5 DEF q

\* Every number is the place of one element.
LEMMA PlaceOK ==
  ASSUME NEW m \in Triples, NEW o \in 0 .. Size(m) - 1
  PROVE  Place(o, m) \in Extent(m) /\ Linear(Place(o, m), m) = o
<1>1. m[1] \in Nat /\ m[2] \in Nat /\ m[3] \in Nat /\ m[1] * m[2] \in Nat /\ Size(m) \in Nat
  BY DEF Triples, Size
<1>2. o \in Nat /\ o < (m[1] * m[2]) * m[3]
  BY <1>1 DEF Size
<1> DEFINE n == o \div m[3]
<1>3. n \in 0 .. m[1] * m[2] - 1 /\ o % m[3] \in 0 .. m[3] - 1 /\ o = n * m[3] + (o % m[3])
  BY <1>1, <1>2, Parts
<1> HIDE DEF n
<1>4. n \in Nat /\ n < m[1] * m[2]
  BY <1>1, <1>3
<1>5. n \div m[2] \in 0 .. m[1] - 1 /\ n % m[2] \in 0 .. m[2] - 1 /\ n = (n \div m[2]) * m[2] + (n % m[2])
  BY <1>1, <1>4, Parts
<1>6. Place(o, m) = <<n \div m[2], n % m[2], o % m[3]>>
  BY DEF Place, n
<1> DEFINE a == n \div m[2]
           b == n % m[2]
           c == o % m[3]
<1>7. /\ Place(o, m) = <<a, b, c>> /\ a \in 0 .. m[1] - 1 /\ b \in 0 .. m[2] - 1 /\ c \in 0 .. m[3] - 1
      /\ o = n * m[3] + c /\ n = a * m[2] + b
  BY <1>3, <1>5, <1>6
<1> HIDE DEF a, b, c
<1>8. Place(o, m) \in Extent(m)
  BY <1>7 DEF Extent
<1>9. Linear(Place(o, m), m) = (a * m[2] + b) * m[3] + c
  BY <1>7 DEF Linear
<1> QED
  BY <1>7, <1>8, <1>9

\* Elements are numbered from 0 to the last one.
LEMMA LinearRange ==
  ASSUME NEW m \in Triples, NEW e \in Extent(m)
  PROVE  Linear(e, m) \in 0 .. Size(m) - 1
<1>1. /\ m[1] \in Nat /\ m[2] \in Nat /\ m[3] \in Nat
      /\ e[1] \in 0 .. m[1] - 1 /\ e[2] \in 0 .. m[2] - 1 /\ e[3] \in 0 .. m[3] - 1
  BY DEF Triples, Extent
<1> DEFINE n == e[1] * m[2] + e[2]
           k2 == m[1] * m[2]
<1>2. n \in Nat /\ n < k2 /\ k2 \in Nat
  <2>1. 0 \in 0 .. m[2] - 1 /\ m[1] \in Nat /\ e[1] \in Nat
    BY <1>1
  <2>2. n \in Nat /\ (n < m[1] * m[2] + 0 <=> e[1] < m[1] \/ (e[1] = m[1] /\ e[2] < 0))
    BY <1>1, <2>1, Digits
  <2>3. k2 \in Nat
    BY <1>1
  <2> QED
    BY <1>1, <2>2, <2>3
<1> HIDE DEF n, k2
<1>3. n * m[3] + e[3] \in Nat /\ n * m[3] + e[3] < k2 * m[3]
  <2>1. 0 \in 0 .. m[3] - 1
    BY <1>1
  <2>2. /\ n * m[3] + e[3] \in Nat
        /\ (n * m[3] + e[3] < k2 * m[3] + 0 <=> n < k2 \/ (n = k2 /\ e[3] < 0))
    BY <1>1, <1>2, <2>1, Digits
  <2>3. k2 * m[3] \in Nat
    BY <1>1, <1>2
  <2> QED
    BY <1>2, <2>2, <2>3
<1>4. Linear(e, m) = n * m[3] + e[3] /\ Size(m) = k2 * m[3]
  BY DEF Linear, Size, n, k2
<1>5. Size(m) \in Nat
  BY <1>1, <1>2, <1>4
<1> QED
  BY <1>3, <1>4, <1>5

\* From the element at b, and back.
LEMMA Shifted ==
  ASSUME NEW b \in Triples, NEW m \in Triples
  PROVE  /\ \A e \in Box(b, m) : From(b, e) \in Extent(m) /\ Onto(b, From(b, e)) = e
         /\ \A e \in Extent(m) : Onto(b, e) \in Box(b, m) /\ From(b, Onto(b, e)) = e
<1>1. /\ b[1] \in Nat /\ b[2] \in Nat /\ b[3] \in Nat
      /\ m[1] \in Nat /\ m[2] \in Nat /\ m[3] \in Nat
  BY DEF Triples
<1>2. ASSUME NEW e \in Box(b, m)
      PROVE  From(b, e) \in Extent(m) /\ Onto(b, From(b, e)) = e
  <2>1. /\ e = <<e[1], e[2], e[3]>>
        /\ e[1] \in b[1] .. b[1] + m[1] - 1
        /\ e[2] \in b[2] .. b[2] + m[2] - 1
        /\ e[3] \in b[3] .. b[3] + m[3] - 1
    BY DEF Box
  <2>2. /\ e[1] - b[1] \in 0 .. m[1] - 1 /\ e[2] - b[2] \in 0 .. m[2] - 1
        /\ e[3] - b[3] \in 0 .. m[3] - 1
    BY <1>1, <2>1
  <2>3. b[1] + (e[1] - b[1]) = e[1] /\ b[2] + (e[2] - b[2]) = e[2] /\ b[3] + (e[3] - b[3]) = e[3]
    BY <1>1, <2>1
  <2>4. From(b, e) \in Extent(m)
    BY <2>2 DEF From, Extent
  <2>5. Onto(b, From(b, e)) = <<b[1] + (e[1] - b[1]), b[2] + (e[2] - b[2]), b[3] + (e[3] - b[3])>>
    BY DEF From, Onto
  <2> QED
    BY <2>1, <2>3, <2>4, <2>5
<1>3. ASSUME NEW e \in Extent(m)
      PROVE  Onto(b, e) \in Box(b, m) /\ From(b, Onto(b, e)) = e
  <2>1. /\ e = <<e[1], e[2], e[3]>>
        /\ e[1] \in 0 .. m[1] - 1 /\ e[2] \in 0 .. m[2] - 1 /\ e[3] \in 0 .. m[3] - 1
    BY DEF Extent
  <2>2. /\ b[1] + e[1] \in b[1] .. b[1] + m[1] - 1 /\ b[2] + e[2] \in b[2] .. b[2] + m[2] - 1
        /\ b[3] + e[3] \in b[3] .. b[3] + m[3] - 1
    BY <1>1, <2>1
  <2>3. (b[1] + e[1]) - b[1] = e[1] /\ (b[2] + e[2]) - b[2] = e[2] /\ (b[3] + e[3]) - b[3] = e[3]
    BY <1>1, <2>1
  <2>4. Onto(b, e) \in Box(b, m)
    BY <2>2 DEF Onto, Box
  <2>5. From(b, Onto(b, e)) = <<(b[1] + e[1]) - b[1], (b[2] + e[2]) - b[2], (b[3] + e[3]) - b[3]>>
    BY DEF From, Onto
  <2> QED
    BY <2>1, <2>3, <2>4, <2>5
<1> QED
  BY <1>2, <1>3

\* As many elements of a box lie before number n as n says.
LEMMA CountBox ==
  ASSUME NEW b \in Triples, NEW m \in Triples, NEW n \in 0 .. Size(m)
  PROVE  Cardinality({e \in Box(b, m) : Linear(From(b, e), m) < n}) = n
<1> DEFINE S == {e \in Box(b, m) : Linear(From(b, e), m) < n}
           g == [o \in 0 .. n - 1 |-> Onto(b, Place(o, m))]
<1>1. n \in Nat /\ Size(m) \in Nat /\ n <= Size(m)
  BY DEF Triples, Size
<1>2. ASSUME NEW o \in 0 .. n - 1
      PROVE  /\ Place(o, m) \in Extent(m) /\ Onto(b, Place(o, m)) \in S
             /\ Linear(From(b, Onto(b, Place(o, m))), m) = o
  <2>1. o \in 0 .. Size(m) - 1 /\ o < n
    BY <1>1
  <2>2. Place(o, m) \in Extent(m) /\ Linear(Place(o, m), m) = o
    BY <2>1, PlaceOK
  <2>3. Onto(b, Place(o, m)) \in Box(b, m) /\ From(b, Onto(b, Place(o, m))) = Place(o, m)
    BY <2>2, Shifted
  <2> QED
    BY <2>1, <2>2, <2>3
<1>3. ASSUME NEW e \in S
      PROVE  \E o \in 0 .. n - 1 : g[o] = e
  <2> DEFINE o == Linear(From(b, e), m)
  <2>1. From(b, e) \in Extent(m) /\ Onto(b, From(b, e)) = e /\ o < n
    BY Shifted
  <2>2. o \in 0 .. Size(m) - 1
    BY <2>1, LinearRange
  <2>3. o \in 0 .. n - 1
    BY <1>1, <2>1, <2>2
  <2>4. Place(o, m) \in Extent(m) /\ Linear(Place(o, m), m) = o
    BY <2>2, PlaceOK
  <2>5. Place(o, m) = From(b, e)
    BY <2>1, <2>4, RowMajor
  <2> HIDE DEF o
  <2> QED
    BY <2>1, <2>3, <2>5
<1>4. \A o, p \in 0 .. n - 1 : g[o] = g[p] => o = p
  BY <1>2
<1>5. g \in [0 .. n - 1 -> S]
  BY <1>2
<1> HIDE DEF g, S
<1>6. g \in Bijection(0 .. n - 1, S)
  BY <1>3, <1>4, <1>5 DEF Bijection, Injection, Surjection, IsInjective
<1>7. IsFiniteSet(0 .. n - 1) /\ Cardinality(0 .. n - 1) = n
  <2>1. 0 \in Int /\ n - 1 \in Int
    BY <1>1
  <2>2. /\ IsFiniteSet(0 .. n - 1)
        /\ Cardinality(0 .. n - 1) = IF 0 > n - 1 THEN 0 ELSE (n - 1) - 0 + 1
    BY <2>1, FS_Interval
  <2> QED
    BY <1>1, <2>2
<1>8. Cardinality(S) = Cardinality(0 .. n - 1)
  BY <1>6, <1>7, FS_Bijection DEF ExistsBijection
<1> QED
  BY <1>7, <1>8 DEF S

\* An element of a box has the number there that it has in the box taken out.
LEMMA OrdinalOfBox ==
  ASSUME NEW b \in Triples, NEW m \in Triples, NEW dims \in Triples,
         Box(b, m) \subseteq Extent(dims), NEW c \in Box(b, m)
  PROVE  Ordinal(c, Box(b, m), dims) = Linear(From(b, c), m)
<1> DEFINE n == Linear(From(b, c), m)
<1>1. From(b, c) \in Extent(m)
  BY Shifted
<1>2. n \in 0 .. Size(m)
  <2>1. n \in 0 .. Size(m) - 1 /\ Size(m) \in Nat
    BY <1>1, LinearRange DEF Triples, Size
  <2> QED
    BY <2>1
<1>3. ASSUME NEW e \in Box(b, m)
      PROVE  Linear(e, dims) < Linear(c, dims) <=> Linear(From(b, e), m) < n
  <2>1. From(b, e) \in Extent(m)
    BY Shifted
  <2>2. /\ e[1] \in Int /\ e[2] \in Int /\ e[3] \in Int /\ c[1] \in Int /\ c[2] \in Int /\ c[3] \in Int
        /\ b[1] \in Int /\ b[2] \in Int /\ b[3] \in Int
    BY DEF Box, Triples
  <2>3. Before(e, c) <=> Before(From(b, e), From(b, c))
    <3>1. \A x, y, z \in Int : (x < y <=> x - z < y - z) /\ (x = y <=> x - z = y - z)
      OBVIOUS
    <3>2. /\ From(b, e)[1] = e[1] - b[1] /\ From(b, e)[2] = e[2] - b[2] /\ From(b, e)[3] = e[3] - b[3]
          /\ From(b, c)[1] = c[1] - b[1] /\ From(b, c)[2] = c[2] - b[2] /\ From(b, c)[3] = c[3] - b[3]
      BY DEF From
    <3> QED
      BY <2>2, <3>1, <3>2 DEF Before
  <2>4. Linear(e, dims) < Linear(c, dims) <=> Before(e, c)
    BY RowMajor
  <2>5. Linear(From(b, e), m) < n <=> Before(From(b, e), From(b, c))
    BY <1>1, <2>1, RowMajor
  <2> QED
    BY <2>3, <2>4, <2>5
<1>4. {e \in Box(b, m) : Linear(e, dims) < Linear(c, dims)}
        = {e \in Box(b, m) : Linear(From(b, e), m) < n}
  BY <1>3
<1> QED
  BY <1>2, <1>4, CountBox DEF Ordinal

\* A memory space is the box at the origin.
LEMMA WholeBox ==
  ASSUME NEW m \in Triples
  PROVE  /\ <<0, 0, 0>> \in Triples /\ Extent(m) = Box(<<0, 0, 0>>, m)
         /\ \A e \in Extent(m) : From(<<0, 0, 0>>, e) = e
         /\ Cardinality(Extent(m)) = Size(m)
<1>1. m[1] \in Nat /\ m[2] \in Nat /\ m[3] \in Nat /\ Size(m) \in Nat
  BY DEF Triples, Size
<1>2. <<0, 0, 0>> \in Triples
  BY DEF Triples
<1>3. Extent(m) = Box(<<0, 0, 0>>, m)
  <2>1. /\ 0 + m[1] - 1 = m[1] - 1 /\ 0 + m[2] - 1 = m[2] - 1 /\ 0 + m[3] - 1 = m[3] - 1
    BY <1>1
  <2>2. Box(<<0, 0, 0>>, m) = (0 .. 0 + m[1] - 1) \X (0 .. 0 + m[2] - 1) \X (0 .. 0 + m[3] - 1)
    BY DEF Box
  <2> QED
    BY <2>1, <2>2 DEF Extent
<1>4. ASSUME NEW e \in Extent(m)
      PROVE  From(<<0, 0, 0>>, e) = e
  <2>1. e = <<e[1], e[2], e[3]>> /\ e[1] \in Int /\ e[2] \in Int /\ e[3] \in Int
    BY DEF Extent
  <2>2. e[1] - 0 = e[1] /\ e[2] - 0 = e[2] /\ e[3] - 0 = e[3]
    BY <2>1
  <2>3. From(<<0, 0, 0>>, e) = <<e[1] - 0, e[2] - 0, e[3] - 0>>
    BY DEF From
  <2> QED
    BY <2>1, <2>2, <2>3
<1>5. \A e \in Extent(m) : Linear(From(<<0, 0, 0>>, e), m) < Size(m)
  <2> TAKE e \in Extent(m)
  <2>1. Linear(e, m) \in 0 .. Size(m) - 1
    BY LinearRange
  <2>2. Linear(e, m) < Size(m)
    BY <1>1, <2>1
  <2> QED
    BY <1>4, <2>2
<1>6. {e \in Box(<<0, 0, 0>>, m) : Linear(From(<<0, 0, 0>>, e), m) < Size(m)} = Extent(m)
  BY <1>3, <1>5
<1>7. Size(m) \in 0 .. Size(m)
  BY <1>1
<1>8. Cardinality(Extent(m)) = Size(m)
  BY <1>2, <1>6, <1>7, CountBox
<1> QED
  BY <1>2, <1>3, <1>4, <1>8

\* H5Dread of a box into a memory space of its size puts every element where its
\* place in the box is.
LEMMA ReadBox ==
  ASSUME NEW b \in Triples, NEW m \in Triples, dataset \in Triples,
         Box(b, m) \subseteq Extent(dataset)
  PROVE  H5Dread(Box(b, m), m) = [o \in 0 .. Size(m) - 1 |-> Onto(b, Place(o, m))]
<1> DEFINE sel == Box(b, m)
           mem == Extent(m)
           At2(o) == CHOOSE x \in mem : Linear(x, m) = o
<1>1. Cardinality(sel) = Cardinality(mem) /\ Cardinality(mem) = Size(m)
  <2>1. \A e \in sel : Linear(From(b, e), m) < Size(m)
    <3> TAKE e \in sel
    <3>1. From(b, e) \in mem /\ Size(m) \in Nat
      BY Shifted DEF Triples, Size
    <3>2. Linear(From(b, e), m) \in 0 .. Size(m) - 1
      BY <3>1, LinearRange
    <3> QED
      BY <3>1, <3>2
  <2>2. {e \in Box(b, m) : Linear(From(b, e), m) < Size(m)} = sel
    BY <2>1
  <2>3. Size(m) \in 0 .. Size(m)
    BY DEF Triples, Size
  <2> QED
    BY <2>2, <2>3, CountBox, WholeBox
<1>2. ASSUME NEW o \in 0 .. Size(m) - 1
      PROVE  (CHOOSE c \in sel : Ordinal(c, sel, dataset) = Ordinal(At2(o), mem, m))
               = Onto(b, Place(o, m))
  <2>1. Place(o, m) \in mem /\ Linear(Place(o, m), m) = o
    BY PlaceOK
  <2>2. At2(o) = Place(o, m)
    BY <2>1, RowMajor
  <2>3. Ordinal(Place(o, m), mem, m) = o
    <3>1. Place(o, m) \in Box(<<0, 0, 0>>, m) /\ Box(<<0, 0, 0>>, m) \subseteq Extent(m)
      BY <2>1, WholeBox
    <3>2. Ordinal(Place(o, m), Box(<<0, 0, 0>>, m), m) = Linear(From(<<0, 0, 0>>, Place(o, m)), m)
      BY <3>1, WholeBox, OrdinalOfBox
    <3> QED
      BY <2>1, <3>2, WholeBox
  <2>4. Onto(b, Place(o, m)) \in sel /\ From(b, Onto(b, Place(o, m))) = Place(o, m)
    BY <2>1, Shifted
  <2>5. \A c \in sel : Ordinal(c, sel, dataset) = Linear(From(b, c), m)
    BY OrdinalOfBox
  <2>6. \A c \in sel : Ordinal(c, sel, dataset) = o => c = Onto(b, Place(o, m))
    <3> SUFFICES ASSUME NEW c \in sel, Ordinal(c, sel, dataset) = o
                 PROVE  c = Onto(b, Place(o, m))
      OBVIOUS
    <3>1. From(b, c) \in mem /\ Onto(b, From(b, c)) = c
      BY Shifted
    <3>2. From(b, c) = Place(o, m)
      BY <2>1, <2>5, <3>1, RowMajor
    <3> QED
      BY <3>1, <3>2
  <2>7. Ordinal(Onto(b, Place(o, m)), sel, dataset) = o
    BY <2>1, <2>4, <2>5
  <2> HIDE DEF sel, mem, At2
  <2> QED
    BY <2>2, <2>3, <2>4, <2>6, <2>7
<1>3. H5Dread(sel, m)
        = [o \in 0 .. Cardinality(mem) - 1 |->
             IF sel \subseteq Extent(dataset) /\ Cardinality(sel) = Cardinality(mem)
               THEN CHOOSE c \in sel : Ordinal(c, sel, dataset) = Ordinal(At2(o), mem, m)
               ELSE <<>>]
  BY Zenon DEF H5Dread, Dim
<1> HIDE DEF mem, At2
<1>4. H5Dread(sel, m)
        = [o \in 0 .. Size(m) - 1 |->
             CHOOSE c \in sel : Ordinal(c, sel, dataset) = Ordinal(At2(o), mem, m)]
  <2> DEFINE Found(o) == CHOOSE c \in sel : Ordinal(c, sel, dataset) = Ordinal(At2(o), mem, m)
  <2>1. H5Dread(sel, m)
          = [o \in 0 .. Cardinality(mem) - 1 |->
               IF sel \subseteq Extent(dataset) /\ Cardinality(sel) = Cardinality(mem)
                 THEN Found(o) ELSE <<>>]
    BY <1>3
  <2> HIDE DEF Found
  <2>2. H5Dread(sel, m) = [o \in 0 .. Size(m) - 1 |-> Found(o)]
    BY <1>1, <2>1
  <2> QED
    BY <2>2 DEF Found
<1> QED
  <2> DEFINE Found(o) == CHOOSE c \in sel : Ordinal(c, sel, dataset) = Ordinal(At2(o), mem, m)
  <2>1. H5Dread(sel, m) = [o \in 0 .. Size(m) - 1 |-> Found(o)]
    BY <1>4
  <2>2. \A o \in 0 .. Size(m) - 1 : Found(o) = Onto(b, Place(o, m))
    BY <1>2
  <2> HIDE DEF Found
  <2> QED
    BY <2>1, <2>2

\* The places of a box are numbered by what lies before them.
LEMMA PlaceOfLinear ==
  ASSUME NEW m \in Triples, NEW e \in Extent(m)
  PROVE  Linear(e, m) \in 0 .. Size(m) - 1 /\ Place(Linear(e, m), m) = e
<1>1. Linear(e, m) \in 0 .. Size(m) - 1
  BY LinearRange
<1>2. Place(Linear(e, m), m) \in Extent(m) /\ Linear(Place(Linear(e, m), m), m) = Linear(e, m)
  BY <1>1, PlaceOK
<1> QED
  BY <1>1, <1>2, RowMajor

\* H5Dwrite puts what was read from a box back where it was.
LEMMA WriteBox ==
  ASSUME NEW b \in Triples, NEW m \in Triples, NEW dims \in Triples, NEW file, NEW mem,
         Box(b, m) \subseteq Extent(dims),
         mem = [o \in 0 .. Size(m) - 1 |-> Onto(b, Place(o, m))]
  PROVE  H5Dwrite(file, dims, Box(b, m), mem)
           = [c \in Extent(dims) |-> IF c \in Box(b, m) THEN c ELSE file[c]]
<1>1. ASSUME NEW c \in Box(b, m)
      PROVE  mem[Ordinal(c, Box(b, m), dims)] = c
  <2>1. From(b, c) \in Extent(m) /\ Onto(b, From(b, c)) = c
    BY Shifted
  <2>2. Ordinal(c, Box(b, m), dims) = Linear(From(b, c), m)
    BY OrdinalOfBox
  <2>3. Linear(From(b, c), m) \in 0 .. Size(m) - 1 /\ Place(Linear(From(b, c), m), m) = From(b, c)
    BY <2>1, PlaceOfLinear
  <2> QED
    BY <2>1, <2>2, <2>3
<1> QED
  BY <1>1 DEF H5Dwrite

\* What a selection has along a dimension.
Along(first, count, block) == {first + i + j : i \in 0 .. count - 1, j \in 0 .. block - 1}

\* Along a dimension in which the selection has one block, or blocks of one element.
LEMMA AlongOne ==
  ASSUME NEW o \in Nat, NEW n \in Nat
  PROVE  Along(o, 1, n) = o .. o + n - 1 /\ Along(o, n, 1) = o .. o + n - 1
<1>1. ASSUME NEW x \in o .. o + n - 1
      PROVE  x - o \in 0 .. n - 1 /\ x = o + (x - o) + 0 /\ x = o + 0 + (x - o) /\ 0 \in 0 .. 1 - 1
  OBVIOUS
<1>2. \A i \in 0 .. 1 - 1, j \in 0 .. n - 1 : o + i + j \in o .. o + n - 1
  OBVIOUS
<1>3. \A i \in 0 .. n - 1, j \in 0 .. 1 - 1 : o + i + j \in o .. o + n - 1
  OBVIOUS
<1>4. Along(o, 1, n) = o .. o + n - 1
  <2>1. o .. o + n - 1 \subseteq Along(o, 1, n)
    BY <1>1 DEF Along
  <2>2. Along(o, 1, n) \subseteq o .. o + n - 1
    BY <1>2 DEF Along
  <2> QED
    BY <2>1, <2>2
<1>5. Along(o, n, 1) = o .. o + n - 1
  <2>1. o .. o + n - 1 \subseteq Along(o, n, 1)
    BY <1>1 DEF Along
  <2>2. Along(o, n, 1) \subseteq o .. o + n - 1
    BY <1>3 DEF Along
  <2> QED
    BY <2>1, <2>2
<1> QED
  BY <1>4, <1>5

Run(first, count) == first .. first + count - 1

\* Along a dimension, one block or blocks of one element are a run.
LEMMA Runs ==
  ASSUME NEW b \in Nat, NEW n \in Nat, NEW w \in Nat, NEW c \in Nat
  PROVE  /\ Along(0, 1, w) = Run(0, w) /\ Along(0, w, 1) = Run(0, w) /\ Along(b, n, 1) = Run(b, n)
         /\ Along(0, 1, c) = Run(0, c) /\ Along(0, c, 1) = Run(0, c)
<1>1. \A o \in Nat, m \in Nat : Along(o, 1, m) = Run(o, m) /\ Along(o, m, 1) = Run(o, m)
  BY AlongOne DEF Run
<1>2. 0 \in Nat
  OBVIOUS
<1> QED
  BY <1>1, <1>2

\* A selection is the product of what it has along each dimension.
LEMMA Product ==
  ASSUME NEW o, NEW m, NEW b
  PROVE  Hyperslab(o, m, b) = Along(o[1], m[1], b[1]) \X Along(o[2], m[2], b[2]) \X Along(o[3], m[3], b[3])
BY DEF Hyperslab, Along

\* ReadSlices selects a box.
LEMMA RowsSelected ==
  ASSUME NEW b \in Nat, NEW n \in Nat, NEW w \in Nat, NEW c \in Nat
  PROVE  Hyperslab(<<0, b, 0>>, <<1, n, 1>>, <<w, 1, c>>) = Box(<<0, b, 0>>, <<w, n, c>>)
<1>1. Hyperslab(<<0, b, 0>>, <<1, n, 1>>, <<w, 1, c>>) = Along(0, 1, w) \X Along(b, n, 1) \X Along(0, 1, c)
  BY Product
<1>2. Box(<<0, b, 0>>, <<w, n, c>>) = Run(0, w) \X Run(b, n) \X Run(0, c)
  BY DEF Box, Run
<1> QED
  BY <1>1, <1>2, Runs

\* ReadProjections selects a box.
LEMMA ProjectionsSelected ==
  ASSUME NEW b \in Nat, NEW n \in Nat, NEW w \in Nat, NEW c \in Nat
  PROVE  Hyperslab(<<b, 0, 0>>, <<n, 1, 1>>, <<1, w, c>>) = Box(<<b, 0, 0>>, <<n, w, c>>)
<1>1. Hyperslab(<<b, 0, 0>>, <<n, 1, 1>>, <<1, w, c>>) = Along(b, n, 1) \X Along(0, 1, w) \X Along(0, 1, c)
  BY Product
<1>2. Box(<<b, 0, 0>>, <<n, w, c>>) = Run(b, n) \X Run(0, w) \X Run(0, c)
  BY DEF Box, Run
<1> QED
  BY <1>1, <1>2, Runs

\* WriteData selects a box, by rows ...
LEMMA RowsWritten ==
  ASSUME NEW b \in Nat, NEW n \in Nat, NEW w \in Nat, NEW c \in Nat
  PROVE  Hyperslab(<<0, b, 0>>, <<w, n, c>>, <<1, 1, 1>>) = Box(<<0, b, 0>>, <<w, n, c>>)
<1>1. Hyperslab(<<0, b, 0>>, <<w, n, c>>, <<1, 1, 1>>) = Along(0, w, 1) \X Along(b, n, 1) \X Along(0, c, 1)
  BY Product
<1>2. Box(<<0, b, 0>>, <<w, n, c>>) = Run(0, w) \X Run(b, n) \X Run(0, c)
  BY DEF Box, Run
<1> QED
  BY <1>1, <1>2, Runs

\* ... and by projections.
LEMMA ProjectionsWritten ==
  ASSUME NEW b \in Nat, NEW n \in Nat, NEW w \in Nat, NEW c \in Nat
  PROVE  Hyperslab(<<b, 0, 0>>, <<n, w, c>>, <<1, 1, 1>>) = Box(<<b, 0, 0>>, <<n, w, c>>)
<1>1. Hyperslab(<<b, 0, 0>>, <<n, w, c>>, <<1, 1, 1>>) = Along(b, n, 1) \X Along(0, w, 1) \X Along(0, c, 1)
  BY Product
<1>2. Box(<<b, 0, 0>>, <<n, w, c>>) = Run(b, n) \X Run(0, w) \X Run(0, c)
  BY DEF Box, Run
<1> QED
  BY <1>1, <1>2, Runs

\* A quotient is the number of whole divisors.
LEMMA UniqueQuotient ==
  ASSUME NEW a \in Nat, NEW d \in Nat, NEW p \in 0 .. d - 1
  PROVE  (a * d + p) \div d = a /\ (a * d + p) % d = p
<1>1. d \in Nat \ {0} /\ a * d + p \in Nat
  OBVIOUS
<1> DEFINE n == a * d + p
           q == n \div d
           l == n % d
<1>2. q \in Nat /\ l \in Nat /\ l < d /\ n = (q * d) + l
  BY <1>1, DivMod
<1> HIDE DEF q, l
<1>3. a * d + p = q * d + l /\ l \in 0 .. d - 1
  BY <1>1, <1>2
<1>4. /\ a * d + p < q * d + l <=> a < q \/ (a = q /\ p < l)
      /\ q * d + l < a * d + p <=> q < a \/ (q = a /\ l < p)
      /\ a * d + p \in Nat
  <2>1. a * d + p < q * d + l <=> a < q \/ (a = q /\ p < l)
    BY <1>2, <1>3, Digits
  <2>2. q * d + l < a * d + p <=> q < a \/ (q = a /\ l < p)
    BY <1>2, <1>3, Digits
  <2> QED
    BY <1>1, <2>1, <2>2
<1>5. ~(a < q) /\ ~(q < a) /\ ~(a = q /\ p < l) /\ ~(q = a /\ l < p)
  BY <1>3, <1>4
<1>6. a = q
  BY <1>2, <1>5
<1>7. p = l
  BY <1>2, <1>5, <1>6
<1> QED
  BY <1>6, <1>7 DEF q, l

\* The shares of the rows lie within the rows, and every row is in one.
LEMMA Within ==
  ASSUME NEW total \in Nat, NEW size \in Nat \ {0}, NEW r \in 0 .. size - 1
  PROVE  /\ assign_data(r, size, total) \in BlockSet
         /\ assign_data(r, size, total).beg + assign_data(r, size, total).n <= total
<1> DEFINE q == total \div size
           l == total % size
<1>1. q \in Nat /\ l \in Nat /\ l < size /\ total = (q * size) + l
  BY DivMod
<1>2. /\ r \in Nat /\ r < size
      /\ assign_data(r, size, total)
           = [beg |-> IF r < l THEN (1 + q) * r ELSE (1 + q) * l + q * (r - l),
              n   |-> IF r < l THEN q + 1 ELSE q]
  BY DEF assign_data, Block
<1>3. assign_data(r, size, total) \in BlockSet
  BY <1>2, Adjacent
<1> HIDE DEF q, l
<1>4. CASE r < l
  <2>1. assign_data(r, size, total).beg + assign_data(r, size, total).n = (1 + q) * r + (q + 1)
    BY <1>2, <1>4
  <2>2. (1 + q) * r + (q + 1) = (1 + q) * (r + 1) /\ (1 + q) * (r + 1) <= (1 + q) * l
    BY <1>1, <1>2, <1>4
  <2>3. (1 + q) * l = l + q * l /\ q * l <= q * size /\ q * l \in Nat /\ q * size \in Nat
    BY <1>1
  <2> QED
    BY <1>1, <1>2, <1>3, <2>1, <2>2, <2>3
<1>5. CASE ~(r < l)
  <2>1. assign_data(r, size, total).beg + assign_data(r, size, total).n = (1 + q) * l + q * (r - l) + q
    BY <1>2, <1>5
  <2>2. (1 + q) * l + q * (r - l) + q = l + q * (r + 1)
    BY <1>1, <1>2
  <2>3. q * (r + 1) <= q * size
    BY <1>1, <1>2
  <2> QED
    BY <1>1, <1>2, <1>3, <2>1, <2>2, <2>3
<1> QED
  BY <1>3, <1>4, <1>5

\* Every row is in the share of some rank.
LEMMA Covered ==
  ASSUME NEW total \in Nat, NEW size \in Nat \ {0}, NEW i \in 0 .. total - 1
  PROVE  \E r \in 0 .. size - 1 : LET b == assign_data(r, size, total)
                                  IN  i \in b.beg .. b.beg + b.n - 1
<1> DEFINE q == total \div size
           l == total % size
<1>1. q \in Nat /\ l \in Nat /\ l < size /\ total = (q * size) + l /\ i \in Nat /\ i < total
  BY DivMod
<1>2. ASSUME NEW r \in 0 .. size - 1
      PROVE  assign_data(r, size, total)
               = [beg |-> IF r < l THEN (1 + q) * r ELSE (1 + q) * l + q * (r - l),
                  n   |-> IF r < l THEN q + 1 ELSE q]
  BY DEF assign_data, Block
<1> HIDE DEF q, l
<1>3. CASE i < l * (q + 1)
  <2> DEFINE r == i \div (q + 1)
             p == i % (q + 1)
  <2>1. r \in 0 .. l - 1 /\ p \in 0 .. q /\ i = r * (q + 1) + p
    <3>1. q + 1 \in Nat /\ (q + 1) - 1 = q /\ i \in 0 .. l * (q + 1) - 1
      BY <1>1, <1>3
    <3> DEFINE d == q + 1
    <3>2. d \in Nat /\ i < l * d /\ d - 1 = q
      BY <1>3, <3>1
    <3>0. i \in Nat /\ l \in Nat
      BY <1>1
    <3> HIDE DEF d
    <3>3. /\ i \div d \in 0 .. l - 1 /\ i % d \in 0 .. d - 1
          /\ i = (i \div d) * d + (i % d)
      BY <3>0, <3>2, Parts
    <3> QED
      BY <3>2, <3>3 DEF d
  <2> HIDE DEF r, p
  <2>2. r \in 0 .. size - 1 /\ r < l
    BY <1>1, <2>1
  <2>3. assign_data(r, size, total).beg = (1 + q) * r /\ assign_data(r, size, total).n = q + 1
    BY <1>2, <2>2
  <2>4. (1 + q) * r = r * (q + 1) /\ (1 + q) * r \in Nat
    BY <1>1, <2>1
  <2>5. i \in (1 + q) * r .. (1 + q) * r + (q + 1) - 1
    BY <1>1, <2>1, <2>4
  <2> QED
    BY <2>2, <2>3, <2>5
<1>4. CASE ~(i < l * (q + 1))
  <2> DEFINE b == l * (q + 1)
             j == (i - b) \div q
             p == (i - b) % q
  <2>1. /\ b \in Nat /\ i - b \in Nat /\ size - l \in Nat
        /\ b = (1 + q) * l /\ b = q * l + l
        /\ (size - l) * q = size * q - l * q
    BY <1>1, <1>4
  <2>2. i - b < (size - l) * q
    <3>1. i < q * size + l /\ q * size \in Nat /\ q * l \in Nat /\ q * size = size * q /\ q * l = l * q
      BY <1>1
    <3> HIDE DEF b
    <3> QED
      BY <1>1, <2>1, <3>1
  <2>3. j \in 0 .. size - l - 1 /\ p \in 0 .. q - 1 /\ i - b = j * q + p
    BY <1>1, <2>1, <2>2, Parts
  <2> HIDE DEF b, j, p
  <2>4. l + j \in 0 .. size - 1 /\ ~(l + j < l) /\ (l + j) - l = j
    BY <1>1, <2>3
  <2>5. assign_data(l + j, size, total).beg = b + q * j /\ assign_data(l + j, size, total).n = q
    BY <1>2, <2>1, <2>4
  <2>6. q * j = j * q /\ q * j \in Nat
    BY <1>1, <2>3
  <2>7. i \in b + q * j .. b + q * j + q - 1
    BY <1>1, <2>1, <2>3, <2>6
  <2> QED
    BY <2>4, <2>5, <2>7
<1> QED
  BY <1>3, <1>4

-----------------------------------------------------------------------------
(* What the ranks hold, and what is in the file.                           *)

\* The jobs that cut a dataset, the ones that write rows, and all that write.
Cuts == job \in {"slices", "projections", "copy_slices", "copy_projections"}
WritesRows == job \in {"stream", "slices"}
Writes == WritesRows \/ Copying

\* The part of rank r, the corner of its box in the dataset and the extents of the
\* box, and what H5Dread leaves of it.
Part(r) == assign_data(r, n_ranks, IF job = "stream" \/ BySlices THEN rows ELSE Projs)
Corner(r) == IF BySlices THEN <<0, Part(r).beg, 0>> ELSE <<Part(r).beg, 0, 0>>
Extents(r) == IF BySlices THEN <<Projs, Part(r).n, Cols>> ELSE <<Part(r).n, rows, Cols>>
Held(r) == [o \in 0 .. Size(Extents(r)) - 1 |-> Onto(Corner(r), Place(o, Extents(r)))]

\* The rows of rank r, each as of its last iteration.
RowsOK(r) ==
  /\ DOMAIN recon[r] = 0 .. Part(r).n + 2 * Neighbors - 1
  /\ \A i \in 0 .. Part(r).n - 1 :
       recon[r][Neighbors + i] = [row |-> Part(r).beg + i, iter |-> iter[r]]

InFile == {"write", "close", "done"}

\* Where rank r is, what it has read, and that no message goes into its own rows.
HoldsOK(r) ==
  /\ stage[r] \in Stages
  /\ stage[r] \in {"update", "waitall"} => job = "slices"
  /\ stage[r] = "iterate" => WritesRows
  /\ stage[r] \in {"create", "write", "close"} => Writes
  /\ stage[r] \in {"begin", "thrown"} => data[r] = << >> /\ iter[r] = 0
  /\ stage[r] \notin {"begin", "thrown"} =>
       /\ job # "stream" => Readable
       /\ job = "theta" => data[r] = DegreeToRadian(ReadTheta)
       /\ job = "stream" => data[r] = << >>
       /\ Cuts => data[r] = Held(r)
       /\ job # "theta" => own[r] = Part(r)
       /\ WritesRows => RowsOK(r)
  /\ \A q \in reqs[r] : job = "slices" /\ (q.op = "recv" => q.at \notin 1 .. Part(r).n)
  /\ WritesRows /\ stage[r] \in {"create"} \cup InFile => iter[r] = Iters

\* The file is written by all; a rank that has written has its part in it.
OutOK ==
  /\ Writes => \A r, s \in Ranks : stage[r] \in InFile => stage[s] \in InFile
  /\ WritesRows => \A r \in Ranks :
       /\ stage[r] \in InFile => out = [i \in 0 .. rows - 1 |-> out[i]]
       /\ stage[r] \in {"close", "done"} =>
            \A i \in Part(r).beg .. Part(r).beg + Part(r).n - 1 : out[i] = [row |-> i, iter |-> Iters]
  /\ Copying => \A r \in Ranks :
       /\ stage[r] \in InFile => out = [c \in Extent(Dim) |-> out[c]]
       /\ stage[r] \in {"close", "done"} => \A c \in Box(Corner(r), Extents(r)) : out[c] = c

JobsOK ==
  /\ PartitionInv
  /\ job \in {"stream", "slices", "projections", "theta", "copy_slices", "copy_projections"}
  /\ dataset \in IF job = "stream" THEN {<<0, rows, Cols>>}
                 ELSE {<< >>, <<Projs>>, <<Projs, rows, Cols>>}
  /\ DOMAIN stage = Ranks /\ DOMAIN iter = Ranks /\ DOMAIN own = Ranks /\ DOMAIN data = Ranks
  /\ DOMAIN recon = Ranks /\ DOMAIN reqs = Ranks

FileInv == JobsOK /\ (\A r \in Ranks : HoldsOK(r)) /\ OutOK

\* The invariant of the partition, whatever the client does.
LEMMA SharedParts ==
  ASSUME PartitionInv, NEW r \in Ranks
  PROVE  /\ rows \in Nat /\ n_ranks \in Nat \ {0} /\ r \in 0 .. n_ranks - 1 /\ r \in Nat
         /\ Part(r).beg \in Nat /\ Part(r).n \in Nat /\ Part(r) = Block(Part(r).beg, Part(r).n)
         /\ Part(r) = DistributeSlices(r, n_ranks, IF job = "stream" \/ BySlices THEN rows ELSE Projs)
         /\ Part(r).beg + Part(r).n <= IF job = "stream" \/ BySlices THEN rows ELSE Projs
<1> DEFINE total == IF job = "stream" \/ BySlices THEN rows ELSE Projs
<1>1. rows \in Nat /\ n_ranks \in Nat \ {0} /\ r \in 0 .. n_ranks - 1 /\ r \in Nat /\ Projs \in Nat
  BY VolumeAssumption DEF PartitionInv, TypeOK, Ranks
<1>2. total \in Nat /\ Part(r) = assign_data(r, n_ranks, total)
  BY <1>1 DEF Part
<1> HIDE DEF total
<1>3. Part(r) \in BlockSet /\ Part(r).beg + Part(r).n <= total
  BY <1>1, <1>2, Within
<1>4. Part(r) = DistributeSlices(r, n_ranks, total)
  BY <1>1, <1>2, SameDivision
<1> QED
  BY <1>1, <1>3, <1>4 DEF BlockSet, Block, total

\* A dataset of three dimensions, and the box of every rank in it.
LEMMA BoxInside ==
  ASSUME JobsOK, job # "stream", job # "theta", Readable, NEW r \in Ranks
  PROVE  /\ dataset = <<Projs, rows, Cols>> /\ dataset \in Triples
         /\ Corner(r) \in Triples /\ Extents(r) \in Triples
         /\ Box(Corner(r), Extents(r)) \subseteq Extent(dataset)
<1>1. /\ rows \in Nat /\ Projs \in Nat /\ Cols \in Nat
      /\ Part(r).beg \in Nat /\ Part(r).n \in Nat
      /\ Part(r).beg + Part(r).n <= IF BySlices THEN rows ELSE Projs
  BY SharedParts, VolumeAssumption DEF JobsOK
<1>2. dataset = <<Projs, rows, Cols>>
  <2>1. Len(dataset) = 3 /\ dataset \in {<< >>, <<Projs>>, <<Projs, rows, Cols>>}
    BY DEF Readable, JobsOK
  <2>2. Len(<< >>) # 3 /\ Len(<<Projs>>) # 3
    OBVIOUS
  <2> QED
    BY <2>1, <2>2
<1>3. dataset \in Triples /\ Corner(r) \in Triples /\ Extents(r) \in Triples
  BY <1>1, <1>2 DEF Triples, Corner, Extents
<1>4. CASE BySlices
  <2>1. /\ Corner(r) = <<0, Part(r).beg, 0>> /\ Extents(r) = <<Projs, Part(r).n, Cols>>
        /\ Part(r).beg + Part(r).n <= rows
    BY <1>1, <1>4 DEF Corner, Extents
  <2>2. /\ 0 .. 0 + Projs - 1 = 0 .. Projs - 1 /\ 0 .. 0 + Cols - 1 = 0 .. Cols - 1
        /\ Part(r).beg .. Part(r).beg + Part(r).n - 1 \subseteq 0 .. rows - 1
    BY <1>1, <2>1
  <2>3. Box(Corner(r), Extents(r))
          = (0 .. 0 + Projs - 1) \X (Part(r).beg .. Part(r).beg + Part(r).n - 1) \X (0 .. 0 + Cols - 1)
    BY <2>1 DEF Box
  <2>4. Extent(dataset) = (0 .. Projs - 1) \X (0 .. rows - 1) \X (0 .. Cols - 1)
    BY <1>2 DEF Extent
  <2> QED
    BY <1>2, <1>3, <2>2, <2>3, <2>4
<1>5. CASE ~BySlices
  <2>1. /\ Corner(r) = <<Part(r).beg, 0, 0>> /\ Extents(r) = <<Part(r).n, rows, Cols>>
        /\ Part(r).beg + Part(r).n <= Projs
    BY <1>1, <1>5 DEF Corner, Extents
  <2>2. /\ 0 .. 0 + rows - 1 = 0 .. rows - 1 /\ 0 .. 0 + Cols - 1 = 0 .. Cols - 1
        /\ Part(r).beg .. Part(r).beg + Part(r).n - 1 \subseteq 0 .. Projs - 1
    BY <1>1, <2>1
  <2>3. Box(Corner(r), Extents(r))
          = (Part(r).beg .. Part(r).beg + Part(r).n - 1) \X (0 .. 0 + rows - 1) \X (0 .. 0 + Cols - 1)
    BY <2>1 DEF Box
  <2>4. Extent(dataset) = (0 .. Projs - 1) \X (0 .. rows - 1) \X (0 .. Cols - 1)
    BY <1>2 DEF Extent
  <2> QED
    BY <1>2, <1>3, <2>2, <2>3, <2>4
<1> QED
  BY <1>2, <1>3, <1>4, <1>5

\* The two reads leave the box of the rank.
LEMMA Reads ==
  ASSUME JobsOK, Cuts, Readable, NEW r \in Ranks
  PROVE  /\ BySlices => ReadSlices(Part(r).beg, Part(r).n) = Held(r)
         /\ ~BySlices => ReadProjections(Part(r).beg, Part(r).n) = Held(r)
<1>1. /\ dataset = <<Projs, rows, Cols>> /\ dataset \in Triples
      /\ Corner(r) \in Triples /\ Extents(r) \in Triples
      /\ Box(Corner(r), Extents(r)) \subseteq Extent(dataset)
  BY BoxInside DEF Cuts
<1>2. /\ rows \in Nat /\ Projs \in Nat /\ Cols \in Nat /\ Part(r).beg \in Nat /\ Part(r).n \in Nat
  BY SharedParts, VolumeAssumption DEF JobsOK
<1>3. H5Dread(Box(Corner(r), Extents(r)), Extents(r)) = Held(r)
  BY <1>1, ReadBox DEF Held
<1>4. dataset[1] = Projs /\ dataset[2] = rows /\ dataset[3] = Cols
  BY <1>1
<1> DEFINE b == Part(r).beg
           n == Part(r).n
<1>7. b \in Nat /\ n \in Nat /\ Projs \in Nat /\ rows \in Nat /\ Cols \in Nat
  BY <1>2
<1>8. /\ Corner(r) = IF BySlices THEN <<0, b, 0>> ELSE <<b, 0, 0>>
      /\ Extents(r) = IF BySlices THEN <<Projs, n, Cols>> ELSE <<n, rows, Cols>>
  BY DEF Corner, Extents
<1>9. BySlices =>
        ReadSlices(b, n) = H5Dread(Hyperslab(<<0, b, 0>>, <<1, n, 1>>, <<Projs, 1, Cols>>), <<Projs, n, Cols>>)
  BY <1>4 DEF ReadSlices, Dim
<1>10. ~BySlices =>
        ReadProjections(b, n) = H5Dread(Hyperslab(<<b, 0, 0>>, <<n, 1, 1>>, <<1, rows, Cols>>), <<n, rows, Cols>>)
  BY <1>4 DEF ReadProjections, Dim
<1> HIDE DEF b, n
<1>11. Hyperslab(<<0, b, 0>>, <<1, n, 1>>, <<Projs, 1, Cols>>) = Box(<<0, b, 0>>, <<Projs, n, Cols>>)
  BY <1>7, RowsSelected
<1>12. Hyperslab(<<b, 0, 0>>, <<n, 1, 1>>, <<1, rows, Cols>>) = Box(<<b, 0, 0>>, <<n, rows, Cols>>)
  BY <1>7, ProjectionsSelected
<1>13. /\ BySlices => ReadSlices(b, n) = Held(r)
       /\ ~BySlices => ReadProjections(b, n) = Held(r)
  BY <1>3, <1>8, <1>9, <1>10, <1>11, <1>12
<1> QED
  BY <1>13 DEF b, n

-----------------------------------------------------------------------------
\* What depends on the client, the volume and the ranks alone.
LEMMA SameJob ==
  ASSUME UNCHANGED <<rows, n_ranks, job, dataset>>
  PROVE  /\ Ranks' = Ranks /\ Neighbors' = Neighbors
         /\ (Cuts' <=> Cuts) /\ (WritesRows' <=> WritesRows) /\ (Writes' <=> Writes)
         /\ (Copying' <=> Copying) /\ (Readable' <=> Readable) /\ (BySlices' <=> BySlices)
         /\ DegreeToRadian(ReadTheta)' = DegreeToRadian(ReadTheta)
         /\ \A r : /\ Part(r)' = Part(r) /\ Held(r)' = Held(r)
                   /\ Box(Corner(r), Extents(r))' = Box(Corner(r), Extents(r))
         /\ Extent(Dim)' = Extent(Dim)
<1>1. /\ Ranks' = Ranks /\ Neighbors' = Neighbors
      /\ (BySlices' <=> BySlices)
  BY DEF Ranks, Neighbors, BySlices
<1>2. /\ (Cuts' <=> Cuts) /\ (WritesRows' <=> WritesRows) /\ (Writes' <=> Writes)
      /\ (Copying' <=> Copying) /\ (Readable' <=> Readable)
  BY DEF Cuts, WritesRows, Writes, Copying, Readable
<1>3. \A r : Part(r)' = Part(r)
  BY DEF Part, BySlices
<1>4. \A r : Corner(r)' = Corner(r) /\ Extents(r)' = Extents(r)
  BY <1>1, <1>3 DEF Corner, Extents
<1>5. \A r : Box(Corner(r), Extents(r))' = Box(Corner(r), Extents(r))
  BY <1>4 DEF Box
<1>6. \A r : Held(r)' = Held(r)
  BY <1>4 DEF Held, Size, Onto, Place
<1>7. DegreeToRadian(ReadTheta)' = DegreeToRadian(ReadTheta) /\ Extent(Dim)' = Extent(Dim)
  BY DEF DegreeToRadian, ReadTheta, Dim, Extent
<1> QED
  BY <1>1, <1>2, <1>3, <1>5, <1>6, <1>7

\* Rank r holds what it held.
SameHolder(r) == SameRank(r) /\ data'[r] = data[r]

\* A rank that is as it was holds what it should.
LEMMA HoldsStays ==
  ASSUME UNCHANGED <<rows, n_ranks, job, dataset>>, NEW r \in Ranks, SameHolder(r), HoldsOK(r)
  PROVE  HoldsOK(r)'
<1>1. Neighbors' = Neighbors /\ Part(r)' = Part(r) /\ Held(r)' = Held(r)
  BY SameJob
<1>2. RowsOK(r) => RowsOK(r)'
  BY <1>1 DEF RowsOK, SameHolder, SameRank
<1>3. /\ (Cuts' <=> Cuts) /\ (WritesRows' <=> WritesRows) /\ (Writes' <=> Writes)
      /\ (Readable' <=> Readable) /\ DegreeToRadian(ReadTheta)' = DegreeToRadian(ReadTheta)
  BY SameJob
<1> QED
  BY <1>1, <1>2, <1>3 DEF HoldsOK, SameHolder, SameRank

\* The file stays in order while nobody writes.
LEMMA OutStays ==
  ASSUME OutOK, UNCHANGED <<rows, n_ranks, job, dataset, out>>,
         Writes => \A r \in Ranks : /\ stage'[r] \in InFile <=> stage[r] \in InFile
                                    /\ stage'[r] \in {"close", "done"} => stage[r] \in {"close", "done"}
  PROVE  OutOK'
<1>1. /\ Ranks' = Ranks /\ (WritesRows' <=> WritesRows) /\ (Writes' <=> Writes)
      /\ (Copying' <=> Copying) /\ Extent(Dim)' = Extent(Dim)
  BY SameJob
<1>2. \A r \in Ranks : Part(r)' = Part(r) /\ Box(Corner(r), Extents(r))' = Box(Corner(r), Extents(r))
  BY SameJob
<1>3. (WritesRows => Writes) /\ (Copying => Writes)
  BY DEF Writes
<1> QED
  BY <1>1, <1>2, <1>3 DEF OutOK, InFile

\* The ranks stay what they are.
LEMMA JobsStay ==
  ASSUME JobsOK, UNCHANGED <<vars, job, dataset>>,
         DOMAIN stage' = DOMAIN stage, DOMAIN iter' = DOMAIN iter, DOMAIN own' = DOMAIN own,
         DOMAIN data' = DOMAIN data, DOMAIN recon' = DOMAIN recon, DOMAIN reqs' = DOMAIN reqs
  PROVE  JobsOK'
<1>1. PartitionInv' /\ rows' = rows /\ Ranks' = Ranks
  BY StutterKeeps DEF JobsOK, vars, Ranks
<1> QED
  BY <1>1 DEF JobsOK

\* One rank moves on and nobody writes.
LEMMA OneMoves ==
  ASSUME FileInv, UNCHANGED <<vars, job, dataset, out>>,
         DOMAIN stage' = DOMAIN stage, DOMAIN iter' = DOMAIN iter, DOMAIN own' = DOMAIN own,
         DOMAIN data' = DOMAIN data, DOMAIN recon' = DOMAIN recon, DOMAIN reqs' = DOMAIN reqs,
         NEW r \in Ranks, \A u \in Ranks \ {r} : SameHolder(u), HoldsOK(r)',
         Writes => /\ stage'[r] \in InFile <=> stage[r] \in InFile
                   /\ stage'[r] \in {"close", "done"} => stage[r] \in {"close", "done"}
  PROVE  FileInv'
<1>1. UNCHANGED <<rows, n_ranks, job, dataset, out>> /\ Ranks' = Ranks
  BY DEF vars, Ranks
<1>2. JobsOK'
  BY JobsStay DEF FileInv
<1>3. \A u \in Ranks : HoldsOK(u)'
  BY <1>1, HoldsStays DEF FileInv
<1>4. \A u \in Ranks \ {r} : stage'[u] = stage[u]
  BY DEF SameHolder, SameRank
<1>5. OutOK'
  BY <1>1, <1>4, OutStays DEF FileInv
<1> QED
  BY <1>1, <1>2, <1>3, <1>5 DEF FileInv

\* Nobody has read, and nobody writes.
LEMMA FileInitOK == VolumeInit => FileInv
<1> SUFFICES ASSUME VolumeInit
             PROVE  FileInv
  OBVIOUS
<1>1. PartitionInv /\ Ranks = 0 .. n_ranks - 1
  BY PartitionInit DEF VolumeInit, Ranks
<1>2. JobsOK
  BY <1>1 DEF VolumeInit, JobsOK
<1>3. \A r \in Ranks : stage[r] = "begin" /\ iter[r] = 0 /\ data[r] = << >> /\ reqs[r] = {}
  BY <1>1 DEF VolumeInit
<1>4. \A r \in Ranks : HoldsOK(r)
  BY <1>3 DEF HoldsOK, Stages, InFile
<1>5. OutOK
  BY <1>3 DEF OutOK, InFile
<1> QED
  BY <1>2, <1>4, <1>5 DEF FileInv

\* The distributor announces and cuts; no rank moves.
LEMMA DistributeFile ==
  ASSUME FileInv, Distribute
  PROVE  FileInv'
<1>1. PartitionInv' /\ UNCHANGED <<rows, n_ranks>> /\ UNCHANGED volvars
  <2>1. PartitionInv /\ (Announce \/ Cut)
    BY DEF FileInv, JobsOK, Distribute
  <2> QED
    BY <2>1, AnnounceKeeps, CutKeeps DEF Announce, Cut, Distribute
<1>2. /\ UNCHANGED <<job, dataset, stage, iter, own, data, recon, reqs, out>>
      /\ Ranks' = Ranks
  BY <1>1 DEF volvars, Ranks
<1>3. JobsOK'
  BY <1>1, <1>2 DEF FileInv, JobsOK
<1>4. \A r \in Ranks : HoldsOK(r)'
  BY <1>1, <1>2, HoldsStays DEF FileInv, SameHolder, SameRank
<1>5. OutOK'
  BY <1>1, <1>2, OutStays DEF FileInv
<1> QED
  BY <1>2, <1>3, <1>4, <1>5 DEF FileInv

\* Nothing changes.
LEMMA StutterFile ==
  ASSUME FileInv, UNCHANGED <<vars, volvars>>
  PROVE  FileInv'
<1>1. /\ UNCHANGED <<vars, job, dataset, stage, iter, own, data, recon, reqs, out>>
      /\ UNCHANGED <<rows, n_ranks>> /\ Ranks' = Ranks
  BY DEF volvars, vars, Ranks
<1>2. JobsOK'
  BY <1>1, JobsStay DEF FileInv
<1>3. \A r \in Ranks : HoldsOK(r)'
  BY <1>1, HoldsStays DEF FileInv, SameHolder, SameRank
<1>4. OutOK'
  BY <1>1, OutStays DEF FileInv
<1> QED
  BY <1>1, <1>2, <1>3, <1>4 DEF FileInv

\* A new volume has the rows of the rank, none of them iterated.
LEMMA FreshRows ==
  ASSUME FileInv, UNCHANGED <<rows, n_ranks, job, dataset>>, NEW r \in Ranks,
         recon'[r] = FreshRecon(Part(r)), iter'[r] = 0
  PROVE  RowsOK(r)'
<1>1. Part(r).n \in Nat /\ Part(r).beg \in Nat /\ Neighbors \in 0 .. 1
  BY SharedParts DEF FileInv, JobsOK, Neighbors
<1>2. Part(r)' = Part(r) /\ Neighbors' = Neighbors
  BY SameJob
<1> DEFINE b == Part(r)
           f == FreshRecon(b)
<1>3. DOMAIN f = 0 .. b.n + 2 * Neighbors - 1
  BY DEF FreshRecon
<1>4. ASSUME NEW j \in 0 .. b.n - 1
      PROVE  f[Neighbors + j] = [row |-> b.beg + j, iter |-> 0]
  <2>1. /\ Neighbors + j \in 0 .. b.n + 2 * Neighbors - 1
        /\ Neighbors + j \in Neighbors .. b.n + Neighbors - 1
        /\ b.beg + (Neighbors + j) - Neighbors = b.beg + j
    BY <1>1
  <2> QED
    BY <2>1 DEF FreshRecon
<1> QED
  BY <1>2, <1>3, <1>4 DEF RowsOK

\* A rank of sirt_stream takes the rows that were announced to it.
LEMMA TakeFile ==
  ASSUME FileInv, NEW r \in Ranks, TakeAnnounced(r)
  PROVE  FileInv'
<1>1. /\ job = "stream" /\ pc = "end" /\ stage[r] = "begin"
      /\ own' = [own EXCEPT ![r] = info[r]]
      /\ recon' = [recon EXCEPT ![r] = FreshRecon(info[r])]
      /\ stage' = [stage EXCEPT ![r] = "iterate"]
      /\ UNCHANGED <<vars, job, dataset, iter, data, reqs, out>>
  BY DEF TakeAnnounced
<1>2. /\ JobsOK /\ HoldsOK(r) /\ UNCHANGED <<rows, n_ranks>>
      /\ DOMAIN stage = Ranks /\ DOMAIN own = Ranks /\ DOMAIN recon = Ranks
  BY <1>1 DEF FileInv, JobsOK, vars
<1>3. info[r] = Part(r)
  BY <1>1, <1>2 DEF JobsOK, PartitionInv, Part
<1>4. /\ own'[r] = Part(r) /\ recon'[r] = FreshRecon(Part(r)) /\ stage'[r] = "iterate"
      /\ \A u \in Ranks \ {r} : SameHolder(u)
  BY <1>1, <1>2, <1>3 DEF SameHolder, SameRank
<1>5. data[r] = << >> /\ iter[r] = 0 /\ \A q \in reqs[r] : job = "slices"
  BY <1>1, <1>2 DEF HoldsOK
<1>6. RowsOK(r)'
  BY <1>1, <1>2, <1>4, <1>5, FreshRows
<1>7. WritesRows' /\ ~Cuts' /\ Part(r)' = Part(r) /\ job' = job
  BY <1>1, <1>2, SameJob DEF WritesRows, Cuts
<1>8. HoldsOK(r)'
  BY <1>1, <1>4, <1>5, <1>6, <1>7 DEF HoldsOK, Stages, InFile
<1>9. stage[r] \notin InFile /\ stage'[r] \notin InFile
  BY <1>1, <1>4 DEF InFile
<1> QED
  BY <1>1, <1>4, <1>8, <1>9, OneMoves DEF InFile

\* The file cannot be read.
LEMMA ThrowFile ==
  ASSUME FileInv, NEW r \in Ranks, Throw(r)
  PROVE  FileInv'
<1>1. /\ job # "stream" /\ stage[r] = "begin" /\ stage' = [stage EXCEPT ![r] = "thrown"]
      /\ UNCHANGED <<vars, job, dataset, iter, own, data, recon, reqs, out>>
  BY DEF Throw
<1>2. HoldsOK(r) /\ UNCHANGED <<rows, n_ranks>> /\ DOMAIN stage = Ranks
  BY <1>1 DEF FileInv, JobsOK, vars
<1>3. stage'[r] = "thrown" /\ \A u \in Ranks \ {r} : SameHolder(u)
  BY <1>1, <1>2 DEF SameHolder, SameRank
<1>4. Part(r)' = Part(r)
  BY <1>1, <1>2, SameJob
<1>5. HoldsOK(r)'
  BY <1>1, <1>2, <1>3, <1>4 DEF HoldsOK, Stages, InFile
<1>6. stage[r] \notin InFile /\ stage'[r] \notin InFile
  BY <1>1, <1>3 DEF InFile
<1> QED
  BY <1>1, <1>3, <1>5, <1>6, OneMoves DEF InFile

\* The angles are read.
LEMMA ThetaFile ==
  ASSUME FileInv, NEW r \in Ranks, LoadTheta(r)
  PROVE  FileInv'
<1>1. /\ job = "theta" /\ stage[r] = "begin" /\ Readable
      /\ data' = [data EXCEPT ![r] = DegreeToRadian(ReadTheta)]
      /\ stage' = [stage EXCEPT ![r] = "done"]
      /\ UNCHANGED <<vars, job, dataset, iter, own, recon, reqs, out>>
  BY DEF LoadTheta
<1>2. HoldsOK(r) /\ UNCHANGED <<rows, n_ranks>> /\ DOMAIN stage = Ranks /\ DOMAIN data = Ranks
  BY <1>1 DEF FileInv, JobsOK, vars
<1>3. /\ stage'[r] = "done" /\ data'[r] = DegreeToRadian(ReadTheta)
      /\ \A u \in Ranks \ {r} : SameHolder(u)
  BY <1>1, <1>2 DEF SameHolder, SameRank
<1>4. /\ Part(r)' = Part(r) /\ DegreeToRadian(ReadTheta)' = DegreeToRadian(ReadTheta)
      /\ (Readable' <=> Readable)
  BY <1>1, <1>2, SameJob
<1>5. ~Writes /\ ~WritesRows' /\ ~Writes' /\ ~Cuts' /\ job' = "theta"
  BY <1>1 DEF Writes, WritesRows, Copying, Cuts
<1>6. \A q \in reqs'[r] : job = "slices"
  BY <1>1, <1>2 DEF HoldsOK
<1>7. HoldsOK(r)'
  BY <1>1, <1>3, <1>4, <1>5, <1>6 DEF HoldsOK, Stages, InFile
<1> QED
  BY <1>1, <1>3, <1>5, <1>7, OneMoves

\* A rank reads its part.
LEMMA LoadFile ==
  ASSUME FileInv, NEW r \in Ranks, Load(r)
  PROVE  FileInv'
<1> DEFINE b == DistributeSlices(r, n_ranks, IF BySlices THEN Dim[2] ELSE Dim[1])
<1>1. /\ job \notin {"stream", "theta"} /\ stage[r] = "begin" /\ Readable
      /\ own' = [own EXCEPT ![r] = b]
      /\ recon' = IF job = "slices" THEN [recon EXCEPT ![r] = FreshRecon(b)] ELSE recon
      /\ UNCHANGED <<vars, job, dataset, iter, reqs, out>>
  BY DEF Load
<1>2. /\ JobsOK /\ HoldsOK(r) /\ UNCHANGED <<rows, n_ranks>>
      /\ DOMAIN stage = Ranks /\ DOMAIN own = Ranks /\ DOMAIN recon = Ranks /\ DOMAIN data = Ranks
  BY <1>1 DEF FileInv, JobsOK, vars
<1>3. Cuts /\ (Writes => job # "projections")
  BY <1>1, <1>2 DEF JobsOK, Cuts, Writes, WritesRows, Copying
<1>4. b = Part(r)
  <2>1. dataset = <<Projs, rows, Cols>>
    BY <1>1, <1>2, BoxInside
  <2>2. Part(r) = DistributeSlices(r, n_ranks, IF BySlices THEN rows ELSE Projs)
    BY <1>1, <1>2, SharedParts DEF JobsOK
  <2> QED
    BY <2>1, <2>2 DEF Dim
<1>5. PICK d : /\ data' = [data EXCEPT ![r] = d]
               /\ BySlices => d = ReadSlices(b.beg, b.n)
               /\ ~BySlices => d = ReadProjections(b.beg, b.n)
  <2>1. CASE job = "slices"
    BY <2>1 DEF Load, BySlices
  <2>2. CASE job = "projections"
    BY <2>2 DEF Load, BySlices
  <2>3. CASE job = "copy_slices"
    BY <2>3 DEF Load, BySlices, DISPIOH5_ReadSlices
  <2>4. CASE job = "copy_projections"
    BY <2>4 DEF Load, BySlices, DISPIOH5_ReadProjections
  <2> QED
    BY <1>3, <2>1, <2>2, <2>3, <2>4 DEF Cuts
<1>6. PICK s \in {"iterate", "create", "done"} :
         /\ stage' = [stage EXCEPT ![r] = s]
         /\ s = "iterate" => job = "slices"
         /\ s = "create" => Copying
         /\ s = "done" => job = "projections"
  <2>1. CASE job = "slices"
    BY <2>1 DEF Load, Copying
  <2>2. CASE job = "projections"
    BY <2>2 DEF Load, Copying
  <2>3. CASE Copying
    <3>1. job # "slices" /\ job # "projections"
      BY <2>3 DEF Copying
    <3> QED
      BY <2>3, <3>1 DEF Load
  <2> QED
    BY <1>3, <2>1, <2>2, <2>3 DEF Cuts, Copying
<1> HIDE DEF b
<1>7. /\ own'[r] = Part(r) /\ stage'[r] = s /\ data'[r] = Held(r)
      /\ \A u \in Ranks \ {r} : SameHolder(u)
      /\ DOMAIN recon' = DOMAIN recon
  <2>1. d = Held(r)
    BY <1>1, <1>2, <1>3, <1>4, <1>5, Reads
  <2> QED
    BY <1>1, <1>2, <1>4, <1>5, <1>6, <2>1 DEF SameHolder, SameRank
<1>8. iter[r] = 0 /\ \A q \in reqs[r] : job = "slices" /\ (q.op = "recv" => q.at \notin 1 .. Part(r).n)
  BY <1>1, <1>2 DEF HoldsOK
<1>9. /\ Part(r)' = Part(r) /\ Held(r)' = Held(r) /\ (Readable' <=> Readable)
      /\ (WritesRows' <=> WritesRows) /\ (Writes' <=> Writes)
  BY <1>1, <1>2, SameJob
<1>10. WritesRows => job = "slices"
  BY <1>1 DEF WritesRows
<1>11. job = "slices" => RowsOK(r)'
  <2> SUFFICES ASSUME job = "slices"
               PROVE  RowsOK(r)'
    OBVIOUS
  <2>1. recon'[r] = FreshRecon(Part(r)) /\ iter'[r] = 0
    BY <1>1, <1>2, <1>4, <1>8
  <2> QED
    BY <1>1, <1>2, <2>1, FreshRows
<1>12. /\ s \in Stages /\ s \notin {"update", "waitall", "begin", "thrown", "write", "close"}
       /\ s = "iterate" => WritesRows
       /\ s = "create" => Writes /\ ~WritesRows
       /\ s = "done" => ~WritesRows
  BY <1>6 DEF Stages, WritesRows, Writes, Copying
<1>13. HoldsOK(r)'
  BY <1>1, <1>7, <1>8, <1>9, <1>10, <1>11, <1>12 DEF HoldsOK, InFile
<1>14. Writes => stage[r] \notin InFile /\ stage'[r] \notin InFile
  BY <1>1, <1>3, <1>6, <1>7 DEF InFile
<1>15. /\ DOMAIN stage' = DOMAIN stage /\ DOMAIN own' = DOMAIN own /\ DOMAIN data' = DOMAIN data
       /\ DOMAIN recon' = DOMAIN recon
  BY <1>1, <1>5, <1>6, <1>7
<1> QED
  BY <1>1, <1>7, <1>13, <1>14, <1>15, OneMoves DEF InFile

\* The rows of a rank are of its next iteration.
LEMMA IterateFile ==
  ASSUME FileInv, NEW r \in Ranks, Iterate(r)
  PROVE  FileInv'
<1>1. /\ stage[r] = "iterate"
      /\ iter' = [iter EXCEPT ![r] = iter[r] + 1]
      /\ recon' = [recon EXCEPT ![r] =
           [j \in DOMAIN recon[r] |-> IF j \in Neighbors .. own[r].n + Neighbors - 1
                                        THEN [recon[r][j] EXCEPT !.iter = iter[r] + 1] ELSE recon[r][j]]]
      /\ stage' = [stage EXCEPT ![r] = IF job = "slices" THEN "update" ELSE "iterate"]
      /\ UNCHANGED <<vars, job, dataset, own, data, reqs, out>>
  BY DEF Iterate
<1>2. /\ JobsOK /\ HoldsOK(r) /\ UNCHANGED <<rows, n_ranks>>
      /\ DOMAIN stage = Ranks /\ DOMAIN iter = Ranks /\ DOMAIN recon = Ranks
  BY <1>1 DEF FileInv, JobsOK, vars
<1>3. /\ WritesRows /\ RowsOK(r) /\ (job # "theta" => own[r] = Part(r))
  BY <1>1, <1>2 DEF HoldsOK
<1>4. own[r] = Part(r) /\ Part(r).n \in Nat /\ Neighbors \in 0 .. 1
  BY <1>2, <1>3, SharedParts DEF JobsOK, WritesRows, Neighbors
<1>5. /\ iter'[r] = iter[r] + 1 /\ stage'[r] \in {"update", "iterate"}
      /\ stage'[r] = "update" => job = "slices"
      /\ DOMAIN recon'[r] = DOMAIN recon[r]
      /\ \A j \in DOMAIN recon[r] : j \in Neighbors .. Part(r).n + Neighbors - 1
           => recon'[r][j] = [recon[r][j] EXCEPT !.iter = iter[r] + 1]
      /\ \A u \in Ranks \ {r} : SameHolder(u)
  BY <1>1, <1>2, <1>4 DEF SameHolder, SameRank
<1>6. /\ Part(r)' = Part(r) /\ Held(r)' = Held(r) /\ (Readable' <=> Readable) /\ Neighbors' = Neighbors
      /\ (WritesRows' <=> WritesRows) /\ (Writes' <=> Writes) /\ (Cuts' <=> Cuts)
      /\ DegreeToRadian(ReadTheta)' = DegreeToRadian(ReadTheta)
  BY <1>1, <1>2, SameJob
<1>7. RowsOK(r)'
  <2>1. ASSUME NEW j \in 0 .. Part(r).n - 1
        PROVE  recon'[r][Neighbors + j] = [row |-> Part(r).beg + j, iter |-> iter'[r]]
    <3>1. /\ Neighbors + j \in DOMAIN recon[r]
          /\ Neighbors + j \in Neighbors .. Part(r).n + Neighbors - 1
      BY <1>3, <1>4 DEF RowsOK
    <3>2. recon[r][Neighbors + j] = [row |-> Part(r).beg + j, iter |-> iter[r]]
      BY <1>3 DEF RowsOK
    <3>3. recon'[r][Neighbors + j] = [recon[r][Neighbors + j] EXCEPT !.iter = iter[r] + 1]
      BY <1>5, <3>1
    <3> QED
      BY <1>5, <3>2, <3>3, NextIter
  <2> QED
    BY <1>3, <1>5, <1>6, <2>1 DEF RowsOK
<1>8. HoldsOK(r)'
  BY <1>1, <1>2, <1>3, <1>5, <1>6, <1>7 DEF HoldsOK, Stages, InFile
<1>9. stage[r] \notin InFile /\ stage'[r] \notin InFile
  BY <1>1, <1>5 DEF InFile
<1> QED
  BY <1>1, <1>5, <1>8, <1>9, OneMoves DEF InFile

\* What a rank will receive goes around its own rows.
LEMMA PostFile ==
  ASSUME FileInv, NEW r \in Ranks, Post(r)
  PROVE  FileInv'
<1>1. /\ stage[r] = "update" /\ reqs' = [reqs EXCEPT ![r] = Requests(r)]
      /\ stage' = [stage EXCEPT ![r] = "waitall"]
      /\ UNCHANGED <<vars, job, dataset, iter, own, data, recon, out>>
  BY DEF Post
<1>2. /\ JobsOK /\ HoldsOK(r) /\ UNCHANGED <<rows, n_ranks>>
      /\ DOMAIN stage = Ranks /\ DOMAIN reqs = Ranks
  BY <1>1 DEF FileInv, JobsOK, vars
<1>3. job = "slices" /\ Neighbors = 1 /\ own[r] = Part(r) /\ Part(r).n \in Nat
  BY <1>1, <1>2, SharedParts DEF HoldsOK, JobsOK, Neighbors
<1>4. \A q \in Requests(r) : q.op = "recv" => q.at \notin 1 .. Part(r).n
  <2>1. \A q \in WithUp(r) : q.op = "recv" => q.at = 0
    BY DEF WithUp
  <2>2. \A q \in WithBottom(r) : q.op = "recv" => q.at = (Part(r).n + 2 * 1) - 1
    BY <1>3 DEF WithBottom
  <2>3. (Part(r).n + 2 * 1) - 1 = Part(r).n + 1 /\ Part(r).n + 1 \notin 1 .. Part(r).n
    BY <1>3
  <2> QED
    BY <2>1, <2>2, <2>3 DEF Requests
<1>5. /\ reqs'[r] = Requests(r) /\ stage'[r] = "waitall" /\ \A u \in Ranks \ {r} : SameHolder(u)
  BY <1>1, <1>2 DEF SameHolder, SameRank
<1>6. /\ Part(r)' = Part(r) /\ Held(r)' = Held(r) /\ (Readable' <=> Readable) /\ Neighbors' = Neighbors
      /\ (WritesRows' <=> WritesRows) /\ (Writes' <=> Writes) /\ (Cuts' <=> Cuts)
      /\ DegreeToRadian(ReadTheta)' = DegreeToRadian(ReadTheta)
  BY <1>1, <1>2, SameJob
<1>7. RowsOK(r) => RowsOK(r)'
  BY <1>1, <1>6 DEF RowsOK
<1>8. HoldsOK(r)'
  BY <1>1, <1>2, <1>3, <1>4, <1>5, <1>6, <1>7 DEF HoldsOK, Stages, InFile
<1>9. stage[r] \notin InFile /\ stage'[r] \notin InFile
  BY <1>1, <1>5 DEF InFile
<1> QED
  BY <1>1, <1>5, <1>8, <1>9, OneMoves DEF InFile

\* A row leaves the memory of a rank.
LEMMA DepartFile ==
  ASSUME FileInv, NEW r \in Ranks, NEW q \in reqs[r], Depart(r, q)
  PROVE  FileInv'
<1>1. /\ reqs' = [reqs EXCEPT ![r] = reqs[r] \ {q}]
      /\ UNCHANGED <<vars, job, dataset, stage, iter, own, data, recon, out>>
  BY DEF Depart
<1>2. /\ JobsOK /\ HoldsOK(r) /\ UNCHANGED <<rows, n_ranks>> /\ DOMAIN reqs = Ranks
  BY <1>1 DEF FileInv, JobsOK, vars
<1>3. /\ reqs'[r] \subseteq reqs[r] /\ \A u \in Ranks \ {r} : SameHolder(u)
  BY <1>1, <1>2 DEF SameHolder, SameRank
<1>4. /\ Part(r)' = Part(r) /\ Held(r)' = Held(r) /\ (Readable' <=> Readable) /\ Neighbors' = Neighbors
      /\ (WritesRows' <=> WritesRows) /\ (Writes' <=> Writes) /\ (Cuts' <=> Cuts)
      /\ DegreeToRadian(ReadTheta)' = DegreeToRadian(ReadTheta)
  BY <1>1, <1>2, SameJob
<1>5. RowsOK(r) => RowsOK(r)'
  BY <1>1, <1>4 DEF RowsOK
<1>6. HoldsOK(r)'
  BY <1>1, <1>2, <1>3, <1>4, <1>5 DEF HoldsOK
<1> QED
  BY <1>1, <1>3, <1>6, OneMoves

\* A row reaches the memory of a rank, beside its own.
LEMMA ArriveFile ==
  ASSUME FileInv, NEW r \in Ranks, NEW q \in reqs[r], Arrive(r, q)
  PROVE  FileInv'
<1> DEFINE v == Head(chan[q.peer][r])
<1>1. /\ q.op = "recv" /\ recon' = [recon EXCEPT ![r][q.at] = v]
      /\ reqs' = [reqs EXCEPT ![r] = reqs[r] \ {q}]
      /\ UNCHANGED <<vars, job, dataset, stage, iter, own, data, out>>
  BY DEF Arrive
<1> HIDE DEF v
<1>2. /\ JobsOK /\ HoldsOK(r) /\ UNCHANGED <<rows, n_ranks>> /\ DOMAIN reqs = Ranks /\ DOMAIN recon = Ranks
  BY <1>1 DEF FileInv, JobsOK, vars
<1>3. /\ reqs'[r] \subseteq reqs[r] /\ recon'[r] = [recon[r] EXCEPT ![q.at] = v]
      /\ \A u \in Ranks \ {r} : SameHolder(u)
  BY <1>1, <1>2 DEF SameHolder, SameRank
<1>4. job = "slices" /\ q.at \notin 1 .. Part(r).n
  BY <1>1, <1>2 DEF HoldsOK
<1>5. /\ Part(r)' = Part(r) /\ Held(r)' = Held(r) /\ (Readable' <=> Readable) /\ Neighbors' = Neighbors
      /\ (WritesRows' <=> WritesRows) /\ (Writes' <=> Writes) /\ (Cuts' <=> Cuts)
      /\ DegreeToRadian(ReadTheta)' = DegreeToRadian(ReadTheta)
  BY <1>1, <1>2, SameJob
<1>6. RowsOK(r) => RowsOK(r)'
  <2>1. Neighbors = 1 /\ Part(r).n \in Nat
    BY <1>2, <1>4, SharedParts DEF Neighbors, JobsOK
  <2>2. \A j \in 0 .. Part(r).n - 1 : Neighbors + j # q.at
    BY <1>4, <2>1
  <2> QED
    BY <1>1, <1>3, <1>5, <2>2 DEF RowsOK
<1>7. HoldsOK(r)'
  BY <1>1, <1>2, <1>3, <1>5, <1>6 DEF HoldsOK
<1> QED
  BY <1>1, <1>3, <1>7, OneMoves

\* All messages are through, or the rank is ready to write.
LEMMA MoveFile ==
  ASSUME FileInv, NEW r \in Ranks, Waitall(r) \/ BeginWrite(r)
  PROVE  FileInv'
<1>1. PICK s \in {"iterate", "create"} :
        /\ stage' = [stage EXCEPT ![r] = s]
        /\ s = "iterate" => stage[r] = "waitall"
        /\ s = "create" => stage[r] = "iterate" /\ iter[r] = Iters
        /\ UNCHANGED <<vars, job, dataset, iter, own, data, recon, reqs, out>>
  BY DEF Waitall, BeginWrite
<1>2. /\ JobsOK /\ HoldsOK(r) /\ UNCHANGED <<rows, n_ranks>> /\ DOMAIN stage = Ranks
  BY <1>1 DEF FileInv, JobsOK, vars
<1>3. stage'[r] = s /\ \A u \in Ranks \ {r} : SameHolder(u)
  BY <1>1, <1>2 DEF SameHolder, SameRank
<1>4. stage[r] \in {"waitall", "iterate"}
  BY <1>1
<1>5. WritesRows /\ Writes
  BY <1>2, <1>4 DEF HoldsOK, WritesRows, Writes
<1>6. /\ Part(r)' = Part(r) /\ Held(r)' = Held(r) /\ (Readable' <=> Readable) /\ Neighbors' = Neighbors
      /\ (WritesRows' <=> WritesRows) /\ (Writes' <=> Writes) /\ (Cuts' <=> Cuts)
      /\ DegreeToRadian(ReadTheta)' = DegreeToRadian(ReadTheta)
  BY <1>1, <1>2, SameJob
<1>7. RowsOK(r) => RowsOK(r)'
  BY <1>1, <1>6 DEF RowsOK
<1>8. HoldsOK(r)'
  BY <1>1, <1>2, <1>3, <1>4, <1>5, <1>6, <1>7 DEF HoldsOK, Stages, InFile
<1>9. stage[r] \notin InFile /\ stage'[r] \notin InFile
  BY <1>1, <1>3, <1>4 DEF InFile
<1> QED
  BY <1>1, <1>3, <1>8, <1>9, OneMoves DEF InFile

\* What a step of all ranks leaves of one that goes from the stage before to s.
LEMMA GoesOn ==
  ASSUME JobsOK, NEW r \in Ranks, HoldsOK(r), UNCHANGED <<rows, n_ranks, job, dataset>>,
         iter'[r] = iter[r], own'[r] = own[r], data'[r] = data[r], recon'[r] = recon[r],
         reqs'[r] = reqs[r],
         \/ stage[r] = "create" /\ stage'[r] = "write"
         \/ stage[r] = "write" /\ stage'[r] = "close"
         \/ stage[r] = "close" /\ stage'[r] = "done"
  PROVE  HoldsOK(r)'
<1>1. /\ Part(r)' = Part(r) /\ Held(r)' = Held(r) /\ (Readable' <=> Readable) /\ Neighbors' = Neighbors
      /\ (WritesRows' <=> WritesRows) /\ (Writes' <=> Writes) /\ (Cuts' <=> Cuts)
      /\ DegreeToRadian(ReadTheta)' = DegreeToRadian(ReadTheta)
  BY SameJob
<1>2. RowsOK(r) => RowsOK(r)'
  BY <1>1 DEF RowsOK
<1>3. CASE stage[r] = "create" /\ stage'[r] = "write"
  BY <1>1, <1>2, <1>3 DEF HoldsOK, Stages, InFile
<1>4. CASE stage[r] = "write" /\ stage'[r] = "close"
  BY <1>1, <1>2, <1>4 DEF HoldsOK, Stages, InFile
<1>5. CASE stage[r] = "close" /\ stage'[r] = "done"
  BY <1>1, <1>2, <1>5 DEF HoldsOK, Stages, InFile
<1> QED
  BY <1>3, <1>4, <1>5

\* The file is created by all, with its whole extent.
LEMMA CreateFile ==
  ASSUME FileInv, Create
  PROVE  FileInv'
<1>1. /\ \A r \in Ranks : stage[r] = "create"
      /\ out' = IF Copying THEN [c \in Extent(Dim) |-> << >>] ELSE [j \in 0 .. Dim[2] - 1 |-> NoRow]
      /\ stage' = [r \in Ranks |-> "write"]
      /\ UNCHANGED <<vars, job, dataset, iter, own, data, recon, reqs>>
  BY DEF Create, Everywhere
<1>2. /\ JobsOK /\ UNCHANGED <<rows, n_ranks>> /\ DOMAIN stage = Ranks /\ Ranks' = Ranks
  BY <1>1 DEF FileInv, JobsOK, vars, Ranks
<1>3. \A r \in Ranks : stage'[r] = "write"
  BY <1>1
<1>4. \A r \in Ranks : HoldsOK(r)'
  BY <1>1, <1>2, <1>3, GoesOn DEF FileInv
<1>5. JobsOK'
  <2>1. DOMAIN stage' = DOMAIN stage
    BY <1>1, <1>2
  <2> QED
    BY <1>1, <1>2, <2>1, JobsStay
<1>6. /\ (WritesRows' <=> WritesRows) /\ (Writes' <=> Writes) /\ (Copying' <=> Copying)
      /\ Extent(Dim)' = Extent(Dim)
  BY <1>1, <1>2, SameJob
<1>7. WritesRows => ~Copying
  BY DEF WritesRows, Copying
<1>8. ASSUME WritesRows, NEW r \in Ranks
      PROVE  Dim[2] = rows
  <2>1. CASE job = "stream"
    BY <1>2, <2>1 DEF JobsOK, Dim
  <2>2. CASE job = "slices"
    <3>1. Readable
      BY <1>1, <2>2 DEF FileInv, HoldsOK
    <3>2. dataset = <<Projs, rows, Cols>>
      BY <1>2, <2>2, <3>1, BoxInside
    <3> QED
      BY <3>2 DEF Dim
  <2> QED
    BY <1>8, <2>1, <2>2 DEF WritesRows
<1>9. ASSUME WritesRows, NEW r \in Ranks
      PROVE  out' = [j \in 0 .. rows' - 1 |-> out'[j]]
  <2>1. out' = [j \in 0 .. rows - 1 |-> NoRow]
    BY <1>1, <1>7, <1>8, <1>9
  <2> QED
    BY <1>2, <2>1
<1>10. Copying => out' = [c \in Extent(Dim) |-> out'[c]]
  BY <1>1
<1>11. OutOK'
  BY <1>2, <1>3, <1>6, <1>9, <1>10 DEF OutOK, InFile
<1> QED
  BY <1>2, <1>4, <1>5, <1>11 DEF FileInv

\* What is left to show of a step of a rank that writes.
LEMMA OneWrites ==
  ASSUME FileInv, NEW r \in Ranks, stage[r] = "write", stage' = [stage EXCEPT ![r] = "close"],
         UNCHANGED <<vars, job, dataset, iter, own, data, recon, reqs>>
  PROVE  /\ JobsOK' /\ (\A u \in Ranks : HoldsOK(u)') /\ Ranks' = Ranks
         /\ UNCHANGED <<rows, n_ranks>> /\ Writes
         /\ stage'[r] = "close" /\ \A u \in Ranks \ {r} : stage'[u] = stage[u]
         /\ \A u \in Ranks : stage'[u] \in InFile /\ stage[u] \in InFile
<1>1. /\ JobsOK /\ UNCHANGED <<rows, n_ranks>> /\ DOMAIN stage = Ranks /\ Ranks' = Ranks
  BY DEF FileInv, JobsOK, vars, Ranks
<1>2. stage'[r] = "close" /\ \A u \in Ranks \ {r} : stage'[u] = stage[u]
  BY <1>1
<1>3. \A u \in Ranks \ {r} : SameHolder(u)
  BY <1>2 DEF SameHolder, SameRank
<1>4. ASSUME NEW u \in Ranks
      PROVE  HoldsOK(u)'
  <2>1. CASE u = r
    BY <1>1, <1>2, <2>1, GoesOn DEF FileInv
  <2>2. CASE u # r
    BY <1>1, <1>3, <2>2, HoldsStays DEF FileInv
  <2> QED
    BY <2>1, <2>2
<1>5. JobsOK'
  BY <1>1, JobsStay
<1>6. Writes /\ stage[r] \in InFile
  BY DEF FileInv, HoldsOK, InFile
<1>7. \A u \in Ranks : stage[u] \in InFile
  BY <1>6 DEF FileInv, OutOK
<1>8. \A u \in Ranks : stage'[u] \in InFile
  BY <1>2, <1>7 DEF InFile
<1> QED
  BY <1>1, <1>2, <1>4, <1>5, <1>6, <1>7, <1>8

\* A rank writes its rows.
LEMMA WriteFile ==
  ASSUME FileInv, NEW r \in Ranks, Write(r)
  PROVE  FileInv'
<1>1. /\ stage[r] = "write" /\ ~Copying /\ stage' = [stage EXCEPT ![r] = "close"]
      /\ out' = IF own[r].beg + own[r].n > Dim[2] THEN out
                ELSE [j \in DOMAIN out |-> IF j \in own[r].beg .. own[r].beg + own[r].n - 1
                                             THEN recon[r][FirstRow + j - own[r].beg] ELSE out[j]]
      /\ UNCHANGED <<vars, job, dataset, iter, own, data, recon, reqs>>
  BY DEF Write
<1>2. /\ JobsOK' /\ (\A u \in Ranks : HoldsOK(u)') /\ Ranks' = Ranks
      /\ UNCHANGED <<rows, n_ranks>> /\ Writes
      /\ stage'[r] = "close" /\ \A u \in Ranks \ {r} : stage'[u] = stage[u]
      /\ \A u \in Ranks : stage'[u] \in InFile /\ stage[u] \in InFile
  BY <1>1, OneWrites
<1>3. JobsOK /\ HoldsOK(r) /\ OutOK /\ WritesRows
  BY <1>1, <1>2 DEF FileInv, Writes
<1>4. own[r] = Part(r) /\ RowsOK(r) /\ iter[r] = Iters /\ (job = "slices" => Readable)
  BY <1>1, <1>3 DEF HoldsOK, WritesRows, InFile
<1> DEFINE b == Part(r).beg
           n == Part(r).n
<1>5. b \in Nat /\ n \in Nat /\ b + n <= rows /\ rows \in Nat
  BY <1>3, SharedParts DEF JobsOK, WritesRows, BySlices
<1>6. Dim[2] = rows
  <2>1. CASE job = "stream"
    BY <1>3, <2>1 DEF JobsOK, Dim
  <2>2. CASE job = "slices"
    <3>1. dataset = <<Projs, rows, Cols>>
      BY <1>3, <1>4, <2>2, BoxInside
    <3> QED
      BY <3>1 DEF Dim
  <2> QED
    BY <1>3, <2>1, <2>2 DEF WritesRows
<1>7. out = [j \in 0 .. rows - 1 |-> out[j]]
  BY <1>2, <1>3 DEF OutOK
<1>8. DOMAIN out = 0 .. rows - 1
  BY <1>7
<1>9. out' = [j \in 0 .. rows - 1 |-> IF j \in b .. b + n - 1 THEN recon[r][FirstRow + j - b] ELSE out[j]]
  <2>1. ~(own[r].beg + own[r].n > Dim[2])
    BY <1>4, <1>5, <1>6
  <2> QED
    BY <1>1, <1>4, <1>8, <2>1
<1>10. ASSUME NEW j \in b .. b + n - 1
       PROVE  recon[r][FirstRow + j - b] = [row |-> j, iter |-> Iters]
  <2>1. Neighbors \in 0 .. 1 /\ FirstRow = Neighbors
    BY DEF Neighbors, FirstRow
  <2>2. j - b \in 0 .. n - 1 /\ FirstRow + j - b = Neighbors + (j - b) /\ b + (j - b) = j
    BY <1>5, <2>1
  <2>3. recon[r][Neighbors + (j - b)] = [row |-> b + (j - b), iter |-> iter[r]]
    BY <1>4, <2>2 DEF RowsOK
  <2> QED
    BY <1>4, <2>2, <2>3
<1>11. /\ Part(r)' = Part(r) /\ \A u : Part(u)' = Part(u)
       /\ (WritesRows' <=> WritesRows) /\ (Writes' <=> Writes) /\ (Copying' <=> Copying)
  BY <1>1, <1>2, SameJob
<1>12. /\ out' = [j \in 0 .. rows - 1 |-> out'[j]]
       /\ \A j \in b .. b + n - 1 : j \in 0 .. rows - 1 /\ out'[j] = [row |-> j, iter |-> Iters]
       /\ \A j \in 0 .. rows - 1 : out[j] = [row |-> j, iter |-> Iters]
                                     => out'[j] = [row |-> j, iter |-> Iters]
  BY <1>5, <1>9, <1>10
<1>13. ASSUME NEW u \in Ranks, stage'[u] \in {"close", "done"},
              NEW j \in Part(u).beg .. Part(u).beg + Part(u).n - 1
       PROVE  out'[j] = [row |-> j, iter |-> Iters]
  <2>1. CASE u = r
    BY <1>12, <2>1
  <2>2. CASE u # r
    <3>1. out[j] = [row |-> j, iter |-> Iters]
      BY <1>2, <1>3, <1>13, <2>2 DEF OutOK
    <3>2. Part(u).beg \in Nat /\ Part(u).n \in Nat /\ Part(u).beg + Part(u).n <= rows
      BY <1>3, SharedParts DEF JobsOK, WritesRows, BySlices
    <3>3. j \in 0 .. rows - 1
      BY <1>5, <3>2
    <3> QED
      BY <1>12, <3>1, <3>3
  <2> QED
    BY <2>1, <2>2
<1>14. OutOK'
  BY <1>1, <1>2, <1>11, <1>12, <1>13 DEF OutOK
<1> QED
  BY <1>2, <1>14 DEF FileInv

\* A rank writes its elements of the copy.
LEMMA CopyFile ==
  ASSUME FileInv, NEW r \in Ranks, WriteData(r)
  PROVE  FileInv'
<1> DEFINE offset == [<<0, 0, 0>> EXCEPT ![(IF BySlices THEN 1 ELSE 0) + 1] = own[r].beg]
           count == [Dim EXCEPT ![(IF BySlices THEN 1 ELSE 0) + 1] = own[r].n]
<1>1. /\ stage[r] = "write" /\ Copying /\ stage' = [stage EXCEPT ![r] = "close"]
      /\ out' = H5Dwrite(out, Dim, Hyperslab(offset, count, <<1, 1, 1>>), data[r])
      /\ UNCHANGED <<vars, job, dataset, iter, own, data, recon, reqs>>
  BY DEF WriteData
<1>2. /\ JobsOK' /\ (\A u \in Ranks : HoldsOK(u)') /\ Ranks' = Ranks
      /\ UNCHANGED <<rows, n_ranks>> /\ Writes
      /\ stage'[r] = "close" /\ \A u \in Ranks \ {r} : stage'[u] = stage[u]
      /\ \A u \in Ranks : stage'[u] \in InFile /\ stage[u] \in InFile
  BY <1>1, OneWrites
<1>3. JobsOK /\ HoldsOK(r) /\ OutOK /\ ~WritesRows /\ job \notin {"stream", "theta"} /\ Cuts
  BY <1>1 DEF FileInv, Copying, WritesRows, Cuts
<1>4. own[r] = Part(r) /\ data[r] = Held(r) /\ Readable
  BY <1>1, <1>3 DEF HoldsOK
<1>5. /\ dataset = <<Projs, rows, Cols>> /\ dataset \in Triples
      /\ Corner(r) \in Triples /\ Extents(r) \in Triples
      /\ Box(Corner(r), Extents(r)) \subseteq Extent(dataset)
  BY <1>3, <1>4, BoxInside
<1>6. Hyperslab(offset, count, <<1, 1, 1>>) = Box(Corner(r), Extents(r))
  <2> DEFINE b == Part(r).beg
             n == Part(r).n
  <2>1. b \in Nat /\ n \in Nat /\ rows \in Nat /\ Projs \in Nat /\ Cols \in Nat
    BY <1>3, SharedParts, VolumeAssumption DEF JobsOK
  <2>2. CASE BySlices
    <3>1. /\ offset = <<0, b, 0>> /\ count = <<Projs, n, Cols>>
          /\ Corner(r) = <<0, b, 0>> /\ Extents(r) = <<Projs, n, Cols>>
      BY <1>4, <1>5, <2>2 DEF Dim, Corner, Extents
    <3> HIDE DEF b, n, offset, count
    <3>2. Hyperslab(<<0, b, 0>>, <<Projs, n, Cols>>, <<1, 1, 1>>) = Box(<<0, b, 0>>, <<Projs, n, Cols>>)
      BY <2>1, RowsWritten
    <3> QED
      BY <3>1, <3>2
  <2>3. CASE ~BySlices
    <3>1. /\ offset = <<b, 0, 0>> /\ count = <<n, rows, Cols>>
          /\ Corner(r) = <<b, 0, 0>> /\ Extents(r) = <<n, rows, Cols>>
      BY <1>4, <1>5, <2>3 DEF Dim, Corner, Extents
    <3> HIDE DEF b, n, offset, count
    <3>2. Hyperslab(<<b, 0, 0>>, <<n, rows, Cols>>, <<1, 1, 1>>) = Box(<<b, 0, 0>>, <<n, rows, Cols>>)
      BY <2>1, ProjectionsWritten
    <3> QED
      BY <3>1, <3>2
  <2> QED
    BY <2>2, <2>3
<1> HIDE DEF offset, count
<1>7. out' = [c \in Extent(Dim) |-> IF c \in Box(Corner(r), Extents(r)) THEN c ELSE out[c]]
  <2>1. data[r] = [o \in 0 .. Size(Extents(r)) - 1 |-> Onto(Corner(r), Place(o, Extents(r)))]
    BY <1>4 DEF Held
  <2>2. H5Dwrite(out, dataset, Box(Corner(r), Extents(r)), data[r])
          = [c \in Extent(dataset) |-> IF c \in Box(Corner(r), Extents(r)) THEN c ELSE out[c]]
    BY <1>5, <2>1, WriteBox
  <2> QED
    BY <1>1, <1>6, <2>2 DEF Dim
<1>8. /\ \A u : Box(Corner(u), Extents(u))' = Box(Corner(u), Extents(u))
      /\ (WritesRows' <=> WritesRows) /\ (Writes' <=> Writes) /\ (Copying' <=> Copying)
      /\ Extent(Dim)' = Extent(Dim)
  BY <1>1, <1>2, SameJob
<1>9. /\ out' = [c \in Extent(Dim) |-> out'[c]]
      /\ \A c \in Extent(Dim) : c \in Box(Corner(r), Extents(r)) \/ out[c] = c => out'[c] = c
  BY <1>7
<1>10. ASSUME NEW u \in Ranks, stage'[u] \in {"close", "done"}, NEW c \in Box(Corner(u), Extents(u))
       PROVE  out'[c] = c
  <2>1. c \in Extent(Dim)
    BY <1>3, <1>4, BoxInside DEF Dim
  <2>2. CASE u = r
    BY <1>9, <2>1, <2>2
  <2>3. CASE u # r
    <3>1. out[c] = c
      BY <1>1, <1>2, <1>3, <1>10, <2>3 DEF OutOK
    <3> QED
      BY <1>9, <2>1, <3>1
  <2> QED
    BY <2>2, <2>3
<1>11. OutOK'
  BY <1>2, <1>3, <1>8, <1>9, <1>10 DEF OutOK
<1> QED
  BY <1>2, <1>11 DEF FileInv

\* The file is closed by all.
LEMMA CloseFile ==
  ASSUME FileInv, Close
  PROVE  FileInv'
<1>1. /\ \A r \in Ranks : stage[r] = "close"
      /\ stage' = [r \in Ranks |-> "done"]
      /\ UNCHANGED <<vars, job, dataset, iter, own, data, recon, reqs, out>>
  BY DEF Close, Everywhere
<1>2. /\ JobsOK /\ UNCHANGED <<rows, n_ranks>> /\ DOMAIN stage = Ranks /\ Ranks' = Ranks
  BY <1>1 DEF FileInv, JobsOK, vars, Ranks
<1>3. \A r \in Ranks : stage'[r] = "done"
  BY <1>1
<1>4. \A r \in Ranks : HoldsOK(r)'
  BY <1>1, <1>2, <1>3, GoesOn DEF FileInv
<1>5. JobsOK'
  <2>1. DOMAIN stage' = DOMAIN stage
    BY <1>1, <1>2
  <2> QED
    BY <1>1, <1>2, <2>1, JobsStay
<1>6. OutOK'
  BY <1>1, <1>2, <1>3, OutStays DEF FileInv, InFile
<1> QED
  BY <1>2, <1>4, <1>5, <1>6 DEF FileInv

\* Every step of every client keeps what is held and what is written.
LEMMA FileNextOK == FileInv /\ [VolumeNext]_<<vars, volvars>> => FileInv'
<1> SUFFICES ASSUME FileInv, [VolumeNext]_<<vars, volvars>>
             PROVE  FileInv'
  OBVIOUS
<1>1. CASE Distribute
  BY <1>1, DistributeFile
<1>2. ASSUME NEW r \in Ranks,
             \/ TakeAnnounced(r) \/ Throw(r) \/ LoadTheta(r) \/ Load(r) \/ Iterate(r)
             \/ Post(r) \/ Waitall(r) \/ BeginWrite(r) \/ Write(r) \/ WriteData(r)
      PROVE  FileInv'
  BY <1>2, TakeFile, ThrowFile, ThetaFile, LoadFile, IterateFile, PostFile, MoveFile, WriteFile, CopyFile
<1>3. ASSUME NEW r \in Ranks, NEW q \in reqs[r], Depart(r, q) \/ Arrive(r, q)
      PROVE  FileInv'
  BY <1>3, DepartFile, ArriveFile
<1>4. CASE Create \/ Close
  BY <1>4, CreateFile, CloseFile
<1>5. CASE UNCHANGED <<vars, volvars>>
  BY <1>5, StutterFile
<1>6. CASE Ended
  BY <1>5, <1>6 DEF Ended
<1> QED
  BY <1>1, <1>2, <1>3, <1>4, <1>5, <1>6 DEF VolumeNext

\* The inductive invariant of what the ranks hold and of the file they write together,
\* for every client, volume and number of ranks.
THEOREM FileInvariant == VolumeSpec => []FileInv
BY FileInitOK, FileNextOK, PTL DEF VolumeSpec

\* The place of number o, as the ray's projection and row are computed from it
\* (RayProjection and RaySlice of trace_data.h).
LEMMA RayOfPlace ==
  ASSUME NEW m \in Triples, NEW o \in 0 .. Size(m) - 1
  PROVE  /\ o \div (m[2] * m[3]) = (o \div m[3]) \div m[2]
         /\ (o - (o \div (m[2] * m[3])) * m[2] * m[3]) \div m[3] = (o \div m[3]) % m[2]
<1> DEFINE p == m[1]
           n == m[2]
           c == m[3]
<1>0. p \in Nat /\ n \in Nat /\ c \in Nat /\ Size(m) = (p * n) * c
  BY DEF Triples, Size
<1> HIDE DEF p, n, c
<1>1. o \in Nat /\ p * n \in Nat /\ o < (p * n) * c
  <2>1. p * n \in Nat /\ (p * n) * c \in Nat
    BY <1>0
  <2> QED
    BY <1>0, <2>1
<1>2. c > 0 /\ o \div c \in 0 .. p * n - 1 /\ o % c \in 0 .. c - 1 /\ o = (o \div c) * c + (o % c)
  BY <1>0, <1>1, Parts
<1> DEFINE a == o \div c
           u == o % c
<1>3. a \in Nat /\ a < p * n /\ u \in 0 .. c - 1 /\ o = a * c + u
  BY <1>1, <1>2
<1> HIDE DEF a, u
<1>4. n > 0 /\ a \div n \in 0 .. p - 1 /\ a % n \in 0 .. n - 1 /\ a = (a \div n) * n + (a % n)
  BY <1>0, <1>3, Parts
<1> DEFINE x == a \div n
           y == a % n
<1>5. x \in Nat /\ y \in 0 .. n - 1 /\ a = x * n + y
  BY <1>4
<1> HIDE DEF x, y
<1>6. y * c + u \in 0 .. n * c - 1 /\ n * c \in Nat
  <2>1. y + 1 <= n /\ y \in Nat /\ u < c /\ u \in Nat
    BY <1>0, <1>3, <1>5
  <2>2. (y + 1) * c <= n * c /\ (y + 1) * c = y * c + c /\ y * c \in Nat /\ n * c \in Nat
    BY <1>0, <2>1
  <2> QED
    BY <1>0, <2>1, <2>2
<1>7. o = x * (n * c) + (y * c + u)
  <2>1. a * c = (x * n) * c + y * c /\ (x * n) * c = x * (n * c)
    BY <1>0, <1>5
  <2>2. x * (n * c) \in Nat /\ y * c \in Nat /\ u \in Nat
    BY <1>0, <1>3, <1>5
  <2> QED
    BY <1>3, <2>1, <2>2
<1>8. (x * (n * c) + (y * c + u)) \div (n * c) = x
  BY <1>5, <1>6, UniqueQuotient
<1>9. o \div (n * c) = x
  BY <1>7, <1>8
<1>10. (y * c + u) \div c = y
  <2>1. y \in Nat
    BY <1>5
  <2> QED
    BY <1>0, <1>3, <2>1, UniqueQuotient
<1>11. o - x * n * c = y * c + u
  <2>1. x * n * c = x * (n * c) /\ x * (n * c) \in Nat
    BY <1>0, <1>5
  <2> QED
    BY <1>6, <1>7, <2>1
<1> QED
  BY <1>9, <1>10, <1>11 DEF x, y, a, n, c

\* What ReadSlices, ReadProjections and ReadTheta leave in the buffers is where
\* the kernels look for it: at offset o the element of the projection and the row
\* that the index computes, counted from the rank's first.
THEOREM AsIndexed == VolumeSpec => []ReadAsIndexed
<1>1. FileInv => ReadAsIndexed
  <2> SUFFICES ASSUME FileInv
               PROVE  ReadAsIndexed
    OBVIOUS
  <2>1. JobsOK
    BY DEF FileInv
  <2> DEFINE Lines(r) == IF BySlices THEN own[r].n ELSE Dim[2]
             Proj(r, o) == o \div (Lines(r) * Cols)
             Line(r, o) == (o - Proj(r, o) * Lines(r) * Cols) \div Cols
             Indexed(r, o) == CASE job = "theta" -> <<o, "radian">>
                                [] BySlices      -> <<Proj(r, o), own[r].beg + Line(r, o), o % Cols>>
                                [] OTHER         -> <<own[r].beg + Proj(r, o), Line(r, o), o % Cols>>
  <2>2. ASSUME NEW r \in Ranks, NEW o \in DOMAIN data[r]
        PROVE  data[r][o] = Indexed(r, o)
    <3>1. data[r] # << >>
      OBVIOUS
    <3>2. HoldsOK(r) /\ job # "stream" /\ stage[r] \notin {"begin", "thrown"} /\ Readable
      BY <3>1 DEF FileInv, HoldsOK
    <3>3. CASE job = "theta"
      <4>1. data[r] = [z \in 0 .. Dim[1] - 1 |-> <<ReadTheta[z][1], "radian">>]
        BY <3>2, <3>3 DEF HoldsOK, DegreeToRadian
      <4>2. o \in 0 .. Dim[1] - 1 /\ data[r][o] = <<ReadTheta[o][1], "radian">>
        BY <4>1
      <4>3. ReadTheta[o] = <<o, "degree">>
        BY <4>2 DEF ReadTheta
      <4>4. data[r][o] = <<o, "radian">>
        BY <4>2, <4>3
      <4>5. ~BySlices
        BY <3>3 DEF BySlices
      <4>6. Indexed(r, o) = <<o, "radian">>
        BY <3>3, <4>5
      <4> QED
        BY <4>4, <4>6
    <3>4. CASE job # "theta"
      <4>1. Cuts
        BY <2>1, <3>2, <3>4 DEF JobsOK, Cuts
      <4>2. own[r] = Part(r) /\ data[r] = Held(r)
        BY <3>2, <3>4, <4>1 DEF HoldsOK
      <4>3. dataset = <<Projs, rows, Cols>>
        BY <2>1, <3>2, <3>4, BoxInside
      <4> DEFINE b == Part(r).beg
                 n == Part(r).n
                 x == (o \div Cols) \div Lines(r)
                 y == (o \div Cols) % Lines(r)
      <4>4. b \in Nat /\ n \in Nat /\ rows \in Nat /\ Projs \in Nat /\ Cols \in Nat /\ Cols > 0
        BY <2>1, SharedParts, VolumeAssumption DEF JobsOK
      <4>5. /\ Corner(r) = IF BySlices THEN <<0, b, 0>> ELSE <<b, 0, 0>>
            /\ Extents(r) = IF BySlices THEN <<Projs, n, Cols>> ELSE <<n, rows, Cols>>
            /\ Lines(r) = IF BySlices THEN n ELSE rows
        BY <4>2, <4>3 DEF Corner, Extents, Dim
      <4>6. o \in 0 .. Size(Extents(r)) - 1 /\ data[r][o] = Onto(Corner(r), Place(o, Extents(r)))
        BY <4>2 DEF Held
      <4> HIDE DEF b, n, Lines
      <4>7. Proj(r, o) = x /\ Line(r, o) = y
        <5>1. CASE BySlices
          <6>0. Extents(r) \in Triples
            BY <2>1, <3>2, <3>4, BoxInside
          <6>1. Extents(r)[2] = n /\ Extents(r)[3] = Cols
            BY <4>5, <5>1
          <6>2. /\ o \div (n * Cols) = (o \div Cols) \div n
                /\ (o - (o \div (n * Cols)) * n * Cols) \div Cols = (o \div Cols) % n
            BY <4>6, <6>0, <6>1, RayOfPlace
          <6>3. Lines(r) = n
            BY <4>5, <5>1
          <6> QED
            BY <6>2, <6>3
        <5>2. CASE ~BySlices
          <6>0. Extents(r) \in Triples
            BY <2>1, <3>2, <3>4, BoxInside
          <6>1. Extents(r)[2] = rows /\ Extents(r)[3] = Cols
            BY <4>5, <5>2
          <6>2. /\ o \div (rows * Cols) = (o \div Cols) \div rows
                /\ (o - (o \div (rows * Cols)) * rows * Cols) \div Cols = (o \div Cols) % rows
            BY <4>6, <6>0, <6>1, RayOfPlace
          <6>3. Lines(r) = rows
            BY <4>5, <5>2
          <6> QED
            BY <6>2, <6>3
        <5> QED
          BY <5>1, <5>2
      <4>8. Place(o, Extents(r)) = <<x, y, o % Cols>>
        BY <4>5 DEF Place
      <4>9. x \in Int /\ y \in Int /\ o % Cols \in Int
        <5>1. Place(o, Extents(r)) \in Extent(Extents(r)) /\ Extents(r) \in Triples
          <6>1. Extents(r) \in Triples
            BY <2>1, <3>2, <3>4, BoxInside
          <6> QED
            BY <4>6, <6>1, PlaceOK
        <5> QED
          BY <4>8, <5>1 DEF Extent
      <4>10. own[r].beg = b
        BY <4>2 DEF b
      <4> HIDE DEF x, y, Proj, Line
      <4>11. CASE BySlices
        <5>1. data[r][o] = <<0 + x, b + y, 0 + (o % Cols)>>
          BY <4>5, <4>6, <4>8, <4>11 DEF Onto
        <5>2. data[r][o] = <<x, b + y, o % Cols>>
          BY <4>9, <5>1
        <5>3. Indexed(r, o) = <<Proj(r, o), own[r].beg + Line(r, o), o % Cols>>
          BY <3>4, <4>11
        <5> QED
          BY <4>7, <4>10, <5>2, <5>3
      <4>12. CASE ~BySlices
        <5>1. data[r][o] = <<b + x, 0 + y, 0 + (o % Cols)>>
          BY <4>5, <4>6, <4>8, <4>12 DEF Onto
        <5>2. data[r][o] = <<b + x, y, o % Cols>>
          BY <4>9, <5>1
        <5>3. Indexed(r, o) = <<own[r].beg + Proj(r, o), Line(r, o), o % Cols>>
          BY <3>4, <4>12
        <5> QED
          BY <4>7, <4>10, <5>2, <5>3
      <4> QED
        BY <4>11, <4>12
    <3> QED
      BY <3>3, <3>4
  <2> QED
    BY <2>2 DEF ReadAsIndexed
<1> QED
  BY FileInvariant, <1>1, PTL

\* The file that was closed holds every row of the volume at its place, as of the
\* last iteration, and a copy every element of its original, whoever wrote it and
\* in whichever order (WriteRecon, WriteData).
THEOREM WholeFile == VolumeSpec => []FileIsWhole
<1>1. FileInv => FileIsWhole
  <2> SUFFICES ASSUME FileInv, \A r \in Ranks : stage[r] = "done"
               PROVE  /\ job \in {"stream", "slices"} =>
                           out = [j \in 0 .. rows - 1 |-> [row |-> j, iter |-> Iters]]
                      /\ Copying => out = [c \in Extent(Dim) |-> c]
    BY DEF FileIsWhole, Everywhere
  <2>1. /\ JobsOK /\ OutOK /\ rows \in Nat /\ n_ranks \in Nat \ {0} /\ Ranks = 0 .. n_ranks - 1
        /\ 0 \in Ranks /\ Projs \in Nat /\ Cols \in Nat
    BY VolumeAssumption DEF FileInv, JobsOK, PartitionInv, TypeOK, Ranks
  <2>2. ASSUME job \in {"stream", "slices"}
        PROVE  out = [j \in 0 .. rows - 1 |-> [row |-> j, iter |-> Iters]]
    <3>1. WritesRows /\ \A r : Part(r) = assign_data(r, n_ranks, rows)
      BY <2>2 DEF WritesRows, Part, BySlices
    <3>2. out = [j \in 0 .. rows - 1 |-> out[j]]
      BY <2>1, <3>1 DEF OutOK, InFile
    <3>3. ASSUME NEW j \in 0 .. rows - 1
          PROVE  out[j] = [row |-> j, iter |-> Iters]
      <4>1. PICK r \in 0 .. n_ranks - 1 : j \in Part(r).beg .. Part(r).beg + Part(r).n - 1
        BY <2>1, <3>1, Covered
      <4> QED
        BY <2>1, <3>1, <4>1 DEF OutOK
    <3> QED
      BY <3>2, <3>3
  <2>3. ASSUME Copying
        PROVE  out = [c \in Extent(Dim) |-> c]
    <3>1. job # "stream" /\ job # "theta" /\ ~WritesRows /\ Writes
      BY <2>3 DEF Copying, WritesRows, Writes
    <3>2. Readable
      BY <2>1, <3>1 DEF FileInv, HoldsOK
    <3>3. Dim = <<Projs, rows, Cols>>
      BY <2>1, <3>1, <3>2, BoxInside DEF Dim
    <3>4. out = [c \in Extent(Dim) |-> out[c]]
      BY <2>1, <2>3 DEF OutOK, InFile
    <3>5. ASSUME NEW c \in Extent(Dim)
          PROVE  out[c] = c
      <4>1. c = <<c[1], c[2], c[3]>> /\ c[1] \in 0 .. Projs - 1 /\ c[2] \in 0 .. rows - 1 /\ c[3] \in 0 .. Cols - 1
        BY <3>3 DEF Extent
      <4>2. /\ 0 .. 0 + Projs - 1 = 0 .. Projs - 1 /\ 0 .. 0 + rows - 1 = 0 .. rows - 1
            /\ 0 .. 0 + Cols - 1 = 0 .. Cols - 1
        BY <2>1
      <4>3. \E r \in Ranks : c \in Box(Corner(r), Extents(r))
        <5>1. CASE BySlices
          <6>1. \A r : Part(r) = assign_data(r, n_ranks, rows)
            BY <5>1 DEF Part
          <6>2. PICK r \in Ranks : c[2] \in Part(r).beg .. Part(r).beg + Part(r).n - 1
            BY <2>1, <4>1, <6>1, Covered
          <6>3. Box(Corner(r), Extents(r))
                  = (0 .. 0 + Projs - 1) \X (Part(r).beg .. Part(r).beg + Part(r).n - 1) \X (0 .. 0 + Cols - 1)
            BY <5>1 DEF Box, Corner, Extents
          <6> QED
            BY <4>1, <4>2, <6>2, <6>3
        <5>2. CASE ~BySlices
          <6>1. \A r : Part(r) = assign_data(r, n_ranks, Projs)
            BY <3>1, <5>2 DEF Part
          <6>2. PICK r \in Ranks : c[1] \in Part(r).beg .. Part(r).beg + Part(r).n - 1
            BY <2>1, <4>1, <6>1, Covered
          <6>3. Box(Corner(r), Extents(r))
                  = (Part(r).beg .. Part(r).beg + Part(r).n - 1) \X (0 .. 0 + rows - 1) \X (0 .. 0 + Cols - 1)
            BY <5>2 DEF Box, Corner, Extents
          <6> QED
            BY <4>1, <4>2, <6>2, <6>3
        <5> QED
          BY <5>1, <5>2
      <4> QED
        BY <2>1, <2>3, <4>3 DEF OutOK
    <3> QED
      BY <3>4, <3>5
  <2> QED
    BY <2>2, <2>3
<1> QED
  BY FileInvariant, <1>1, PTL
=============================================================================
