-------------------------- MODULE SinogramPartition --------------------------
(***************************************************************************)
(* Who reconstructs which rows.  handshake announces to every rank a block *)
(* of sinogram rows, computed in closed form from the rank (assign_data);  *)
(* push_image cuts every image into blocks with a loop that counts the     *)
(* leftover rows down (generate_tracemq_worker_msgs).  A rank reads as     *)
(* many rows from a message as were announced to it (AddTomoMsg) and       *)
(* writes its part of the reconstruction to that block of the shared HDF5  *)
(* dataset (WriteData), so the two computations must cut in the same       *)
(* places.                                                                 *)
(***************************************************************************)
EXTENDS Integers

CONSTANTS MaxRows,   \* bound on the number of sinogram rows
          MaxRanks   \* bound on the number of ranks

ASSUME MaxRowsAssumption == MaxRows \in Nat
ASSUME MaxRanksAssumption == MaxRanks \in Nat

VARIABLES rows,       \* --num_sinograms, the same in both calls
          n_ranks,    \* n_workers
          pc,         \* "announce", "cut", "end"
          k,          \* the loop index (i in both loops)
          remaining,  \* push_image: leftover rows, counted down below zero
          curr,       \* push_image: curr_sinogram_id
          info,       \* info[r]: the block announced to rank r
          msg         \* msg[r]: the block in the message to rank r

vars == <<rows, n_ranks, pc, k, remaining, curr, info, msg>>

Block(b, n) == [beg |-> b, n |-> n]
None == Block(0, 0)

\* Faulty variant: the ranks after the leftover rows forget to skip them.
assign_data_unshifted(rank, size, total) ==
  LET nsino == total \div size
      left  == total % size
  IN  Block(IF rank < left THEN (1 + nsino) * rank ELSE nsino * rank,
            IF rank < left THEN nsino + 1 ELSE nsino)

\* assign_data, for one rank.
assign_data(rank, size, total) ==
  LET nsino == total \div size
      left  == total % size
  IN  Block(IF rank < left THEN (1 + nsino) * rank
                           ELSE (1 + nsino) * left + nsino * (rank - left),
            IF rank < left THEN nsino + 1 ELSE nsino)

Init == /\ rows \in 0 .. MaxRows
        /\ n_ranks \in 1 .. MaxRanks
        /\ pc = "announce" /\ k = 0
        /\ remaining = 0 /\ curr = 0
        /\ info = [r \in 0 .. n_ranks - 1 |-> None]
        /\ msg = [r \in 0 .. n_ranks - 1 |-> None]

\* The condition of "for(i<n_workers)" after ++i.
MoreTurns == k + 1 < n_ranks

\* handshake, one turn of the loop that sends the announcements; when it is
\* through, the first image can be cut.
Announce ==
  /\ pc = "announce"
  /\ info' = [info EXCEPT ![k] = assign_data(k, n_ranks, rows)]
  /\ \/ MoreTurns /\ k' = k + 1 /\ UNCHANGED <<pc, remaining>>
     \/ ~MoreTurns /\ k' = 0 /\ pc' = "cut" /\ remaining' = rows % n_ranks
  /\ UNCHANGED <<rows, n_ranks, curr, msg>>

\* Faulty variant: a rank too many gets an extra row.
ExtraOnceMore == IF remaining >= 0 THEN 1 ELSE 0

\* (remaining--) > 0: one of the leftover rows.
Extra == IF remaining > 0 THEN 1 ELSE 0

\* generate_tracemq_worker_msgs, one turn of its loop.
Cut ==
  LET n == (rows \div n_ranks) + Extra IN
  /\ pc = "cut"
  /\ msg' = [msg EXCEPT ![k] = Block(curr, n)]
  /\ curr' = curr + n
  /\ remaining' = remaining - 1
  /\ \/ MoreTurns /\ k' = k + 1 /\ UNCHANGED pc
     \/ ~MoreTurns /\ k' = 0 /\ pc' = "end"
  /\ UNCHANGED <<rows, n_ranks, info>>

Finished == pc = "end" /\ UNCHANGED vars

Next == Announce \/ Cut \/ Finished

Spec == Init /\ [][Next]_vars

-----------------------------------------------------------------------------
Ranks == 0 .. n_ranks - 1
BlockSet == [beg : Nat, n : Nat]

\* Every variable is a number or a table of blocks; remaining may be negative.
TypeOK == /\ rows \in Nat
          /\ n_ranks \in Nat \ {0}
          /\ pc \in {"announce", "cut", "end"}
          /\ k \in Ranks
          /\ remaining \in Int
          /\ curr \in Nat
          /\ info \in [Ranks -> BlockSet]
          /\ msg \in [Ranks -> BlockSet]

\* The block cut for a rank is the block announced to it: a rank never reads
\* past the end of its message, nor another rank's rows (AddTomoMsg copies
\* n_sinograms * n_rays_per_proj_row values without looking at the message's
\* size).
CutAsAnnounced ==
  \A r \in Ranks : (pc = "end" \/ (pc = "cut" /\ r < k)) => msg[r] = info[r]

\* No row is lost and none is reconstructed twice: the blocks follow each other
\* without gap or overlap, from row 0 to the last row, so that the hyperslabs
\* the ranks write collectively tile the dataset.
BlocksTile ==
  pc # "announce" =>
    /\ info[0].beg = 0
    /\ \A r \in Ranks : r + 1 < n_ranks => info[r + 1].beg = info[r].beg + info[r].n
    /\ info[n_ranks - 1].beg + info[n_ranks - 1].n = rows

\* What the two loops maintain (inductive): the tables are right up to the loop
\* index, the next cut starts where the closed form says, and the count-down is
\* the leftover minus the turns taken.
PartitionInv ==
  /\ TypeOK
  /\ \A r \in Ranks : (pc # "announce" \/ r < k) => info[r] = assign_data(r, n_ranks, rows)
  /\ pc = "announce" => curr = 0
  /\ pc = "cut" => /\ curr = assign_data(k, n_ranks, rows).beg
                   /\ remaining = (rows % n_ranks) - k
  /\ CutAsAnnounced
=============================================================================
