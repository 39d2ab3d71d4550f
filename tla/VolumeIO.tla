------------------------------ MODULE VolumeIO ------------------------------
(***************************************************************************)
(* From the file to the ranks, between the ranks, and back to the file     *)
(* (trace_h5io.cc, disp_io_hdf5.h, trace_comm.cc).  Clients of these calls: *)
(*   "stream"       sirt_stream: a rank has the rows the distributor       *)
(*                  announced to it (SinogramPartition), no neighbouring   *)
(*                  rows, and only writes;                                 *)
(*   "slices"       a rank takes its share of the rows of an HDF5 dataset  *)
(*                  (DistributeSlices), reads them (ReadSlices), keeps one *)
(*                  row of each neighbour around its own, and renews those *)
(*                  after every iteration (GlobalNeighborUpdate);          *)
(*   "projections"  a rank reads its share of the projections;             *)
(*   "theta"        a rank reads all the angles (ReadTheta);               *)
(*   "copy_slices", "copy_projections"                                     *)
(*                  a rank reads its share with the class DISPIOH5 and     *)
(*                  writes it to a dataset of the same dimensions.         *)
(* No program of the repository makes the calls of any kind but "stream"   *)
(* any more: their client here is the least one the signatures allow, and  *)
(* what a client iterates is a step of its own (Iterate).                  *)
(*                                                                         *)
(* A row of the reconstruction is [row, iter]: whose it is, how new it is. *)
(* HDF5 and MPI are external: a read or a write moves the elements of one  *)
(* selection to those of the other in row-major order; a message leaves    *)
(* the sender's memory at any time after Isend and reaches the receiver's  *)
(* at any time after Irecv, in order.                                      *)
(***************************************************************************)
EXTENDS SinogramPartition, Sequences, FiniteSets

CONSTANTS MaxVolumeRows,   \* bound on the rows of a volume that is written
          MaxVolumeRanks,  \* bound on the ranks that write it
          Projs, Cols,     \* the other two dimensions of the dataset
          Iters            \* iterations before the volume is written

ASSUME VolumeAssumption ==
  /\ MaxVolumeRows \in Nat /\ MaxVolumeRanks \in Nat
  /\ Projs \in Nat \ {0} /\ Cols \in Nat \ {0} /\ Iters \in Nat \ {0}

VARIABLES job,     \* which client runs
          dataset, \* the dimensions of the input dataset; << >> if there is none
          eager,   \* a message may leave before its receive is posted
          stage,   \* stage[r]: where rank r is
          iter,    \* iter[r]: iterations done
          own,     \* own[r]: slice_id or offset, and the count, of rank r
          data,    \* data[r]: what H5Dread left in the buffer of rank r
          recon,   \* recon[r]: the rows of its TraceMetadata's recon()
          reqs,    \* reqs[r]: requests not complete, [op, peer, at]
          chan,    \* chan[r][s]: rows that have left r for s
          out      \* the dataset in the output file

volvars == <<job, dataset, eager, stage, iter, own, data, recon, reqs, chan, out>>

NoRow == [row |-> -1, iter |-> 0]
Dim == dataset    \* H5Metadata's dims[i] is Dim[i + 1]

-----------------------------------------------------------------------------
(* HDF5: selections, and the order in which their elements correspond.     *)

\* The elements of H5Sselect_hyperslab(offset, stride NULL, count, block).
Hyperslab(offset, count, block) ==
  LET Along(d) == {offset[d] + i + j : i \in 0 .. count[d] - 1, j \in 0 .. block[d] - 1}
  IN  Along(1) \X Along(2) \X Along(3)

Linear(c, dims) == (c[1] * dims[2] + c[2]) * dims[3] + c[3]

Extent(dims) == (0 .. dims[1] - 1) \X (0 .. dims[2] - 1) \X (0 .. dims[3] - 1)

\* The position of an element in its selection.
Ordinal(c, sel, dims) == Cardinality({d \in sel : Linear(d, dims) < Linear(c, dims)})

\* H5Dread of a selection into the whole of a memory space: what the buffer
\* holds at each offset.  It fails, and leaves the zeros (result ignored), if
\* the selection is not inside the dataset or not as large as the memory.
H5Dread(sel, mdims) ==
  LET mem == Extent(mdims)
      At(o) == CHOOSE m \in mem : Linear(m, mdims) = o
  IN  [o \in 0 .. Cardinality(mem) - 1 |->
         IF sel \subseteq Extent(Dim) /\ Cardinality(sel) = Cardinality(mem)
           THEN CHOOSE c \in sel : Ordinal(c, sel, Dim) = Ordinal(At(o), mem, mdims)
           ELSE <<>>]

\* Faulty variant: the block spans the wrong dimension.
ReadSlicesOfProjections(beg, count) ==
  H5Dread(Hyperslab(<<beg, 0, 0>>, <<count, 1, 1>>, <<1, Dim[2], Dim[3]>>),
          <<Dim[1], count, Dim[3]>>)

\* All the projections of rows beg, beg + 1, ...
ReadSlices(beg, count) ==
  H5Dread(Hyperslab(<<0, beg, 0>>, <<1, count, 1>>, <<Dim[1], 1, Dim[3]>>),
          <<Dim[1], count, Dim[3]>>)

\* All the rows of projections beg, beg + 1, ...
ReadProjections(beg, count) ==
  H5Dread(Hyperslab(<<beg, 0, 0>>, <<count, 1, 1>>, <<1, Dim[2], Dim[3]>>),
          <<count, Dim[2], Dim[3]>>)

\* The class DISPIOH5 has the two reads a second time, selection for selection.
DISPIOH5_ReadSlices(beg, count) == ReadSlices(beg, count)
DISPIOH5_ReadProjections(beg, count) == ReadProjections(beg, count)

\* ReadTheta reads the whole dataset (H5S_ALL), of one dimension.
ReadTheta == [o \in 0 .. Dim[1] - 1 |-> <<o, "degree">>]

DegreeToRadian(theta) == [o \in 0 .. Dim[1] - 1 |-> <<theta[o][1], "radian">>]

\* H5Dwrite of a whole memory space to a selection, unless that is not inside
\* the dataset.
H5Dwrite(file, dims, sel, mem) ==
  IF ~(sel \subseteq Extent(dims)) THEN file
  ELSE [c \in Extent(dims) |-> IF c \in sel THEN mem[Ordinal(c, sel, dims)] ELSE file[c]]

\* DistributeSlices: the first "remain" ranks get one block more.
DistributeSlices(rank, size, blocks) ==
  LET base   == blocks \div size
      remain == blocks - base * size
      beg    == IF rank < remain THEN (base + 1) * rank
                ELSE (base + 1) * remain + base * (rank - remain)
      final  == IF rank < remain THEN beg + base + 1 ELSE beg + base
  IN  Block(beg, final - beg)

-----------------------------------------------------------------------------
(* The client.                                                             *)

\* num_neighbor_recon_slices: recon() has that many rows more at either end.
Neighbors == IF job = "slices" THEN 1 ELSE 0

BySlices == job \in {"slices", "copy_slices"}
Copying == job \in {"copy_slices", "copy_projections"}

VolumeInit ==
  /\ Init
  /\ job \in {"stream", "slices", "projections", "theta", "copy_slices", "copy_projections"}
  /\ job # "stream" => rows \in 1 .. MaxVolumeRows /\ n_ranks <= MaxVolumeRanks
  /\ dataset \in IF job = "stream" THEN {<<0, rows, Cols>>}
                 ELSE {<< >>, <<Projs>>, <<Projs, rows, Cols>>}
  /\ eager \in IF job = "slices" THEN BOOLEAN ELSE {FALSE}
  /\ stage = [r \in 0 .. n_ranks - 1 |-> "begin"]
  /\ iter = [r \in 0 .. n_ranks - 1 |-> 0]
  /\ own = [r \in 0 .. n_ranks - 1 |-> None]
  /\ data = [r \in 0 .. n_ranks - 1 |-> << >>]
  /\ recon = [r \in 0 .. n_ranks - 1 |-> << >>]
  /\ reqs = [r \in 0 .. n_ranks - 1 |-> {}]
  /\ chan = [r \in 0 .. n_ranks - 1 |-> [s \in 0 .. n_ranks - 1 |-> << >>]]
  /\ out = << >>

\* A volume with rows b.beg ... and room for the neighbours' rows.
FreshRecon(b) ==
  [i \in 0 .. b.n + 2 * Neighbors - 1 |->
     IF i \in Neighbors .. b.n + Neighbors - 1
       THEN [row |-> b.beg + i - Neighbors, iter |-> 0] ELSE NoRow]

\* main of sirt_stream: the rows are those of the handshake's answer.
TakeAnnounced(r) ==
  /\ job = "stream" /\ pc = "end" /\ stage[r] = "begin"
  /\ rows <= MaxVolumeRows /\ n_ranks <= MaxVolumeRanks
  /\ own' = [own EXCEPT ![r] = info[r]]
  /\ recon' = [recon EXCEPT ![r] = FreshRecon(info[r])]
  /\ stage' = [stage EXCEPT ![r] = "iterate"]
  /\ UNCHANGED <<vars, job, dataset, eager, iter, data, reqs, chan, out>>

\* ReadMetadata throws if there is no file or dataset, ReadTheta if the dataset
\* has not one dimension, the other reads if it has not three.  What is thrown
\* nobody catches.
Readable == Len(dataset) = IF job = "theta" THEN 1 ELSE 3

Throw(r) ==
  /\ job # "stream" /\ stage[r] = "begin"
  /\ ~Readable
  /\ stage' = [stage EXCEPT ![r] = "thrown"]
  /\ UNCHANGED <<vars, job, dataset, eager, iter, own, data, recon, reqs, chan, out>>

\* ReadMetadata and ReadTheta.
LoadTheta(r) ==
  /\ job = "theta" /\ stage[r] = "begin" /\ Readable
  /\ data' = [data EXCEPT ![r] = DegreeToRadian(ReadTheta)]
  /\ stage' = [stage EXCEPT ![r] = "done"]
  /\ UNCHANGED <<vars, job, dataset, eager, iter, own, recon, reqs, chan, out>>

\* ReadMetadata, DistributeSlices and ReadSlices or ReadProjections.
Load(r) ==
  LET b == DistributeSlices(r, n_ranks, IF BySlices THEN Dim[2] ELSE Dim[1]) IN
  /\ job \notin {"stream", "theta"} /\ stage[r] = "begin" /\ Readable
  /\ own' = [own EXCEPT ![r] = b]
  /\ data' = [data EXCEPT ![r] =
       CASE job = "slices"           -> ReadSlices(b.beg, b.n)
         [] job = "projections"      -> ReadProjections(b.beg, b.n)
         [] job = "copy_slices"      -> DISPIOH5_ReadSlices(b.beg, b.n)
         [] job = "copy_projections" -> DISPIOH5_ReadProjections(b.beg, b.n)]
  /\ recon' = IF job = "slices" THEN [recon EXCEPT ![r] = FreshRecon(b)] ELSE recon
  /\ stage' = [stage EXCEPT ![r] =
       CASE job = "slices"      -> "iterate"
         [] job = "projections" -> "done"
         [] Copying             -> "create"]
  /\ UNCHANGED <<vars, job, dataset, eager, iter, reqs, chan, out>>

\* One iteration over the rank's own rows; it reads the neighbours'.
Iterate(r) ==
  /\ stage[r] = "iterate" /\ iter[r] < Iters
  /\ iter' = [iter EXCEPT ![r] = @ + 1]
  /\ recon' = [recon EXCEPT ![r] =
       [i \in DOMAIN @ |-> IF i \in Neighbors .. own[r].n + Neighbors - 1
                             THEN [@[i] EXCEPT !.iter = iter[r] + 1] ELSE @[i]]]
  /\ stage' = [stage EXCEPT ![r] = IF job = "slices" THEN "update" ELSE "iterate"]
  /\ UNCHANGED <<vars, job, dataset, eager, own, data, reqs, chan, out>>

-----------------------------------------------------------------------------
(* GlobalNeighborUpdate(recon, num_slices, slice_size), num_slices with the *)
(* neighbours' rows.                                                       *)

WithUp(r) == {[op |-> "send", peer |-> r - 1, at |-> 1],
              [op |-> "recv", peer |-> r - 1, at |-> 0]}

WithBottom(r) ==
  LET num_slices == own[r].n + 2 * Neighbors
  IN  {[op |-> "send", peer |-> r + 1, at |-> num_slices - 2],
       [op |-> "recv", peer |-> r + 1, at |-> num_slices - 1]}

Requests(r) == (IF r > 0 THEN WithUp(r) ELSE {})
               \cup (IF r < n_ranks - 1 THEN WithBottom(r) ELSE {})

\* MPI_Isend and MPI_Irecv; the only rank has no neighbour and returns.
Post(r) ==
  /\ stage[r] = "update"
  /\ reqs' = [reqs EXCEPT ![r] = Requests(r)]
  /\ stage' = [stage EXCEPT ![r] = "waitall"]
  /\ UNCHANGED <<vars, job, dataset, eager, iter, own, data, recon, chan, out>>

Posted(r, s, op) == \E q \in reqs[r] : q.op = op /\ q.peer = s

\* MPI: a row leaves the sender's memory, at once or when it is waited for.
Depart(r, q) ==
  /\ q.op = "send"
  /\ eager \/ Posted(q.peer, r, "recv")
  /\ chan' = [chan EXCEPT ![r][q.peer] = Append(@, recon[r][q.at])]
  /\ reqs' = [reqs EXCEPT ![r] = @ \ {q}]
  /\ UNCHANGED <<vars, job, dataset, eager, stage, iter, own, data, recon, out>>

\* MPI: it reaches the memory of the receiver.
Arrive(r, q) ==
  /\ q.op = "recv" /\ chan[q.peer][r] # << >>
  /\ recon' = [recon EXCEPT ![r][q.at] = Head(chan[q.peer][r])]
  /\ chan' = [chan EXCEPT ![q.peer][r] = Tail(@)]
  /\ reqs' = [reqs EXCEPT ![r] = @ \ {q}]
  /\ UNCHANGED <<vars, job, dataset, eager, stage, iter, own, data, out>>

\* Faulty variant: only the sends are waited for.
CompleteSends(r) == \A q \in reqs[r] : q.op # "send"

Complete(r) == reqs[r] = {}

\* MPI_Waitall returns.
Waitall(r) ==
  /\ stage[r] = "waitall" /\ Complete(r)
  /\ stage' = [stage EXCEPT ![r] = "iterate"]
  /\ UNCHANGED <<vars, job, dataset, eager, iter, own, data, recon, reqs, chan, out>>

-----------------------------------------------------------------------------
(* WriteRecon and WriteData.                                               *)

Everywhere(s) == \A r \in Ranks : stage[r] = s

\* WriteRecon is entered.
BeginWrite(r) ==
  /\ stage[r] = "iterate" /\ iter[r] = Iters
  /\ stage' = [stage EXCEPT ![r] = "create"]
  /\ UNCHANGED <<vars, job, dataset, eager, iter, own, data, recon, reqs, chan, out>>

\* H5Fcreate and H5Dcreate, collective: the file of an earlier run is
\* truncated; app_dims[0] is the number of rows of the whole volume.
Create ==
  /\ Everywhere("create")
  /\ out' = IF Copying THEN [c \in Extent(Dim) |-> << >>]
            ELSE [i \in 0 .. Dim[2] - 1 |-> NoRow]
  /\ stage' = [r \in Ranks |-> "write"]
  /\ UNCHANGED <<vars, job, dataset, eager, iter, own, data, recon, reqs, chan>>

\* Faulty variant: the neighbour's row in front of the rank's own is written.
FirstRowUnskipped == 0

\* recon_slice_data_index, in rows.
FirstRow == Neighbors

\* H5Dwrite: rank_dims[0] rows from slice_id on, if the file has them all.
Write(r) ==
  LET b == own[r] IN
  /\ stage[r] = "write" /\ ~Copying
  /\ out' = IF b.beg + b.n > Dim[2] THEN out
            ELSE [i \in DOMAIN out |-> IF i \in b.beg .. b.beg + b.n - 1
                                         THEN recon[r][FirstRow + i - b.beg] ELSE out[i]]
  /\ stage' = [stage EXCEPT ![r] = "close"]
  /\ UNCHANGED <<vars, job, dataset, eager, iter, own, data, recon, reqs, chan>>

\* WriteData of DISPIOH5: the rank's elements from slice_id on in the dimension
\* it was told (target_dim), the others whole.
WriteData(r) ==
  LET b          == own[r]
      target_dim == IF BySlices THEN 1 ELSE 0
      offset     == [<<0, 0, 0>> EXCEPT ![target_dim + 1] = b.beg]
      count      == [Dim EXCEPT ![target_dim + 1] = b.n]
  IN  /\ stage[r] = "write" /\ Copying
      /\ out' = H5Dwrite(out, Dim, Hyperslab(offset, count, <<1, 1, 1>>), data[r])
      /\ stage' = [stage EXCEPT ![r] = "close"]
      /\ UNCHANGED <<vars, job, dataset, eager, iter, own, data, recon, reqs, chan>>

\* H5Fclose, collective.
Close ==
  /\ Everywhere("close")
  /\ stage' = [r \in Ranks |-> "done"]
  /\ UNCHANGED <<vars, job, dataset, eager, iter, own, data, recon, reqs, chan, out>>

-----------------------------------------------------------------------------
\* The distributor of sirt_stream, before its ranks begin.
Distribute == job = "stream" /\ (Announce \/ Cut) /\ UNCHANGED volvars

\* The end, or the end of the modelled instance for a volume above the bound.
Ended == /\ \/ \A r \in Ranks : stage[r] \in {"done", "thrown"}
            \/ pc = "end" /\ (rows > MaxVolumeRows \/ n_ranks > MaxVolumeRanks)
         /\ UNCHANGED <<vars, volvars>>

VolumeNext ==
  \/ Distribute
  \/ \E r \in Ranks : \/ TakeAnnounced(r) \/ Throw(r) \/ LoadTheta(r) \/ Load(r) \/ Iterate(r)
                      \/ Post(r) \/ Waitall(r)
                      \/ \E q \in reqs[r] : Depart(r, q) \/ Arrive(r, q)
                      \/ BeginWrite(r) \/ Write(r) \/ WriteData(r)
  \/ Create \/ Close
  \/ Ended

VolumeSpec == VolumeInit /\ [][VolumeNext]_<<vars, volvars>>

-----------------------------------------------------------------------------
\* What ReadSlices leaves in the buffer is where the kernel looks for it: the
\* ray at offset o is of the projection and the row that RayProjection and
\* RaySlice say (trace_data.h), counted from the rank's first row.  What
\* ReadProjections leaves is the same for a block of projections, and the angle
\* at offset o is that of projection o, in the unit the kernels compute with.
ReadAsIndexed ==
  \A r \in Ranks : \A o \in DOMAIN data[r] :
    LET lines == IF BySlices THEN own[r].n ELSE Dim[2]
        proj  == o \div (lines * Cols)
        line  == (o - proj * lines * Cols) \div Cols
    IN  data[r][o] = CASE job = "theta" -> <<o, "radian">>
                       [] BySlices      -> <<proj, own[r].beg + line, o % Cols>>
                       [] OTHER         -> <<own[r].beg + proj, line, o % Cols>>

\* When every rank has a row of its own, a rank that iterates has around its
\* rows the neighbours' rows of the iteration it has done itself: never a stale
\* one, nor one the neighbour is already past (GlobalNeighborUpdate).
HaloIsNewest ==
  job = "slices" /\ rows >= n_ranks =>
    \A r \in Ranks : stage[r] = "iterate" /\ iter[r] > 0 =>
      LET b == own[r] IN
      /\ r > 0 => recon[r][0] = [row |-> b.beg - 1, iter |-> iter[r]]
      /\ r < n_ranks - 1 => recon[r][b.n + 1] = [row |-> b.beg + b.n, iter |-> iter[r]]

\* The file that was closed holds every row of the volume at its place, as of
\* the last iteration, whoever wrote it and in whichever order; a copy holds
\* every element of its original.
FileIsWhole ==
  Everywhere("done") =>
    /\ job \in {"stream", "slices"} =>
         out = [i \in 0 .. rows - 1 |-> [row |-> i, iter |-> Iters]]
    /\ Copying => out = [c \in Extent(Dim) |-> c]
=============================================================================
