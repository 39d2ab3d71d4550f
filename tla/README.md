# TLA+ models of the streaming tomography pipeline

The repository streams tomography frames from an acquisition process through a
distributor to a parallel job that reconstructs a sliding window of projections.
This directory holds TLA+ models of the parts in which processes, threads and
messages interleave, of the memory they own, of the files and messages they
exchange and of the two reconstruction kernels; the TLC configurations that check
them; and TLAPS proofs.

```
 DAQStream.py --PUB/SUB--> ModDistStreamPubDemo.py --REQ/REP, one pair per rank--> sirt_stream
   (Acquisition)             + server.c (tracemq)      (TraceMQ, WorkerRestart,       rank 0 .. n-1
        |  ^                   + mock_data_acq.c        WireFormat,                  (SirtStream, DispEngine,
        |  '--- REQ/REP -----'   (MockAcquisition)      SinogramPartition)            SirtKernel, DataRegion)
        |   synchronisation                                                            |           |
        '------------- PUB/SUB ------------> viewers <------------- PUB/SUB -----------'       HDF5 file
                                             (ImageFeed)                                       (VolumeIO)
```

## Inventory

| Component | State | Operations | Interacts through | Hard part | What makes it correct |
|---|---|---|---|---|---|
| Acquisition, `python/streamer-daq/DAQStream.py` | count of synchronisation messages, `bsignal`, round and frame index | `synchronize_subs`, `simulate_daq_serialized`, SIGINT handler, `end_data` | PUB socket, REP socket | subscriptions arrive late; the order of publication is not file order; the operator may quit | nobody misses the start with the right count, every round is complete, the end is heard |
| Mock acquisition, `streamer-dist/mock_data_acq.c` | the file in memory, `curr_proj_index` | `mock_dacq_file`, `mock_dacq_interleaved`, `mock_dacq_interleaved_equally`, `mock_dacq_read` | called by the distributor | data, angles and numbers are reordered by three copies | every projection once, with its own angle and rows |
| Distributor loop, `python/streamer-dist/ModDistStreamPubDemo.py` | flats, darks, counters | `synchronize_subs`, dispatch on the frame type, calls of `push_image`, `done_image` | SUB and REQ sockets, `tracemq` | resets and frames out of order | flats and darks of the current round |
| Link, server side, `server.c`, `trace_streamer.c` | `seq`, `n_workers`, `worker_ids`, `workers` | `handshake`, `push_image`, `done_image`, `finalize_tmq` | a REP socket per worker | numbered messages, blocking loops over workers of any speed, workers that die | asserts hold, lockstep delivery, rows as announced, stop rather than lose an image |
| Link, worker side, `trace_mq.cc`, and the C test worker `worker.c` | `seq_`, `state_`, `metadata_` | `Initialize`, `ReceiveMsg`, `PublishMsg` | a REQ socket, a PUB socket | the same, and message structures declared a second time | the same, and what is sent is what is read |
| Row partition, `trace_streamer.c` | none (two computations) | `assign_data`, `generate_tracemq_worker_msgs` | numbers only | remainders, more ranks than rows | both cut in the same places, the blocks tile the rows |
| Sliding window, `trace_stream.cc` | `vproj`, `vtheta`, `vmeta` | `ReadSlidingWindow`, `PublishImage` | `TraceMQ::ReceiveMsg` | length, step and end of stream at their boundaries | the window is the newest part of the stream, nothing is received in vain |
| Main loop, `sirt_stream_main.cc` | `passes`, the image | the pass loop, `WriteRecon`, the end | collective MPI-IO (`trace_h5io.cc`), `MPI_Finalize` (`disp_comm_mpi.h`) | three barriers (the link's and MPI's), ranks at their own speed | ranks agree on passes and files, nobody blocks for good before `MPI_Finalize`, everybody gets through it |
| Reduction engine, `disp_engine_reduction.h`, `reduction_space_a.h` | `index_`, reduction spaces, `work_queue`, two mutexes | `RunParallelReduction`, `ParInPlaceLocalSynch`, `ResetReductionSpaces` | threads | chunk iterator and queue under locks, tree with an odd number of nodes | every ray once, no partial sum lost or doubled |
| Regions, `data_region_*.h`, `mirrored_region_*.h` | `data_`, `count_`, `index_`, `mirrored_regions_` | constructors, copy, move, assignment, `Clear`, `MirrorRegion`, `NextMirroredRegion`, `ResetMirroredRegionIter` | raw pointers | ownership of blocks and of windows into them | one owner, windows inside their block, items handed out in order |
| SIRT kernel, `sirt.cc`, `trace_utils.cc`, `trace_data.h` | work buffers, replica, image | `Reduce`, `UpdateRecon` and the tracing they call | chunks of rays | quadrants, the place of a ray in slice and projection | traced segments are what the line crosses; every pixel gets the corrections of its rays |
| `art_simple`, `art_simple.cc`, `main.cc` | `simdata`, `recon`, files | `main`, `art` | HDF5 files | angles in any turn, two lists of crossings merged, the image carried from call to call | the same, and files that continue each other |
| Parallel HDF5, `trace_h5io.cc`, `disp_io_hdf5.h`; borders, `trace_comm.cc` | selections, buffers, border rows | `DistributeSlices`, `ReadSlices`, `ReadProjections`, `ReadTheta`, `WriteData`, `WriteRecon`, `DISPIOH5`, `GlobalNeighborUpdate` | HDF5, MPI messages | two selections per transfer, overlapping exchanges with two neighbours | read as indexed, newest borders, whole file |
| Images and viewers, `TraceSerializer.py`, `trace_prot.fbs`, `TDataModel.py` | `seq`, `firstMsgId`, `lastMsgId`, `lostMsgs` | `push_image_data`, `PublishMsg`, `DAQ.receive` | PUB/SUB | messages dropped, default values not stored, width of a pixel not transmitted | shown as published, losses counted |

## Modules

| Module | Models | Extended or used by |
|---|---|---|
| `LockstepBroadcast` | the abstract promise of the link: one stream, delivered to every worker in order, each image to everybody before the next; an end after the last image | `TraceMQ` refines it, `SirtStream` is built on it |
| `TraceMQ` | `server.c` and `trace_mq.cc`: sockets, sequence numbers, asserts | `WorkerRestart` |
| `WorkerRestart` | the same link when workers die and are started again, with both worker programs | `TraceMQProofs` |
| `WireFormat` | the messages of the link in memory | `FeedsProofs`, `MCFeeds` |
| `SinogramPartition` | the two computations of the rows of a rank | `VolumeIO`, `VolumeIOProofs` |
| `VolumeIO` | files and border rows, on top of the partition | `VolumeIOProofs` |
| `SirtStream` | all ranks of the reconstruction: window, pass loop, collective file, collective end | `Pipeline`, `PipelineProofs` |
| `DispEngine` | the threads of one rank | `DispEngineProofs` |
| `DataRegion` | ownership of regions, windows and reduction spaces | `KernelProofs`, `MCKernels` |
| `RayGeometry` | angles, grid, and the line a ray is | `SirtKernel`, `ArtSimple` |
| `SirtKernel`, `ArtSimple` | the two kernels | `KernelProofs` (the files of `art_simple`), `MCKernels` |
| `MockAcquisition` | the C mock acquisition | `FeedsProofs`, `MCFeeds` |
| `ImageFeed` | images from a publisher to a viewer | `FeedsProofs`, `MCFeeds` |
| `Acquisition`, `MCAcquisition` | the acquisition and its subscribers | `AcquisitionProofs`, `Pipeline` |
| `Pipeline`, `MCPipeline` | acquisition, one distributor and its ranks together | `PipelineProofs` |
| `Filter` | the elements of a sequence that are in a set | `Acquisition`, `MockAcquisition` |
| `SequenceLemmas` | what is proved of sequences in general, with the induction it needs | `AcquisitionProofs`, `FeedsProofs` |
| `MCKernels`, `MCFeeds` | compositions for TLC: a behaviour is a behaviour of one of the parts | |

**TraceMQ.** The distributor is a program counter `spc` (which loop of which
function), the loop's index `i` and the globals of `server.c`; one turn of a loop,
that is one blocking receive or one send, is a step. A worker is `wpc`, `wseq` and
the metadata it was told. A receive of a worker and the send that answers it are
one step: there is no other access of either end to the socket pair between them.
The failed side of every `assert` is the state `"abort"`, so that "no assert fails"
is a real question. `worker_ids[k]` is kept apart from `k`, because one message is
cut by the index of the socket and another by the rank. Sockets are FIFO queues
that neither lose nor duplicate (TCP with a peer that does not restart).

**WorkerRestart** extends it by the death of a worker at any moment and by a new
process in its place, which begins with the handshake and number 0. The
distributor's sockets then hold messages of processes that live and of processes
that are gone; an answer to one that is gone is dropped. Nothing in the code
handles this. What the sequence numbers and types do achieve is that the
distributor stops: it never goes on as if an image had been delivered
(`DeliveredDespiteCrash`), and no push or end that begins without some worker
returns (`FailStop`). The ranks run `sirt_stream` or `worker.c`.

**WireFormat.** A message is an array of words; a field's value is the field's
name. Sender and receiver each use the declarations of their own files, where the
array at the end of a structure has no element (C) or one (C++), which makes
`sizeof` differ by 8 or 4 bytes and leaves offsets alone. One reading is excluded
from `ReadAsSent`: a `sirt_stream` worker *without rows* copies
`sizeof(tomo_msg_data_t)`, 16 bytes, of a payload of 12 (`trace_stream.cc:99`);
`ReceiveMsg` also prints ten rays whatever the message holds (`trace_mq.cc:118`).
Neither value is used.

**SinogramPartition.** One turn of each of the two loops is a step, with the
count-down `remaining--` as in the code (it goes below zero).

**VolumeIO** continues where the partition ends: the ranks allocate, read,
exchange their border rows while they iterate, and write. A row of the volume is
whose it is and of which iteration. HDF5 is modelled by what a transfer does, which
is to move the elements of one selection to those of another in row-major order;
selections (offset, count, block) are those of the code. Isend, Irecv and their
completion are separate steps, and a message may leave before or after its receive
is posted. Only `WriteRecon` has a caller in the repository today; the other calls
are driven by the least client their signatures allow.

**SirtStream.** Each rank is a program counter over one pass: shrink the window,
receive up to `step` images, slide, reconstruct and publish, write. `WriteRecon` is
one step of all ranks, which is what a collective call on `MPI_COMM_WORLD` does,
and so is `MPI_Finalize` at the end of `main`. Behind it nobody exits: the destructor
of `main`'s `TraceStream` closes one of its two sockets and waits in
`zmq_ctx_destroy` for the other (`trace_mq.cc:141`), for ever. That is the last label
of a rank, `"destroy"`, and the reason why nothing is said of a rank's exit. The
command line is chosen in `Init`, so one run covers all combinations.

**DispEngine.** A reduction space is the count of how often each ray was added to
it. What the code does under a mutex takes two steps (read `index_`, then move it;
take the front, then pop it), so the mutex is what keeps threads apart and not the
grain of the model. `LocalSynchWith` reads in one step and writes in another.

**DataRegion.** Memory is a heap of blocks, a table of windows, and the regions of
a client, of the rows of 2D regions and of reduction spaces. Each operation of the
code is an operator from memory to memory, composed as the code composes them
(a move assignment is `Clear`, then the fields of the two regions); a client calls
them in any order that its variables allow. What the code does to the rows of a 2D
region one after the other is done to a set of regions. Deleting what is free, or
the same thing from two places, sets `fault`.

**RayGeometry, SirtKernel, ArtSimple.** The arithmetic is exact: an angle is a
Pythagorean triple and a length a whole number of 1/192 pixel, so that the code's
comparisons and divisions have one right answer each. What is traced is compared
with a definition that shares nothing with the code: the part of the line inside a
square pixel (`Clip`). Image values and measured values are names, so that a
correction shows what it was computed from. In `ArtSimple` the initial image is
whatever memory held, unless a checkpoint was read; a checkpoint that cannot be read
and a file that cannot be created end `main`.

**MockAcquisition, ImageFeed.** The mock's loops are operators on the index table;
entries no loop wrote are arbitrary. In `ImageFeed` a table holds the fields that
differ from their defaults, a viewer's queue drops what it has no room for, and the
viewer's counters are those of `DAQ.receive`, which counts before it receives: a
receive that times out has counted a message that did not come, and ends the viewer
(`ReceiveTimesOut`).

**Acquisition.** Frames carry their type, their place in the file and the round.
The PUB socket appends to the inbox of every subscriber whose subscription has
arrived, an event of its own that may come at any time. The synchronisation is
counted as in the code: by message, on one side per worker, on the other side in
total. A reply is sent in one step (`Answer`) and received in another
(`ReceiveReply`), since the acquisition publishes as soon as it has sent the last one,
when a distributor may not have received it. Interrupting the acquisition (`Signal`),
continuing and quitting are steps. A file is any that `serialize_dataset` gets
through: it indexes the dark frames by the loop variable of the flats, and so fails
on darks without flats and on more flats than darks.

**Pipeline** extends `SirtStream` and instantiates `Acquisition` with one
distributor, whose receive loop calls `push_image` and `done_image` of
`LockstepBroadcast`: a projection that is taken from the socket is pushed in the same
step, and nothing is taken while a push waits for a rank. What each of the two
modules leaves open about the other (whether the stream goes on, whether it ends,
how fast a distributor receives) is settled here.

## Runs

| Run | Instance | Shows |
|---|---|---|
| `trace_mq` | 3 workers, 2 values of an image, 3 pushes | no assert fails, rows as announced, handshake and end complete, refinement of `LockstepBroadcast` |
| `worker_restart` | 3 workers of either program, 2 images, up to 3 crashes | an image counts as delivered only if every rank of the time got it; otherwise the distributor stops |
| `sirt_stream` | 3 ranks, 4 images, lengths 0, 1, 3, steps 1 to 3, frequencies 1 and 2 | agreement of ranks, window contents, no mutual waiting, files completed, all ranks through `MPI_Finalize` |
| `disp_engine` | 3 threads, 5 rays, chunks of 2, 2 iterations | every ray once, no partial sum lost, no shared space, termination |
| `kernels` | grid of 3 columns, 2 projections, 2 slices, 10 directions (9 for SIRT), 3 centres of rotation, 2 calls of 2 iterations; for the regions 2 variables of each kind, 2 spaces, up to 2 rows, items, mirrors, 3 blocks | traced segments are clipped lines; what back projection adds; images and files that continue; one owner per block, windows inside their block, items handed out in order |
| `partition` | up to 12 rows on up to 5 ranks; files and borders up to 5 rows on 4 ranks, 3 projections, 2 columns, 2 iterations | announced and cut rows agree and tile; reads as indexed, newest borders, whole file |
| `acquisition` | 2 distributors with 2 and 1 workers, 5 file layouts (one without darks, one without flats and darks), subsets of 2, 2 rounds | subscriptions and answers before data, complete rounds, flats of the round, every projection pushed, end heard |
| `pipeline` | 2 ranks, a file of 1 flat, 1 dark and 2 projections, subsets of 2, 2 rounds, lengths, steps and frequencies 1 and 2 | what is reconstructed is the beginning of what was published; the end reaches every rank, with all of it; what a quit leaves behind |
| `feeds` | files of up to 9 projections and 2 rows, 7 numbers of subsets, 5 images to a queue of 2, messages of up to 3 rays, 3 shapes of image | every projection once, images shown as published, losses counted, messages read as sent |
| `acquisition_joins` | as `acquisition`, with `--synch_count` 2 | violation: a distributor waits for ever |
| `acquisition_darks` | one round of a file with 2 darks | violation: darks are dropped |
| `window_length` | one rank, length 3, step 2 | violation: the window is longer than `--window-length` |

`worker_restart` does not check for deadlock: that the distributor blocks for good
when a worker is gone is what the code does, and what the run shows to be the
worst that happens.

Why the bounds are enough. The link treats workers alike but for worker 0; three
give a first, a middle and a last turn of every loop. Three pushes let a message of
one push meet the loops of the next two. Three crashes let every worker die, or one
of them again and again, with messages of two dead processes in one socket. The
window has a boundary at its length and one at its step, so lengths below, at and
above the step are all there, and four images fill a window of 3 and slide it.
Three threads give a tree of two levels with an odd one out on the first; five rays
in chunks of two give a remainder. Two variables of a kind are what an assignment,
a move and a self-assignment need; three blocks let a block be freed while another
is allocated in its place. A grid of three columns has an inner column, a border
and a corner on each side; the ten directions are in each quadrant, along the x axis
and outside the first turn (`CalculateQuadrant` gets one of those wrong, which `SegmentsAreClips` leaves to `ArtSimple`), and the centres are the default, the middle and a
quarter of a pixel off it. Up to five rows on up to four ranks there are ranks with more rows,
with fewer, with one, and with none. In `Acquisition` the files have 2 to 5
frames for a subset size of 2, so that the last subset is full or short;
`nelems_per_subset` is 16 in the code and a parameter here. Two rounds show what is
left over from the first. In `pipeline`
two rounds of two projections are as many images as a window of two can be slid by,
and a subscription that arrives late misses any part of them. Up to nine projections are powers of two, one more and
one less, which is where the halving of `mock_dacq_interleaved_equally` changes;
a viewer's queue of two overflows at the third image.

The three violations are disagreements between the code and its own help texts:

- `--window-length` is "Number of projections that will be stored in the window";
  a window that is not yet full takes a whole read, so it can exceed that by up to
  a step less one. `WindowIsNewest` states the bound that does hold.
- `--synch_count` is "Number of expected subscribers."; what is counted are the
  messages, of which a distributor sends one per worker. With the number of
  messages instead (`acquisition`, and the theorem `JoinedFirst`) all is well.
- `--normalize` uses "previously received dark and flat field"; the acquisition
  publishes the dark frames of early subsets before the frame marked `DarkReset`,
  and the distributor then drops them. The flats do not suffer: the `WhiteReset`
  frame has index 0, which every round publishes first (`FlatsOfThisRound`).

## Fairness

Weak fairness is assumed of steps that a process or thread takes by itself once it
is not blocked: the distributor's loops, each worker, each rank, each thread, the
collective `WriteRecon` and the collective `MPI_Finalize` when every rank has
entered them. The operating system and the blocking calls of ZeroMQ and MPI justify
it. It is not assumed of what comes from outside: whether another image is ever
pushed, whether the stream ends, when a subscription takes effect, whether the
operator interrupts and how he answers. `PushReturns` and `AllFinalize` therefore speak
of what follows once a push or the end was announced. `Pipeline` takes the fairness of
its two parts, of which pushing and ending are now steps of a fair distributor. In `DispEngine` weak fairness
suffices for the mutexes, since a thread can be overtaken only while there are
chunks or groups left. `WorkerRestart`, `DataRegion`, the kernels, the feeds and
`VolumeIO` state safety only and assume nothing.

## Proofs

`TraceMQProofs` proves for any number of workers and images, from the assumptions
`NWorkersAssumption` and `MaxImagesAssumption`:

- `LinkInvariant`: `LinkInv` is inductive. None of the properties is inductive by
  itself: that a number matches depends on how far the *other* end has counted.
  `LinkInv` assigns to every worker a stage (by the loop the distributor is in and
  whether its index has passed the worker) and the number `Num(w)` of the next
  message; stage and number fix the two queues, the worker's counter and its
  program counter. Each action moves one worker from one stage to the next, and
  the end of a loop renames the stages of all.
- `TypeCorrect`, `AssertsHold`, `Alternation`, `Barrier`, `RowsMatch` follow from it.
- `Refinement`: the initial state maps to the initial state of `LockstepBroadcast`,
  and under `LinkInv` every step maps to `Push`, `Deliver`, `Close`, `Stop` or a
  stutter. The fairness half of the refinement is checked by TLC only.

`VolumeIOProofs` begins with the partition: for any number of rows and ranks
`PartitionInv` is inductive, and from it `PartitionTyped`, `CutsMatch` and `Tiling`.
The lemma `DivMod` states the division facts and `Adjacent` that the closed form for
rank r+1 begins where the one for rank r ends; the rest is one lemma per action.

`PipelineProofs` proves of `SirtStream`, for any number of ranks and images and any positive step
that `StreamInv` is inductive. Images are the numbers 1, 2, 3, …, and everything
that a rank or the stream holds is a `Run` of consecutive numbers, of which the
first lemmas say how it is cut, joined and extended. What makes ranks agree is
that nothing a rank computes depends on when it computes it: the number of images
read by the end of pass p is `Upto(p)`, a function of p and of how long the stream
became, and the window of pass p is a function (`NextWindow`) of the window before
and of that. `StreamInv` says this of every rank at every place of its loop, so that
two ranks that reach the same pass have the same window (`Agreement`). The newest
part (`NewestWindow`) is the statement that the window ends at `Upto(p)` and is as
long as length and step allow; `NothingInVain` needs besides, by division, that the
read which receives number n is followed by a pass whose window still has it.

The same module then proves of `Pipeline` that it is both its parts at once
(`PipelineIsBoth`): a step of the whole is a step of `Acquisition`, of `SirtStream`,
of both (a projection that is taken and pushed, the end that is taken and passed on)
or of neither. So the invariants of both hold in it, that of the acquisition through
an instance of `AcquisitionProofs` whose assumptions about constants are discharged
by `AcquisitionAssumptions`. Together with `Joined`, which says that the images of the
link are the projections pushed and that it is closed only after `end_data`, they give
`ReconstructsPublished`, the safety of the whole way from the PUB socket of
`DAQStream.py` to the windows of `sirt_stream`: what a rank has reconstructed is a
beginning of what was published since the subscription arrived, without a gap, and
all of it once the rank has left its loop. No module alone could state this.

`DispEngineProofs` proves for any number of threads, rays and iterations that
`EngineInv` is inductive, which follows a ray: it is not yet handed out, or in the
chunk of one thread, or added to one space; and from the first level of the tree
on, it is counted once in the spaces that still matter, which are the targets and
the second members of groups that wait or are being added. `GroupsAreDisjoint` says
of `PartitionReductionSpaces` that groups share no space, that their first members
are the next targets and that none is left out, with an odd one too. `SpacesApart`,
`NoneLost` and `ReducedOnce` follow.

`AcquisitionProofs` proves for any number of distributors with any number of
workers that, if `--synch_count` is the number of synchronisation messages
(`CountsMessages`, which the run `acquisition` satisfies and `acquisition_joins`
does not), nothing is published before everybody has subscribed and been answered as
often as it asked (`JoinedFirst`). That everybody has *received* the last answer by
then is not true, and not needed: the subscription is already made. The
sum of what was answered is a cardinality: `JoinInv` says that the counter is the
number of messages answered, and as many messages as there are, are all of them.

Its second half needs no assumption about `--synch_count` and follows the frames.
`OrderedSubset` proves that `ordered_subset` is a permutation of the frames for any size
of the file and of a subset, with frame 0 first: every number is a multiple and a
remainder in one way only. `PublishInv` says which frames of the round under way are
out, those at the places before `pos`, and that every round before is complete
(`RoundsComplete`). `HearInv` says of a distributor whose subscription has arrived that
there is a place n such that the frames from the arrival to n were taken, those after n
are in its inbox, with `end_data` behind them if that is out, and what it keeps and has
pushed is made of what it took: its flats are those of the last round in there
(`FlatsKept`: since frame 0 comes first in each round, a round's flats begin with the
reset), and what it pushed is every projection in there (`ProjectionsPushed`). It has
left its loop only with an empty inbox, so with everything (`LeavesWithAll`).

Both halves of this use sequences that are filtered and flattened. `SequenceLemmas`
proves what is needed of that. A theorem of the library that takes a predicate as its
parameter cannot be instantiated here; induction is therefore stated for a *set* of
numbers or of sequences that contains the first and with each the next one
(`Induction`, `SequenceInduction`), which follows from the least element of a set of
numbers, and a recursive function is shown to exist by the same (`Recursion`,
`SelectFunction`, `FlattenFunction`). `Select` of `Filter` is `SelectSeq` as a
recursive function for that reason.

`VolumeIOProofs` proves for any number of ranks, rows and iterations that a rank
which iterates has its neighbours' newest rows around its own (`NewestBorders`), if
there is a row for every rank. Two ranks can be an iteration apart and two rows of
one under way to the other, so `VolumeInv` counts: between neighbours, as many rows
are under way as one has sent and the other not received, they are the edges of the
iterations in between, in order, and the border holds the one received last.
`SameDivision` says that `DistributeSlices` and `assign_data`, two closed forms
written by two hands, are the same function, so that `Adjacent` holds for both.

The second half of the module is about files, for every client, any volume, any
dataset that has its dimensions and any number of ranks, with no assumption that
there is a row for each: what is read is indexed as `RayProjection` and `RaySlice`
compute it (`AsIndexed`), and a file that all have closed is whole (`WholeFile`).
HDF5 pairs the elements of two selections by their place in row-major order, which
the model counts, so the lemmas begin there. The selections of the code are boxes
(`Along`, `Run`); the number of elements of a box before one of them is the
row-major number of its place (`CountBox`, a cardinality, and `OrdinalOfBox`); hence
a read leaves at an offset the element at that offset's place in the box
(`ReadBox`), a write is its opposite (`WriteBox`), and `RayOfPlace` is the
arithmetic of the indices. `FileInv` says of every rank that it holds its share as
read, its rows as of its last iteration whatever the neighbours send (a receive is
never posted onto a row of one's own), and, once it has written, that its part is
in the file. Shares lie `Within` the rows and cover them (`Covered`). That they are
disjoint is not needed: where two ranks wrote the same row they would write the same.

For the link with crashes, `TraceMQProofs` proves for any number of workers of either
program, which die and come back any number of times, that an image counts as delivered only if every
rank has it (`Delivered`) and that no push or end that begins without some worker
returns (`NeverGoesOn`). `RestartInv` speaks of the distributor as long as it has
not aborted, which is final. Its sockets may hold greetings of processes that live
and of any number of dead ones, but only one message that is no greeting, and that
is the answer it waits for (`SocketOK`): a process can have sent it only after the
distributor answered that process, and then it kept pace (`PeerOK`), while any other
has said hello at most (`StrangerOK`). A greeting in the place of an answer has the
wrong type and aborts, so the images a rank's processes got add up (`GotOK`); and a
call that began without a worker has a rank that will never answer (`DoomOK`).

`FeedsProofs` proves three things. A message between the C and the C++ declarations
is read as it was sent, for any number of rays and both directions (`Understood`):
the sizes that differ cancel wherever one of them is taken off again. And from a
publisher to a viewer, for images of any shape, any number of them and any length of
the queue, an image shown is one that was published, with its pixels (`Shown`), and
the images counted as lost are those that were published in between and not received
(`Losses`). `FeedInv` keeps what is published, what is on the way and what was taken
in one order; `FieldSurvives` says that a field left out of the table has its
default value, `PixelsOfBytes` that the width of a pixel is recovered by a division,
and `Gap` that a jump of the numbers is as long as the set of those missed is large.
And the mock acquisition hands out every projection once, with its own angle and rows,
in any order it knows and for any size of file (`HandedOutOnce`): both index tables are
permutations, the interleaved one because its subsets are the classes of remainders,
the halving one because a turn adds only what is not there yet and the last turn has
step 1 (`MockInv` keeps that an item is copied with its own number).

`KernelProofs` proves `RegionsKept` for any number of regions, spaces, blocks and
windows of any size, from `BoundsAssumption` and from `NamesAssumption`, that a variable
of a client is not a row of a space. `OneOwner` is not inductive: it speaks of the
regions that live, while `Clear` and the deletions go by what is in a list, and it does
not say that two lists are disjoint while one of their windows is deleted. `RegionInv`
says of every region, dead or alive, what its block and the windows in its list are
(`RegionOK`), of every two that they share neither (`Apart`), and of every block and
window that some region will delete it. It is shown operation by operation, of sets of
regions (`ClearReleases`, `DestroyReleases`, `Constructs`, `Resets`, `Moves`, `Copies`,
`HandsOut`), so that the actions that are made of several, such as a clone, which
makes rows and then assigns to them, follow by putting these together. `IndexKept`
is why a move may leave `index_` behind: no operation gives a region new items and
an old index.

`KernelProofs` also proves `FilesContinue` of `art_simple` (`FilesGoOn`), for a scan of
any size and angles and any number of calls and iterations. The property compares
lengths of two files; what is inductive (`ArtInv`) is how long they are at every step
of `art()`: a value has had, for each whole iteration, one correction for every ray and
slice that crosses it (`Whole`), and in the iteration under way one for each of those
that came before the place where the loops are (`Count`, `Before`). The order of the
loops over angles, columns and slices is what makes these sets grow by the one turn
that was just made (`CountsOne`), skip a ray that crosses nothing (`NextRay`), and be
empty and complete at the ends of an iteration (`WholeIteration`). What a ray crosses is
left open: the proof needs only that angles and centre do not change (`Steady`).

`TypeOK` and `LinkInv` of `TraceMQ`, `PartitionInv`, and the alternation and the
barrier of the link are proved and not checked by TLC a second time.

Only model-checked: all liveness (`HandshakeCompletes`, `EndReachesAll`, `PushReturns`,
`FileIsCompleted`, `AllFinalize`, `Terminates`, `AllGetThrough`, the liveness of
`EndIsHeard` and of `EndToEnd`, `StrandedByQuit`) and the fairness half of the
refinement, which are out of the prover's reach; and what the two
kernels trace and sum (`TracedAsCrossed`, `BackProjected`, `ProjectsAfresh`): their
geometry is checked for ten directions (nine for SIRT) by exact arithmetic on a small grid and would
need real analysis to be proved for all, and their sums are folds over a ray, of which
nothing can be proved without induction over data.

## Not modelled

- Rounding: the arithmetic of the kernels is exact, and so the code's tests for
  equality of floats have their mathematical answer. A quarter turn (a cosine of
  exactly 0, by which the code divides, and which `cosf` never returns) is left out.
- A restart of the distributor, the exit of the distributor's process, failing
  `bind` calls, high-water marks of REQ and REP sockets.
- `PublishMsg` with a ready buffer; `SeqInPlaceLocalSynchWrapper`,
  `DistInPlaceGlobalSynchWrapper` and `GlobalInPlaceCombination`, one `MPI_Allreduce`;
  the functions of `trace_utils.cc` no program calls (`RemoveNegatives`,
  `RemoveAbnormals`): they have no caller in the repository.
- The EPICS monitor of the acquisition, which needs a detector; image preprocessing
  and the preview publisher of the distributor: they change pixels, not control. Its
  `--skip_serialize`, which drops every frame to measure the rate of data, and a run
  without `--my_distributor_addr`, which has no workers.
- In `art_simple`: what a run *should* resume from. It writes `/data`, reads `/recon`
  and starts from memory as it finds it; the model does the same, and no text of the
  repository says what else it should do.
- `--window-step`, `--pub-freq` and `--write-freq` of 0, and windows of 2^31 rays
  (listed under the hazards).
- `tx_intermediary.py` (two `zmq.proxy` calls, whose behaviour is ZeroMQ's), the
  quality scripts (offline image metrics), the windows of the viewers, printing and
  logging.
- Vendored and generated code: TCLAP, and the compiler identification of CMake.

`PROJECT.json` lists every component with its files and status, and every hazard of
the code with the properties about it.

## Left over

A restart of the distributor in `WorkerRestart`: its workers would keep their
numbers and the new process would begin with the handshake.
