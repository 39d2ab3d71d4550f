----------------------------- MODULE DispEngine -----------------------------
(***************************************************************************)
(* The reduction engine inside one rank (disp_engine_reduction.h): the     *)
(* threads take chunks of rays from a shared iterator and reduce them into *)
(* reduction spaces of their own; then the spaces are added up in pairs, a *)
(* level of a tree at a time, through a work queue; then the sum in the    *)
(* first space updates the image, and every space is reset.  main does     *)
(* this window_iter times for a window (sirt_stream_main.cc:212-235).      *)
(*                                                                         *)
(* A reduction space is modelled by how often each ray went into it, which *)
(* is what tells a correct sum from one with rays lost, doubled or left    *)
(* over from the iteration before.  What the code does under a mutex takes *)
(* two steps here, a read and a write, so that only the mutex can keep     *)
(* another thread out.                                                     *)
(***************************************************************************)
EXTENDS Integers, Sequences

CONSTANTS NThreads,     \* num_reduction_threads_
          NRays,        \* count() of the window's data region
          ReqUnits,     \* req_number, the rays a thread asks for
          WindowIter    \* --window-iter

ASSUME NThreadsAssumption == NThreads \in Nat \ {0}
ASSUME NRaysAssumption == NRays \in Nat \ {0}
ASSUME ReqUnitsAssumption == ReqUnits \in Nat \ {0}
ASSUME WindowIterAssumption == WindowIter \in Nat \ {0}

Thread == 0 .. NThreads - 1     \* thread t owns reduction_spaces_[t]
Ray == 0 .. NRays - 1
Nobody == -1
PartitionSize == 2              \* ParInPlaceLocalSynchWrapper

VARIABLES
  phase,     \* what main is in
  iter,      \* iterations done on the window
  index,     \* index_ of the data region: the rays handed out
  space,     \* space[t][r]: how often ray r is in space t
  targets,   \* target_spaces of the level under way, then of the next one
  queue,     \* work_queue: groups of spaces to be added up
  pmutex,    \* partitioner_mutex_: its holder
  qmutex,    \* work_queue_mutex: its holder
  tpc,       \* where thread t is
  seen,      \* the index_ thread t has read
  chunk,     \* the rays thread t reduces next
  job,       \* the group thread t adds up: its first space is the target
  sum        \* the sum thread t has computed and not stored yet

vars == <<phase, iter, index, space, targets, queue, pmutex, qmutex,
          tpc, seen, chunk, job, sum>>

Empty == [r \in Ray |-> 0]
All(label) == [t \in Thread |-> label]
Add(f, g) == [r \in Ray |-> f[r] + g[r]]
Goto(t, label) == tpc' = [tpc EXCEPT ![t] = label]
AllDone == \A t \in Thread : tpc[t] = "done"

Init == /\ phase = "reduce" /\ iter = 0 /\ index = 0
        /\ space = All(Empty)
        /\ targets = <<>> /\ queue = <<>>
        /\ pmutex = Nobody /\ qmutex = Nobody
        /\ tpc = All("ask")
        /\ seen = All(0) /\ chunk = All({})
        /\ job = All(<<>>) /\ sum = All(Empty)

-----------------------------------------------------------------------------
(***************************************************************************)
(* RunParallelReduction: ReductionWrapper in thread t.                     *)
(***************************************************************************)

LockPartitioner(t) == pmutex = Nobody /\ pmutex' = t

\* PartitionWrapper takes the lock, and NextMirroredRegion reads index_.
ReadIndex(t) ==
  /\ tpc[t] = "ask"
  /\ LockPartitioner(t)
  /\ seen' = [seen EXCEPT ![t] = index]
  /\ Goto(t, "partition")
  /\ UNCHANGED <<phase, iter, index, space, targets, queue, qmutex, chunk, job, sum>>

\* The region at beg has ReqUnits rays, or what is left.
RegionEnd(beg) == IF beg + ReqUnits > NRays THEN NRays ELSE beg + ReqUnits

\* NextMirroredRegion moves index_ past the region; the lock is released.
NextMirroredRegion(t) ==
  /\ tpc[t] = "partition"
  /\ pmutex' = Nobody
  /\ \/ /\ seen[t] >= NRays
        /\ Goto(t, "done")
        /\ UNCHANGED <<index, chunk>>
     \/ /\ seen[t] < NRays
        /\ chunk' = [chunk EXCEPT ![t] = seen[t] .. RegionEnd(seen[t]) - 1]
        /\ index' = RegionEnd(seen[t])
        /\ Goto(t, "process")
  /\ UNCHANGED <<phase, iter, space, targets, queue, qmutex, seen, job, sum>>

\* Process: the rays of the chunk go into the thread's own space.
Process(t) ==
  /\ tpc[t] = "process"
  /\ space' = [space EXCEPT ![t] = [r \in Ray |-> IF r \in chunk[t] THEN @[r] + 1 ELSE @[r]]]
  /\ chunk' = [chunk EXCEPT ![t] = {}]
  /\ Goto(t, "ask")
  /\ UNCHANGED <<phase, iter, index, targets, queue, pmutex, qmutex, seen, job, sum>>

-----------------------------------------------------------------------------
(***************************************************************************)
(* ParInPlaceLocalSynch.                                                   *)
(***************************************************************************)

\* Faulty variant: the spaces after the last full group are left out.
FullGroups(spaces) ==
  [g \in 1 .. Len(spaces) \div PartitionSize |->
     SubSeq(spaces, (g - 1) * PartitionSize + 1, g * PartitionSize)]

\* PartitionReductionSpaces: groups of PartitionSize, the last one what is left.
Groups(spaces) ==
  LET n == Len(spaces)
      last(g) == IF g * PartitionSize > n THEN n ELSE g * PartitionSize
  IN  [g \in 1 .. (n + PartitionSize - 1) \div PartitionSize |->
         SubSeq(spaces, (g - 1) * PartitionSize + 1, last(g))]

Firsts(groups) == [g \in DOMAIN groups |-> groups[g][1]]

\* A level of the tree begins: the groups are queued, the threads started.
Level(spaces) == /\ queue' = Groups(spaces)
                 /\ targets' = Firsts(Groups(spaces))
                 /\ tpc' = All("pop")

\* main has joined the reduction threads.
JoinReduction ==
  /\ phase = "reduce" /\ AllDone
  /\ phase' = "synch"
  /\ Level([k \in 1 .. NThreads |-> k - 1])
  /\ UNCHANGED <<iter, index, space, pmutex, qmutex, seen, chunk, job, sum>>

\* Faulty variants: the queue's mutex is not respected, or not let go of.
QueueFreeOrNot == TRUE
UnlockQueueNever == qmutex' = qmutex

QueueFree == qmutex = Nobody
UnlockQueue == qmutex' = Nobody

\* ParInPlaceLocalSynchHelper takes the lock and looks at the front; it ends
\* when the queue is empty.
Front(t) ==
  /\ tpc[t] = "pop"
  /\ QueueFree
  /\ \/ /\ queue # <<>>
        /\ job' = [job EXCEPT ![t] = Head(queue)]
        /\ qmutex' = t
        /\ Goto(t, "popfront")
     \/ /\ queue = <<>>
        /\ Goto(t, "done")
        /\ UNCHANGED <<job, qmutex>>
  /\ UNCHANGED <<phase, iter, index, space, targets, queue, pmutex, seen, chunk, sum>>

PopFront(t) ==
  /\ tpc[t] = "popfront"
  /\ queue # <<>>
  /\ queue' = Tail(queue)
  /\ UnlockQueue
  /\ Goto(t, "combine")
  /\ UNCHANGED <<phase, iter, index, space, targets, pmutex, seen, chunk, job, sum>>

\* SeqInPlaceLocalSynch adds the spaces of the group to the first of them, one
\* after the other; LocalSynchWith reads both and then writes the first.
LocalSynchLoad(t) ==
  /\ tpc[t] = "combine"
  /\ \/ /\ Len(job[t]) > 1
        /\ sum' = [sum EXCEPT ![t] = Add(space[job[t][1]], space[job[t][2]])]
        /\ Goto(t, "store")
        /\ UNCHANGED job
     \/ /\ Len(job[t]) = 1
        /\ job' = [job EXCEPT ![t] = <<>>]
        /\ Goto(t, "pop")
        /\ UNCHANGED sum
  /\ UNCHANGED <<phase, iter, index, space, targets, queue, pmutex, qmutex, seen, chunk>>

LocalSynchStore(t) ==
  /\ tpc[t] = "store"
  /\ space' = [space EXCEPT ![job[t][1]] = sum[t]]
  /\ sum' = [sum EXCEPT ![t] = Empty]
  /\ job' = [job EXCEPT ![t] = <<@[1]>> \o SubSeq(@, 3, Len(@))]
  /\ Goto(t, "combine")
  /\ UNCHANGED <<phase, iter, index, targets, queue, pmutex, qmutex, seen, chunk>>

\* main has joined the threads of a level: another one, or the sum is complete.
JoinLevel ==
  /\ phase = "synch" /\ AllDone
  /\ \/ Len(targets) > 1 /\ Level(targets) /\ UNCHANGED phase
     \/ Len(targets) <= 1 /\ phase' = "update" /\ UNCHANGED <<queue, targets, tpc>>
  /\ UNCHANGED <<iter, index, space, pmutex, qmutex, seen, chunk, job, sum>>

-----------------------------------------------------------------------------
(***************************************************************************)
(* The rest of an iteration of main.                                       *)
(***************************************************************************)

\* UpdateRecon has used space 0 (main_recon_space), and ResetReductionSpaces
\* starts a thread for every space.
UpdateRecon ==
  /\ phase = "update"
  /\ phase' = "reset"
  /\ tpc' = All("reset")
  /\ UNCHANGED <<iter, index, space, targets, queue, pmutex, qmutex, seen, chunk, job, sum>>

\* Faulty variant: a space keeps what it holds.
ResetAllItemsOfNone(f) == f

ResetAllItems(f) == Empty

ResetAllReductionObjects(t) ==
  /\ tpc[t] = "reset"
  /\ space' = [space EXCEPT ![t] = ResetAllItems(@)]
  /\ Goto(t, "done")
  /\ UNCHANGED <<phase, iter, index, targets, queue, pmutex, qmutex, seen, chunk, job, sum>>

\* The threads are joined, ResetMirroredRegionIter rewinds the data, and the
\* next iteration starts, or the loop is over.
ResetMirroredRegionIter ==
  /\ phase = "reset" /\ AllDone
  /\ index' = 0
  /\ iter' = iter + 1
  /\ IF iter + 1 < WindowIter THEN phase' = "reduce" /\ tpc' = All("ask")
                              ELSE phase' = "end" /\ UNCHANGED tpc
  /\ UNCHANGED <<space, targets, queue, pmutex, qmutex, seen, chunk, job, sum>>

ThreadStep(t) ==
  \/ ReadIndex(t) \/ NextMirroredRegion(t) \/ Process(t)
  \/ Front(t) \/ PopFront(t) \/ LocalSynchLoad(t) \/ LocalSynchStore(t)
  \/ ResetAllReductionObjects(t)

MainStep == JoinReduction \/ JoinLevel \/ UpdateRecon \/ ResetMirroredRegionIter

Finished == phase = "end" /\ UNCHANGED vars

Next == MainStep \/ (\E t \in Thread : ThreadStep(t)) \/ Finished

Safe == Init /\ [][Next]_vars

(***************************************************************************)
(* The operating system runs every thread, and main.  Weak fairness does   *)
(* for the mutexes as well: a thread that waits for one may be overtaken,  *)
(* but only while the others still have chunks or groups to take.          *)
(***************************************************************************)
Spec == /\ Safe
        /\ WF_vars(MainStep)
        /\ \A t \in Thread : WF_vars(ThreadStep(t))

-----------------------------------------------------------------------------
(***************************************************************************)
(* Properties.                                                             *)
(***************************************************************************)
\* What updates the image is the sum over every ray of the window, each counted
\* once: no chunk was skipped or reduced twice, no partial sum was lost or added
\* twice, nothing was left over from the iteration before.
EachRayOnce == phase = "update" => space[0] = [r \in Ray |-> 1]

\* While spaces are added up, every ray is counted in exactly one of the spaces
\* that still matter: a target of this level, or a space that waits in the queue
\* or with a thread to be added to one.
Members(s) == {s[k] : k \in DOMAIN s}
Live == Members(targets) \cup (UNION {Members(queue[k]) : k \in DOMAIN queue})
                         \cup (UNION {Members(job[t]) : t \in Thread})
NothingLost ==
  phase = "synch" =>
    \A r \in Ray : \E s \in Live : /\ space[s][r] = 1
                                   /\ \A u \in Live \ {s} : space[u][r] = 0

\* Two threads never work on the same space while they add up: the += of
\* LocalSynchWith is not atomic.
NoSharedSpace == \A t, u \in Thread : t # u => Members(job[t]) \cap Members(job[u]) = {}

\* The iterations on a window come to an end, whatever the number of threads and
\* of chunks.
Terminates == <>(phase = "end")
=============================================================================
