------------------------------- MODULE TraceMQ -------------------------------
(***************************************************************************)
(* The link between the distributor (python/streamer-dist/server.c) and    *)
(* the reconstruction workers (src/tracelib/trace_mq.cc, one per MPI       *)
(* rank): one REQ/REP socket pair per worker, every message numbered, both *)
(* ends counting in step and aborting on a number they do not expect.      *)
(*                                                                         *)
(* The distributor runs one for-loop per phase over its workers, and every *)
(* turn of a loop (one blocking receive or one send) is a step here, so    *)
(* that the workers run between any two of them.                           *)
(***************************************************************************)
EXTENDS Integers, Sequences

CONSTANTS NWorkers,   \* the size of the MPI communicator, comm_size
          Image,      \* the projections the receive loop may push
          MaxImages   \* bound on the number of push_image calls

ASSUME NWorkersAssumption == NWorkers \in Nat \ {0}
ASSUME MaxImagesAssumption == MaxImages \in Nat

Worker == 0 .. NWorkers - 1          \* comm_rank
NoRank == -1                         \* an entry that was never written

(***************************************************************************)
(* Messages: tomo_msg_t is the header {seq_n, type, size}, then a payload  *)
(* that depends on the type.  "part" stands for the block of sinogram rows *)
(* a message speaks of: the rows assign_data gives rank "part", or the     *)
(* rows generate_tracemq_worker_msgs cuts for index "part" (module         *)
(* SinogramPartition shows that the two are the same rows).                *)
(***************************************************************************)
InfoReq(s, r, n)  == [type |-> "DATAINFO_REQ", seq_n |-> s,
                      comm_rank |-> r, comm_size |-> n]
InfoRep(s, p)     == [type |-> "DATAINFO_REP", seq_n |-> s, part |-> p]
DataReq(s)        == [type |-> "DATA_REQ", seq_n |-> s]
DataRep(s, x, p)  == [type |-> "DATA_REP", seq_n |-> s, image |-> x, part |-> p]
FinRep(s)         == [type |-> "FIN_REP", seq_n |-> s]

VARIABLES
  \* The distributor.
  spc,         \* the loop of server.c it is in
  i,           \* that loop's index
  seq,         \* its sequence number
  n_workers,   \* from the main worker's comm_size
  worker_ids,  \* worker_ids[k]: the rank that answers on socket k
  pushed,      \* the images push_image was called with, in order
  \* The sockets.
  req,         \* req[w]: messages from worker w to the distributor
  rep,         \* rep[w]: messages from the distributor to worker w
  \* The workers.
  wpc,         \* wpc[w]: how far Initialize is, then state_
  wseq,        \* wseq[w]: seq_
  meta,        \* meta[w]: the part announced to w, metadata_
  got          \* got[w]: the images ReceiveMsg returned to w, in order

serverVars == <<spc, i, seq, n_workers, worker_ids, pushed>>
workerVars == <<wpc, wseq, meta, got>>
vars == <<spc, i, seq, n_workers, worker_ids, pushed, req, rep,
          wpc, wseq, meta, got>>

ServerPc == {"main", "others", "info", "ready",      \* handshake
             "idle",                                 \* back in the caller
             "push", "check",                        \* push_image
             "fin", "finack",                        \* done_image
             "done", "closed",                       \* finalize_tmq
             "abort"}                                \* an assert failed
WorkerPc == {"start", "info", "DATA", "FIN", "abort"}

Init == /\ spc = "main" /\ i = 0 /\ seq = 0 /\ n_workers = 0
        /\ worker_ids = [w \in Worker |-> NoRank]
        /\ pushed = <<>>
        /\ req = [w \in Worker |-> <<>>]
        /\ rep = [w \in Worker |-> <<>>]
        /\ wpc = [w \in Worker |-> "start"]
        /\ wseq = [w \in Worker |-> 0]
        /\ meta = [w \in Worker |-> NoRank]
        /\ got = [w \in Worker |-> <<>>]

-----------------------------------------------------------------------------
(***************************************************************************)
(* The distributor.                                                        *)
(***************************************************************************)

\* The end of a turn of "for(i<n)": the next turn, or ++seq and what follows.
EndOfTurn(n, here, next) ==
  \/ i + 1 < n  /\ i' = i + 1 /\ spc' = here /\ seq' = seq
  \/ i + 1 >= n /\ i' = 0     /\ spc' = next /\ seq' = seq + 1

\* What socket i delivers to the blocking receive, once there is something.
Asked == req[i] # <<>>
Msg == Head(req[i])
Take == req' = [req EXCEPT ![i] = Tail(@)]

\* A send on socket i; sends go in the order of the loop.
Reply(m) == rep' = [rep EXCEPT ![i] = Append(@, m)]

\* A failed assert stops the process where it stands.
ServerAbort == /\ spc' = "abort"
               /\ UNCHANGED <<i, seq, n_workers, worker_ids>>

\* Faulty variant: the asserts are compiled out (NDEBUG).
ExpectUnasserted(type, here, next) ==
  /\ spc = here /\ Asked /\ Take
  /\ EndOfTurn(n_workers, here, next) /\ UNCHANGED <<n_workers, worker_ids>>
  /\ UNCHANGED <<pushed, rep, workerVars>>

\* A loop that receives from every worker a message of a given type with the
\* current number: the ready loop, the two acknowledgement loops.
Expect(type, here, next) ==
  /\ spc = here /\ Asked /\ Take
  /\ IF Msg.type = type /\ Msg.seq_n = seq
       THEN EndOfTurn(n_workers, here, next) /\ UNCHANGED <<n_workers, worker_ids>>
       ELSE ServerAbort
  /\ UNCHANGED <<pushed, rep, workerVars>>

\* A loop that sends m to every worker.
Send(m, here, next) ==
  /\ spc = here /\ Reply(m)
  /\ EndOfTurn(n_workers, here, next)
  /\ UNCHANGED <<n_workers, worker_ids, pushed, req, workerVars>>

\* handshake, the first message: nothing is asserted of it, and it fixes the
\* number of workers.
RecvMain ==
  /\ spc = "main" /\ Asked /\ Take
  /\ n_workers' = Msg.comm_size
  /\ worker_ids' = [worker_ids EXCEPT ![0] = Msg.comm_rank]
  /\ EndOfTurn(Msg.comm_size, "others", "info")
  /\ UNCHANGED <<pushed, rep, workerVars>>

\* handshake, the other workers: the number is asserted, the type is not.
RecvOther ==
  /\ spc = "others" /\ Asked /\ Take
  /\ IF Msg.seq_n = seq
       THEN /\ worker_ids' = [worker_ids EXCEPT ![i] = Msg.comm_rank]
            /\ EndOfTurn(n_workers, "others", "info")
            /\ UNCHANGED n_workers
       ELSE ServerAbort
  /\ UNCHANGED <<pushed, rep, workerVars>>

\* Faulty variant: every worker is told the main worker's rows.
SendInfoOfMain == Send(InfoRep(seq, worker_ids[0]), "info", "ready")

\* handshake: each worker is told the rows that belong to its rank.
SendInfo == Send(InfoRep(seq, worker_ids[i]), "info", "ready")

\* handshake: each worker says that it wants data.
RecvReady == Expect("DATA_REQ", "ready", "idle")

\* push_image is called with image x; it returns when "check" ends.
PushImage(x) ==
  /\ spc = "idle"
  /\ Len(pushed) < MaxImages
  /\ pushed' = Append(pushed, x)
  /\ spc' = "push"
  /\ UNCHANGED <<i, seq, n_workers, worker_ids, req, rep, workerVars>>

\* The image being pushed.
Current == pushed[Len(pushed)]

\* push_image: worker_msgs[i], cut for index i, goes to socket i.
SendImage == Send(DataRep(seq, Current, i), "push", "check")

\* Faulty variant: push_image returns without waiting for the workers.
RecvAckSkipped ==
  /\ spc = "check"
  /\ EndOfTurn(n_workers, "check", "idle")
  /\ UNCHANGED <<n_workers, worker_ids, pushed, req, rep, workerVars>>

\* push_image: every worker must have taken its part.
RecvAck == Expect("DATA_REQ", "check", "idle")

\* done_image is called.
DoneImage ==
  /\ spc = "idle"
  /\ spc' = "fin"
  /\ UNCHANGED <<i, seq, n_workers, worker_ids, pushed, req, rep, workerVars>>

SendFin == Send(FinRep(seq), "fin", "finack")

\* Faulty variant: done_image wants the acknowledgement push_image wants.
RecvFinAsData == Expect("DATA_REQ", "finack", "done")

RecvFin == Expect("FIN_REP", "finack", "done")

\* finalize_tmq: the sockets are closed once they are drained.
Finalize ==
  /\ spc = "done"
  /\ spc' = "closed"
  /\ UNCHANGED <<i, seq, n_workers, worker_ids, pushed, req, rep, workerVars>>

-----------------------------------------------------------------------------
(***************************************************************************)
(* Worker w.  Initialize and ReceiveMsg send at most one message between   *)
(* two blocking receives, so a receive and the send that answers it are    *)
(* one step: nothing can come between them that either side could see.     *)
(***************************************************************************)

\* Faulty variant: the handshake message is not counted.
SendInfoReqUncounted(w) ==
  /\ wpc[w] = "start"
  /\ req' = [req EXCEPT ![w] = Append(@, InfoReq(wseq[w], w, NWorkers))]
  /\ wpc' = [wpc EXCEPT ![w] = "info"]
  /\ UNCHANGED <<serverVars, rep, wseq, meta, got>>

\* Initialize: the handshake message, which may precede the server's bind.
SendInfoReq(w) ==
  /\ wpc[w] = "start"
  /\ req' = [req EXCEPT ![w] = Append(@, InfoReq(wseq[w], w, NWorkers))]
  /\ wseq' = [wseq EXCEPT ![w] = @ + 1]
  /\ wpc' = [wpc EXCEPT ![w] = "info"]
  /\ UNCHANGED <<serverVars, rep, meta, got>>

\* A receive takes the message even when the assert that follows fails.
WorkerAbort(w) == /\ wpc' = [wpc EXCEPT ![w] = "abort"]
                  /\ UNCHANGED <<req, wseq, meta, got>>

\* Faulty variant: one of the two increments is lost.
AnswerCountedOnce(w, m) ==
  /\ req' = [req EXCEPT ![w] = Append(@, m)]
  /\ wseq' = [wseq EXCEPT ![w] = @ + 1]

\* The answer m to what was received: ++seq_, send, ++seq_.
Answer(w, m) == /\ req' = [req EXCEPT ![w] = Append(@, m)]
                /\ wseq' = [wseq EXCEPT ![w] = @ + 2]

\* Initialize: the metadata arrives, and the worker asks for data.
RecvInfoRep(w) ==
  LET m == Head(rep[w]) IN
  /\ wpc[w] = "info" /\ rep[w] # <<>>
  /\ rep' = [rep EXCEPT ![w] = Tail(@)]
  /\ IF m.seq_n = wseq[w]
       THEN /\ meta' = [meta EXCEPT ![w] = m.part]
            /\ Answer(w, DataReq(wseq[w] + 1))
            /\ wpc' = [wpc EXCEPT ![w] = "DATA"]
            /\ UNCHANGED got
       ELSE WorkerAbort(w)
  /\ UNCHANGED serverVars

\* ReceiveMsg, unless state_ is FIN (then it returns nullptr and does nothing).
\* The acknowledgement leaves before the image is used.
ReceiveMsg(w) ==
  LET m == Head(rep[w]) IN
  /\ wpc[w] = "DATA" /\ rep[w] # <<>>
  /\ rep' = [rep EXCEPT ![w] = Tail(@)]
  /\ \/ /\ m.seq_n = wseq[w] /\ m.type = "DATA_REP"
        /\ Answer(w, DataReq(wseq[w] + 1))
        /\ got' = [got EXCEPT ![w] = Append(@, m.image)]
        /\ UNCHANGED <<wpc, meta>>
     \/ /\ m.seq_n = wseq[w] /\ m.type = "FIN_REP"
        /\ Answer(w, FinRep(wseq[w] + 1))
        /\ wpc' = [wpc EXCEPT ![w] = "FIN"]
        /\ UNCHANGED <<meta, got>>
     \/ /\ \/ m.seq_n # wseq[w]
           \/ m.type \notin {"DATA_REP", "FIN_REP"}
        /\ WorkerAbort(w)
  /\ UNCHANGED serverVars

-----------------------------------------------------------------------------
ServerStep == \/ RecvMain \/ RecvOther \/ SendInfo \/ RecvReady
              \/ SendImage \/ RecvAck
              \/ SendFin \/ RecvFin \/ Finalize

WorkerStep(w) == SendInfoReq(w) \/ RecvInfoRep(w) \/ ReceiveMsg(w)

\* The calls of the receive loop in ModDistStreamPubDemo.py.
Caller == DoneImage \/ \E x \in Image : PushImage(x)

\* Both sides are through: the only way the link may stop.
Finished == /\ spc = "closed"
            /\ \A w \in Worker : wpc[w] = "FIN"
            /\ UNCHANGED vars

Next == \/ ServerStep
        \/ Caller
        \/ \E w \in Worker : WorkerStep(w)
        \/ Finished

Safe == Init /\ [][Next]_vars

(***************************************************************************)
(* The distributor's loops and the workers' calls of ReceiveMsg go on      *)
(* unless they wait for a message.  Whether another image or the end of    *)
(* the data ever comes is up to the acquisition, and nothing is assumed.   *)
(***************************************************************************)
Spec == /\ Safe
        /\ WF_vars(ServerStep)
        /\ \A w \in Worker : WF_vars(WorkerStep(w))

-----------------------------------------------------------------------------
(***************************************************************************)
(* Properties.                                                             *)
(***************************************************************************)
Request == [type : {"DATAINFO_REQ"}, seq_n : Nat, comm_rank : Worker, comm_size : Nat]
           \cup [type : {"DATA_REQ", "FIN_REP"}, seq_n : Nat]
Response == [type : {"DATAINFO_REP"}, seq_n : Nat, part : Worker]
            \cup [type : {"DATA_REP"}, seq_n : Nat, image : Image, part : Worker]
            \cup [type : {"FIN_REP"}, seq_n : Nat]

ServerTypeOK == /\ spc \in ServerPc
                /\ i \in Worker
                /\ seq \in Nat
                /\ n_workers \in {0, NWorkers}
                /\ worker_ids \in [Worker -> Worker \cup {NoRank}]
                /\ pushed \in Seq(Image) /\ Len(pushed) <= MaxImages
SocketTypeOK == /\ req \in [Worker -> Seq(Request)]
                /\ rep \in [Worker -> Seq(Response)]
WorkerTypeOK == /\ wpc \in [Worker -> WorkerPc]
                /\ wseq \in [Worker -> Nat]
                /\ meta \in [Worker -> Worker \cup {NoRank}]
                /\ got \in [Worker -> Seq(Image)]

\* Every variable holds what its C declaration says it may; the socket queues
\* hold messages of the types their direction knows.
TypeOK == ServerTypeOK /\ SocketTypeOK /\ WorkerTypeOK

\* No assert of server.c or trace_mq.cc on a type or a sequence number ever
\* fails: the counters of the two ends, each incremented by its own code, agree
\* on every message, whatever the speeds of the workers.  (A build with NDEBUG
\* drops the asserts, and then nothing else would notice.)
NoAssertFails == spc # "abort" /\ \A w \in Worker : wpc[w] # "abort"

\* Between the distributor and one worker at most one message is under way,
\* either direction counted: both ends keep to the alternation of send and
\* receive that a REQ/REP pair demands (it fails the call otherwise).
OneInFlight == \A w \in Worker : Len(req[w]) + Len(rep[w]) <= 1

\* push_image is "a blocking function" (server.c:149): when control is back in
\* the receive loop, and from then to the end of the stream, every worker has
\* been handed every image, in the order of the calls.
PushIsABarrier ==
  spc \in {"idle", "fin", "finack", "done", "closed"} =>
    \A w \in Worker : got[w] = pushed

\* The rows in every data message are the rows the handshake announced to the
\* worker that reads it: push_image cuts by the index of the socket, handshake
\* announces by the rank the worker reported (worker_ids).
RowsAsAnnounced ==
  \A w \in Worker : \A k \in DOMAIN rep[w] :
    rep[w][k].type = "DATA_REP" => rep[w][k].part = meta[w]

\* The handshake brings the distributor to its receive loop.
HandshakeCompletes == <>(spc = "idle")

\* Once done_image is called, every worker is told, done_image returns, and
\* every worker has by then been handed the complete stream.
EndReachesAll ==
  (spc = "fin") ~> /\ spc = "closed"
                   /\ \A w \in Worker : wpc[w] = "FIN" /\ got[w] = pushed

\* The link implements the lockstep broadcast: what happened so far, read off
\* the code's state, is a behaviour of the abstract specification.
Stopped == {w \in Worker : wpc[w] = "FIN"}
Ended == spc \in {"fin", "finack", "done", "closed"}
Abs == INSTANCE LockstepBroadcast WITH closed <- Ended, stopped <- Stopped
ImplementsBroadcast == Abs!Spec

-----------------------------------------------------------------------------
(***************************************************************************)
(* Why the numbers agree: an inductive invariant.  The loops of the        *)
(* distributor put every worker into one of a few stages, by the loop and  *)
(* by whether the loop's index has passed the worker; the stage and the    *)
(* number Num(w) of the next message the distributor takes from w, or      *)
(* sends to it, fix what the sockets and the worker hold.                  *)
(***************************************************************************)
Stage(w) ==
  CASE spc \in {"main", "others"} /\ w >= i -> "hello"
    [] spc = "others" /\ w < i              -> "greeted"
    [] spc = "info"   /\ w >= i             -> "greeted"
    [] spc = "info"   /\ w < i              -> "told"
    [] spc = "ready"  /\ w >= i             -> "told"
    [] spc = "push"   /\ w < i              -> "data"
    [] spc = "check"  /\ w >= i             -> "data"
    [] spc = "fin"    /\ w < i              -> "ending"
    [] spc = "finack" /\ w >= i             -> "ending"
    [] spc = "finack" /\ w < i              -> "over"
    [] spc \in {"done", "closed"}           -> "over"
    [] OTHER                                -> "ready"

Num(w) == IF w < i THEN seq + 1 ELSE seq

\* Nothing is under way: the distributor owes w the next message.
Quiet(w, pc) == /\ req[w] = <<>> /\ rep[w] = <<>>
                /\ wseq[w] = Num(w) /\ wpc[w] = pc

\* The distributor's m is under way to w ...
Told(w, pc, m) == /\ req[w] = <<>> /\ rep[w] = <<m>>
                  /\ wseq[w] = Num(w) - 1 /\ wpc[w] = pc

\* ... or w's m to the distributor.
Asks(w, pc, m) == /\ req[w] = <<m>> /\ rep[w] = <<>>
                  /\ wseq[w] = Num(w) + 1 /\ wpc[w] = pc

\* What the sockets and the worker hold, stage by stage.
Link(w) ==
  /\ Stage(w) = "hello" =>
       \/ Quiet(w, "start")
       \/ Asks(w, "info", InfoReq(Num(w), w, NWorkers))
  /\ Stage(w) = "greeted" => Quiet(w, "info") /\ worker_ids[w] = w
  /\ Stage(w) = "told" =>
       \/ Told(w, "info", InfoRep(Num(w) - 1, w))
       \/ Asks(w, "DATA", DataReq(Num(w)))
  /\ Stage(w) = "ready" => Quiet(w, "DATA")
  /\ Stage(w) = "data" =>
       \/ Told(w, "DATA", DataRep(Num(w) - 1, Current, w))
       \/ Asks(w, "DATA", DataReq(Num(w)))
  /\ Stage(w) = "ending" =>
       \/ Told(w, "DATA", FinRep(Num(w) - 1))
       \/ Asks(w, "FIN", FinRep(Num(w)))
  /\ Stage(w) = "over" => Quiet(w, "FIN")

\* An image that is still to be sent to w, or on its way to it, is the only one
\* w lacks.
Lacks(w) == \/ spc = "push" /\ w >= i
            \/ Stage(w) = "data" /\ rep[w] # <<>>
Delivery(w) == IF Lacks(w) THEN pushed # <<>> /\ pushed = Append(got[w], Current)
                           ELSE got[w] = pushed

\* The rows announced to w are w's, from the moment it knows them.
Announced(w) == meta[w] = IF wpc[w] \in {"DATA", "FIN"} THEN w ELSE NoRank

\* The distributor's own state.
Control ==
  /\ spc # "abort"
  /\ spc \in {"main", "idle", "done", "closed"} => i = 0
  /\ spc = "others" => i > 0
  /\ n_workers = IF spc = "main" THEN 0 ELSE NWorkers

\* The inductive invariant.
LinkInv == /\ TypeOK
           /\ Control
           /\ \A w \in Worker : Link(w) /\ Delivery(w) /\ Announced(w)
=============================================================================
