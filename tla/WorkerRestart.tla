---------------------------- MODULE WorkerRestart ----------------------------
(***************************************************************************)
(* TraceMQ when workers die and are started again (by a scheduler or by    *)
(* hand).  Neither side of the link has a provision for it: a new process  *)
(* begins with the handshake and with number 0 on the socket of its rank,  *)
(* where the distributor is in the middle of the old process's numbers.    *)
(* What the link does promise then is modelled here: it stops rather than  *)
(* go on without a worker.  The ranks run sirt_stream, whose worker is     *)
(* TraceMQ's, or the C test worker (worker.c), a main of its own.          *)
(*                                                                         *)
(* The distributor's REP socket (external) answers the process whose       *)
(* message it received last, and drops the answer when that process is     *)
(* gone; a message of a process that is gone may still be delivered, and   *)
(* messages of two processes in either order.                              *)
(***************************************************************************)
EXTENDS TraceMQ

CONSTANT MaxCrashes    \* bound on the crashes

ASSUME MaxCrashesAssumption == MaxCrashes \in Nat

VARIABLES
  program,  \* what the ranks run: "sirt_stream" or "worker"
  from,     \* from[w]: for each message of req[w], whether its sender lives
  peer,     \* peer[w]: whether the process that socket w will answer lives
  ever,     \* ever[w]: the images the processes of rank w that died had got
  crashes,  \* crashes so far
  doomed    \* the image being pushed was begun without some worker

linkFaults == <<from, peer, ever, crashes, doomed>>
faultVars == <<program, linkFaults>>

RestartInit == /\ Init
               /\ program \in {"sirt_stream", "worker"}
               /\ from = [w \in Worker |-> <<>>]
               /\ peer = [w \in Worker |-> FALSE]
               /\ ever = [w \in Worker |-> <<>>]
               /\ crashes = 0 /\ doomed = FALSE

\* A blocking receive of the distributor on socket i.
Receive == /\ RecvMain \/ RecvOther \/ RecvReady \/ RecvAck \/ RecvFin
           /\ from' = [from EXCEPT ![i] = Tail(@)]
           /\ peer' = [peer EXCEPT ![i] = Head(from[i])]
           /\ UNCHANGED <<program, ever, crashes, doomed>>

\* A send of the distributor to a process that lives.
Deliver == /\ peer[i]
           /\ SendInfo \/ SendImage \/ SendFin
           /\ UNCHANGED faultVars

\* A send to one that is gone succeeds as well.
Discard(here, next) ==
  /\ spc = here /\ ~peer[i]
  /\ EndOfTurn(n_workers, here, next)
  /\ UNCHANGED <<n_workers, worker_ids, pushed, req, rep, workerVars, faultVars>>

Drop == Discard("info", "ready") \/ Discard("push", "check") \/ Discard("fin", "finack")

Call == /\ Caller
        /\ doomed' = (\E w \in Worker : ~peer[w])
        /\ UNCHANGED <<program, from, peer, ever, crashes>>

-----------------------------------------------------------------------------
(* worker.c, main.  As in TraceMQ a receive and the send that answers it    *)
(* are one step.                                                           *)

\* Handshake with server.
TestHandshake(w) ==
  /\ wpc[w] = "start"
  /\ req' = [req EXCEPT ![w] = Append(@, InfoReq(wseq[w], w, NWorkers))]
  /\ wseq' = [wseq EXCEPT ![w] = @ + 1]
  /\ wpc' = [wpc EXCEPT ![w] = "info"]
  /\ UNCHANGED <<serverVars, rep, meta, got>>

\* Receive data info msg, ready to receive msgs.  The type is not asserted.
TestReady(w) ==
  LET m == Head(rep[w]) IN
  /\ wpc[w] = "info" /\ rep[w] # <<>>
  /\ rep' = [rep EXCEPT ![w] = Tail(@)]
  /\ \/ /\ m.seq_n = wseq[w]
        /\ Answer(w, DataReq(wseq[w] + 1))
        /\ meta' = [meta EXCEPT ![w] = m.part]
        /\ wpc' = [wpc EXCEPT ![w] = "DATA"]
        /\ UNCHANGED got
     \/ m.seq_n # wseq[w] /\ WorkerAbort(w)
  /\ UNCHANGED serverVars

\* The loop on DATA_REP, and its last message, which must be FIN_REP.
TestReceive(w) ==
  LET m == Head(rep[w]) IN
  /\ wpc[w] = "DATA" /\ rep[w] # <<>>
  /\ rep' = [rep EXCEPT ![w] = Tail(@)]
  /\ \/ /\ m.type = "DATA_REP" /\ m.seq_n = wseq[w]
        /\ Answer(w, DataReq(wseq[w] + 1))
        /\ got' = [got EXCEPT ![w] = Append(@, m.image)]
        /\ UNCHANGED <<wpc, meta>>
     \/ /\ m.type = "FIN_REP" /\ m.seq_n = wseq[w]
        /\ Answer(w, FinRep(wseq[w] + 1))
        /\ wpc' = [wpc EXCEPT ![w] = "FIN"]
        /\ UNCHANGED <<meta, got>>
     \/ /\ m.type \notin {"DATA_REP", "FIN_REP"} \/ m.seq_n # wseq[w]
        /\ WorkerAbort(w)
  /\ UNCHANGED serverVars

TestStep(w) == TestHandshake(w) \/ TestReady(w) \/ TestReceive(w)

-----------------------------------------------------------------------------
Work(w) == /\ \/ program = "sirt_stream" /\ WorkerStep(w)
              \/ program = "worker" /\ TestStep(w)
           /\ from' = IF req' = req THEN from ELSE [from EXCEPT ![w] = Append(@, TRUE)]
           /\ UNCHANGED <<program, peer, ever, crashes, doomed>>

\* The process of rank w dies, of a failed assert or otherwise, before or after
\* what it has sent last is on the wire.
Crash(w) ==
  /\ wpc[w] \notin {"dead", "FIN"} /\ crashes < MaxCrashes
  /\ crashes' = crashes + 1
  /\ wpc' = [wpc EXCEPT ![w] = "dead"]
  /\ ever' = [ever EXCEPT ![w] = @ \o got[w]]
  /\ got' = [got EXCEPT ![w] = <<>>]
  /\ wseq' = [wseq EXCEPT ![w] = 0]
  /\ meta' = [meta EXCEPT ![w] = NoRank]
  /\ rep' = [rep EXCEPT ![w] = <<>>]
  /\ peer' = [peer EXCEPT ![w] = FALSE]
  /\ \/ UNCHANGED req /\ from' = [from EXCEPT ![w] = [n \in DOMAIN @ |-> FALSE]]
     \/ req' = [req EXCEPT ![w] = <<>>] /\ from' = [from EXCEPT ![w] = <<>>]
  /\ UNCHANGED <<serverVars, program, doomed>>

Restart(w) ==
  /\ wpc[w] = "dead"
  /\ wpc' = [wpc EXCEPT ![w] = "start"]
  /\ UNCHANGED <<serverVars, req, rep, wseq, meta, got, faultVars>>

\* REP takes turns between its connections.
Overtake(w) ==
  /\ Len(req[w]) > 1 /\ from[w][1] # from[w][2]
  /\ req' = [req EXCEPT ![w] = <<@[2], @[1]>> \o Tail(Tail(@))]
  /\ from' = [from EXCEPT ![w] = <<@[2], @[1]>> \o Tail(Tail(@))]
  /\ UNCHANGED <<serverVars, rep, workerVars, program, peer, ever, crashes, doomed>>

Close == Finalize /\ UNCHANGED faultVars

RestartNext == \/ Receive \/ Deliver \/ Drop \/ Call \/ Close
               \/ \E w \in Worker : Work(w) \/ Crash(w) \/ Restart(w) \/ Overtake(w)

RestartSpec == RestartInit /\ [][RestartNext]_<<vars, faultVars>>

-----------------------------------------------------------------------------
\* Every image whose push_image has returned has reached every rank, whichever
\* processes of the rank came and went: the handshake message of a new process
\* is never taken for the acknowledgement of an image that nobody received.
DeliveredDespiteCrash ==
  spc = "idle" => \A w \in Worker : ever[w] \o got[w] = pushed

\* A push_image or done_image that begins while the process it would answer at
\* some rank is gone never returns: the distributor blocks (server.c:182) or,
\* once a new process says hello, aborts.  It never goes on without the worker.
FailStop ==
  [][(spc \in {"check", "finack"} /\ spc' \in {"idle", "done"}) => ~doomed]_<<vars, faultVars>>
=============================================================================
